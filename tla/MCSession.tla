----------------------------- MODULE MCSession -----------------------------
(* Instances of Session for TLC: two connections and the frames that take   *)
(* every branch of stage_init, stage_auth and stage_requ.                   *)
EXTENDS Session

CONSTANTS c1, c2

MCConns == {c1, c2}

Offer(methods) == [kind |-> "offer", methods |-> methods]
Short  == [kind |-> "short", methods |-> <<>>]
BadVer == [kind |-> "badver", methods |-> <<>>]

\* Every kind of hello: both orders of the known methods, an unknown one in
\* front, and none that is known.
MCHellos ==
  {Short, BadVer, Offer(<<"noauth", "usrpass">>),
   Offer(<<"other", "usrpass", "noauth">>), Offer(<<"other">>)}

PlainHello == {Offer(<<"noauth">>)}
TwoHellos == PlainHello \union {Offer(<<"usrpass">>)}

MCAuthFrames == {"malformed", "good", "bad"}
MCRequests == {"malformed", "connect", "bind", "udp"}
OnlyConnect == {"connect"}
BindRequests == {"malformed", "bind"}
=============================================================================
