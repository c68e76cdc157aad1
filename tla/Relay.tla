------------------------------- MODULE Relay -------------------------------
(***************************************************************************)
(* The path of the data of one CONNECT session once it is established:      *)
(*                                                                          *)
(*    application  <->  proxy  <=>  peer  <->  target                       *)
(*                                                                          *)
(* where proxy is the thread in Proxy::local_read, peer the thread in       *)
(* Peer::stage_strm_connect, and <=> the link that carries encoded blocks.  *)
(* Each of the two is one thread with blocking sockets: select, read one    *)
(* piece, send it.  Both look first at their plain side - the application   *)
(* for the proxy, the target for the peer.  The payload of a piece is       *)
(* abstracted to its number.  A block on the link is read whole or torn:    *)
(* utils::recvall takes what one recv delivers for the block, and the rest  *)
(* for the length of the next.  A block is torn in two at most, the bound   *)
(* on its parts.                                                            *)
(***************************************************************************)
EXTENDS Integers, Sequences

CONSTANTS
  LinkCap,   \* pieces the socket buffers of one link hold
  Loads      \* what the endpoints may do (see LoadType)

Endpoints == {"app", "target"}
Sides == {"proxy", "peer"}
Links == {"up1", "up2", "up3", "down1", "down2", "down3"}

\* pieces[e]: pieces endpoint e sends, numbered from 1; endless: it starts
\* again with 1 afterwards; pauses: somebody may be silent for the length of
\* the timeout; parts: a block may arrive in parts.
LoadType == [pieces : [Endpoints -> Nat], endless : BOOLEAN, pauses : BOOLEAN,
             parts : BOOLEAN]

ASSUME LinkCapAssumption == LinkCap \in Nat \ {0}
ASSUME LoadsAssumption == Loads \subseteq LoadType

VARIABLES
  load,   \* what the endpoints of this session do
  q,      \* q[l]: pieces sent on l and not read yet
  fin,    \* fin[l]: the sender of l closed it
  rst,    \* rst[l]: a send on l was lost: the next one fails
  end,    \* end[e]: what endpoint e still does
  sent,   \* sent[e]: the number of the last piece e sent
  got,    \* got[e]: the number of the last piece e received
  wrong,  \* wrong[e]: e received something else than the next piece (history)
  ttl,    \* ttl[e]: e received a TTL-expired reply (history)
  pc,     \* pc[s]: where the thread of side s is
  held,   \* held[s]: the piece s is about to send
  torn    \* torn[s]: s has torn a block that came in on the link (history)

endVars  == <<end, sent, got, wrong, ttl>>
sideVars == <<pc, held, torn>>
linkVars == <<q, fin, rst>>
vars == <<load, linkVars, endVars, sideVars>>

\* A piece on a link: its number and whether it is encoded.  Number 0 is the
\* reply SOCKSV5_REP_TTLEXPI, number -1 what nobody sent: a part of a block, or
\* what it decodes to.
Piece(n, e) == [num |-> n, enc |-> e]
Largest == IF load.pieces["app"] > load.pieces["target"]
             THEN load.pieces["app"] ELSE load.pieces["target"]

\* Mutant of TtlReply: a reply no piece of data has the type of.
TtlBeyond == Largest + 1

TtlReply == 0
Torn == -1
PieceType == [num : Torn .. Largest, enc : BOOLEAN]

\* What is left of a torn block on the link.
Remnant == Piece(Torn, TRUE)

PlainIn(s)  == IF s = "proxy" THEN "up1" ELSE "down1"
PlainOut(s) == IF s = "proxy" THEN "down3" ELSE "up3"
EncIn(s)    == IF s = "proxy" THEN "down2" ELSE "up2"
EncOut(s)   == IF s = "proxy" THEN "up2" ELSE "down2"
FromEnd(e)  == IF e = "app" THEN "up1" ELSE "down1"
ToEnd(e)    == IF e = "app" THEN "down3" ELSE "up3"
Origin(e)   == IF e = "app" THEN "target" ELSE "app"

Init ==
  /\ load \in Loads
  /\ q = [l \in Links |-> <<>>]
  /\ fin = [l \in Links |-> FALSE]
  /\ rst = [l \in Links |-> FALSE]
  /\ end = [e \in Endpoints |-> "open"]
  /\ sent = [e \in Endpoints |-> 0]
  /\ got = [e \in Endpoints |-> 0]
  /\ wrong = [e \in Endpoints |-> FALSE]
  /\ ttl = [e \in Endpoints |-> FALSE]
  /\ pc = [s \in Sides |-> "select"]
  /\ held = [s \in Sides |-> Piece(0, FALSE)]
  /\ torn = [s \in Sides |-> FALSE]

-----------------------------------------------------------------------------
(* Links *)

Room(l) == Len(q[l]) < LinkCap

\* The reader of l closed its socket: a send may still succeed or fail.
ReaderGone(l) ==
  \/ \E e \in Endpoints : l = ToEnd(e) /\ end[e] = "gone"
  \/ \E s \in Sides : l \in {PlainIn(s), EncIn(s)} /\ pc[s] = "ended"

\* select reports l: a piece, or end of file.
Readable(l) == q[l] # <<>> \/ fin[l]

\* The pieces of link l that still arrive after its sender closed the socket
\* on which "in" comes in: unread input turns the close into a reset, which
\* drops pieces not delivered yet.
Surviving(l, in) ==
  IF q[in] = <<>> THEN {q[l]}
                  ELSE {SubSeq(q[l], 1, k) : k \in 0 .. Len(q[l])}

-----------------------------------------------------------------------------
(* The application and the target *)

Next1(n, m) == (n % m) + 1

EndSends(e) ==
  /\ end[e] = "open"
  /\ load.pieces[e] > 0
  /\ load.endless \/ sent[e] < load.pieces[e]
  /\ Room(FromEnd(e)) /\ ~ReaderGone(FromEnd(e))
  /\ sent' = [sent EXCEPT ![e] = Next1(@, load.pieces[e])]
  /\ q' = [q EXCEPT ![FromEnd(e)] = Append(@, Piece(sent'[e], FALSE))]
  /\ UNCHANGED <<fin, rst, end, got, wrong, ttl, sideVars>>

EndReads(e) ==
  /\ end[e] # "gone"
  /\ q[ToEnd(e)] # <<>>
  /\ LET p == Head(q[ToEnd(e)])
         next == Piece(Next1(got[e], load.pieces[Origin(e)]), FALSE)
     IN  IF p = Piece(TtlReply, FALSE)
           THEN ttl' = [ttl EXCEPT ![e] = TRUE] /\ UNCHANGED <<got, wrong>>
           ELSE IF load.pieces[Origin(e)] > 0 /\ p = next /\ ~ttl[e]
             THEN got' = [got EXCEPT ![e] = p.num] /\ UNCHANGED <<wrong, ttl>>
             ELSE wrong' = [wrong EXCEPT ![e] = TRUE] /\ UNCHANGED <<got, ttl>>
  /\ q' = [q EXCEPT ![ToEnd(e)] = Tail(@)]
  /\ UNCHANGED <<fin, rst, end, sent, sideVars>>

\* The endpoint closes its sending side and reads on, or closes both.
EndCloses(e) ==
  /\ end[e] # "gone"
  /\ \E x \in {"shut", "gone"} \ {end[e]} : end' = [end EXCEPT ![e] = x]
  /\ fin' = [fin EXCEPT ![FromEnd(e)] = TRUE]
  /\ IF end'[e] = "gone"
       THEN \E p \in Surviving(FromEnd(e), ToEnd(e)) :
              q' = [q EXCEPT ![FromEnd(e)] = p]
       ELSE UNCHANGED q
  /\ UNCHANGED <<rst, sent, got, wrong, ttl, sideVars>>

-----------------------------------------------------------------------------
(* The two relay threads *)

\* select, then one read: the plain side when it is readable, the link
\* otherwise.  What came in plain goes out encoded, and the other way round.
\* On the link the read is a length and the whole block it announces.
ReadPiece(s) ==
  /\ pc[s] = "select"
  /\ \E in \in {PlainIn(s), EncIn(s)} :
       /\ in = EncIn(s) => ~Readable(PlainIn(s))
       /\ q[in] # <<>>
       /\ held' = [held EXCEPT ![s] = Piece(Head(q[in]).num, in = PlainIn(s))]
       /\ q' = [q EXCEPT ![in] = Tail(@)]
  /\ pc' = [pc EXCEPT ![s] = "send"]
  /\ UNCHANGED <<fin, rst, endVars, torn>>

\* A link behind a read that stopped inside a block, or between two: the read
\* took some pieces and perhaps a part of one more.
Leftover(x) ==
  {SubSeq(x, k + 1, Len(x)) : k \in 1 .. Len(x)}
    \union {<<Remnant>> \o SubSeq(x, k + 1, Len(x)) :
              k \in {i \in 1 .. Len(x) : x[i] # Remnant}}

\* What a part of a block decodes to: something that is sent on, or nothing,
\* which ends the peer's loop and is nothing to send for the proxy.
DecodePart(s) ==
  \/ /\ held' = [held EXCEPT ![s] = Piece(Torn, FALSE)]
     /\ pc' = [pc EXCEPT ![s] = "send"]
  \/ /\ pc' = [pc EXCEPT ![s] = IF s = "peer" THEN "closing" ELSE "select"]
     /\ UNCHANGED held

\* recvall's one recv returns a part of the block, and what is left is read as
\* a length and a block later.  Such a length may be wrong: zero, negative or
\* half there, which ends the loop, or of more than there is.  When the length
\* is all there is, recv waits for the block without a timeout.
ReadTorn(s) ==
  /\ pc[s] = "select" /\ load.parts
  /\ ~Readable(PlainIn(s)) /\ q[EncIn(s)] # <<>>
  /\ torn' = [torn EXCEPT ![s] = TRUE]
  /\ \E x \in Leftover(q[EncIn(s)]) :
       /\ Head(q[EncIn(s)]) # Remnant => x = <<Remnant>> \o Tail(q[EncIn(s)])
       /\ q' = [q EXCEPT ![EncIn(s)] = x]
       /\ \/ DecodePart(s)
          \/ /\ \/ pc' = [pc EXCEPT ![s] = "closing"]
                \/ x = <<>> /\ pc' = [pc EXCEPT ![s] = "midblock"]
             /\ UNCHANGED held
  /\ UNCHANGED <<fin, rst, endVars>>

\* The block that recv waits for: whatever comes next, or end of file.
MidBlock(s) ==
  /\ pc[s] = "midblock"
  /\ torn' = [torn EXCEPT ![s] = TRUE]
  /\ \/ \E x \in Leftover(q[EncIn(s)]) :
          q' = [q EXCEPT ![EncIn(s)] = x] /\ DecodePart(s)
     \/ /\ q[EncIn(s)] = <<>> /\ fin[EncIn(s)]
        /\ pc' = [pc EXCEPT ![s] = "closing"]
        /\ UNCHANGED <<q, held>>
  /\ UNCHANGED <<fin, rst, endVars>>

\* Mutant of ReadEnd: end of file on the link does not end the loop.
OnlyPlainEnds(s) ==
  /\ pc[s] = "select"
  /\ q[PlainIn(s)] = <<>> /\ fin[PlainIn(s)]
  /\ pc' = [pc EXCEPT ![s] = "closing"]
  /\ UNCHANGED <<linkVars, endVars, held, torn>>

\* Mutant of ReadEnd: the end of file is seen before what is in front of it.
EndOvertakes(s) ==
  /\ pc[s] = "select"
  /\ \E in \in {PlainIn(s), EncIn(s)} :
       /\ in = EncIn(s) => ~Readable(PlainIn(s))
       /\ fin[in]
  /\ pc' = [pc EXCEPT ![s] = "closing"]
  /\ UNCHANGED <<linkVars, endVars, held, torn>>

\* The read returns end of file: the loop ends.
ReadEnd(s) ==
  /\ pc[s] = "select"
  /\ \E in \in {PlainIn(s), EncIn(s)} :
       /\ in = EncIn(s) => ~Readable(PlainIn(s))
       /\ q[in] = <<>> /\ fin[in]
  /\ pc' = [pc EXCEPT ![s] = "closing"]
  /\ UNCHANGED <<linkVars, endVars, held, torn>>

\* Mutant of Timeout: the return behind the reply is missing.
TimeoutGoesOn(s) ==
  /\ pc[s] = "select"
  /\ ~Readable(PlainIn(s)) /\ ~Readable(EncIn(s))
  /\ IF s = "peer"
       THEN /\ held' = [held EXCEPT ![s] = Piece(TtlReply, TRUE)]
            /\ pc' = [pc EXCEPT ![s] = "send"]
       ELSE pc' = [pc EXCEPT ![s] = "closing"] /\ UNCHANGED held
  /\ UNCHANGED <<linkVars, endVars, torn>>

\* Neither side was readable for the length of the timeout.  The peer says so
\* to the client before it closes, in a block like any other.
Timeout(s) ==
  /\ pc[s] = "select"
  /\ ~Readable(PlainIn(s)) /\ ~Readable(EncIn(s))
  /\ IF s = "peer"
       THEN /\ held' = [held EXCEPT ![s] = Piece(TtlReply, TRUE)]
            /\ pc' = [pc EXCEPT ![s] = "lastsend"]
       ELSE pc' = [pc EXCEPT ![s] = "closing"] /\ UNCHANGED held
  /\ UNCHANGED <<linkVars, endVars, torn>>

Sending(s) == pc[s] \in {"send", "lastsend"}
Out(s) == IF held[s].enc THEN EncOut(s) ELSE PlainOut(s)
AfterSend(s) == IF pc[s] = "lastsend" THEN "closing" ELSE "select"

\* A blocking send: it waits for room in the socket buffers.
SendPiece(s) ==
  /\ Sending(s)
  /\ ~ReaderGone(Out(s)) /\ Room(Out(s))
  /\ q' = [q EXCEPT ![Out(s)] = Append(@, held[s])]
  /\ pc' = [pc EXCEPT ![s] = AfterSend(s)]
  /\ UNCHANGED <<fin, rst, endVars, held, torn>>

\* Mutant of AfterFailedSend: the peer does not look at the result either.
FailureIgnored(s) == "select"

\* What a thread does about a send that failed: the proxy looks at no result.
AfterFailedSend(s) == IF s = "proxy" THEN "select" ELSE "closing"

\* The receiver closed.  The piece vanishes; the send may fail at once or
\* only the next time, but it does not block.
SendLost(s) ==
  /\ Sending(s)
  /\ ReaderGone(Out(s))
  /\ \/ /\ ~rst[Out(s)]
        /\ rst' = [rst EXCEPT ![Out(s)] = TRUE]
        /\ pc' = [pc EXCEPT ![s] = AfterSend(s)]
     \/ /\ pc' = [pc EXCEPT ![s] = AfterFailedSend(s)]
        /\ UNCHANGED rst
  /\ UNCHANGED <<q, fin, endVars, held, torn>>

\* Both sockets are closed.
Close(s) ==
  /\ pc[s] = "closing"
  /\ pc' = [pc EXCEPT ![s] = "ended"]
  /\ fin' = [fin EXCEPT ![PlainOut(s)] = TRUE, ![EncOut(s)] = TRUE]
  /\ \E p \in Surviving(PlainOut(s), PlainIn(s)),
        x \in Surviving(EncOut(s), EncIn(s)) :
       q' = [q EXCEPT ![PlainOut(s)] = p, ![EncOut(s)] = x]
  /\ UNCHANGED <<rst, endVars, held, torn>>

-----------------------------------------------------------------------------
Thread(s) ==
  /\ \/ ReadPiece(s) \/ ReadTorn(s) \/ MidBlock(s) \/ ReadEnd(s)
     \/ SendPiece(s) \/ SendLost(s) \/ Close(s)
  /\ UNCHANGED load

Reads(e) == EndReads(e) /\ UNCHANGED load

Endpoint(e) ==
  /\ EndSends(e) \/ EndReads(e) \/ EndCloses(e)
  /\ UNCHANGED load

Silence(s) == load.pauses /\ Timeout(s) /\ UNCHANGED load

Next ==
  \/ \E e \in Endpoints : Endpoint(e)
  \/ \E s \in Sides : Thread(s) \/ Silence(s)

Spec == Init /\ [][Next]_vars

\* The threads run whenever they are not blocked, and an endpoint that has
\* not closed reads what arrives.  Nobody has to send, close or be silent.
FairSpec ==
  /\ Spec
  /\ \A s \in Sides : WF_vars(Thread(s))
  /\ \A e \in Endpoints : WF_vars(Reads(e))

-----------------------------------------------------------------------------
(* Properties *)

TypeOK ==
  /\ load \in Loads
  /\ q \in [Links -> Seq(PieceType)]
  /\ fin \in [Links -> BOOLEAN]
  /\ rst \in [Links -> BOOLEAN]
  /\ end \in [Endpoints -> {"open", "shut", "gone"}]
  /\ sent \in [Endpoints -> 0 .. Largest]
  /\ got \in [Endpoints -> 0 .. Largest]
  /\ wrong \in [Endpoints -> BOOLEAN]
  /\ ttl \in [Endpoints -> BOOLEAN]
  /\ pc \in [Sides -> {"select", "midblock", "send", "lastsend", "closing",
                      "ended"}]
  /\ held \in [Sides -> PieceType]
  /\ torn \in [Sides -> BOOLEAN]

\* The thread in front of endpoint e, which decodes what e receives.
Decoder(e) == IF e = "app" THEN "proxy" ELSE "peer"

\* Through both threads, encoding and decoding, timeouts and resets, each
\* endpoint receives the pieces of the other in order, plain and without a
\* gap, until the thread in front of it tears a block (utils::recvall);
\* whatever is torn, the only reply the relay adds is a TTL-expired one, and
\* only to the application (stage_strm_connect, local_read).
InOrder ==
  /\ \A e \in Endpoints : wrong[e] => torn[Decoder(e)]
  /\ ~ttl["target"]

Blocked(s) == Sending(s) /\ ~ReaderGone(Out(s)) /\ ~Room(Out(s))

\* As long as the target has sent less than a link holds, the two threads do
\* not wait for each other to read, however much the application sends: with
\* blocking sends on both sides and one thread each, that would be for good,
\* since the timeout only guards select.
NoMutualBlock ==
  ~load.endless /\ sent["target"] < LinkCap =>
    ~ /\ Blocked("proxy") /\ Out("proxy") = "up2"
      /\ Blocked("peer")  /\ Out("peer") = "down2"

\* A thread that waits for ever for a block, behind a length that it read from
\* the rest of a torn one: no timeout guards that recv.
Stuck == \E s \in Sides : <>[](pc[s] = "midblock")

\* When either endpoint closes even half of its connection, both threads end,
\* unless the target has sent enough for them to block each other, the other
\* endpoint never stops sending, or a torn block leaves a thread stuck.
EndsTogether ==
  ~Stuck =>
    \A e \in Endpoints :
      (~load.endless /\ end[e] # "open")
        ~> (\/ pc["proxy"] = "ended" /\ pc["peer"] = "ended"
            \/ sent["target"] >= LinkCap)

\* A response reaches the application completely, also when the target closes
\* behind it, if the application has nothing more to say and stays, nobody
\* pauses as long as the timeout, and the proxy tears no block of it.
ResponseArrives ==
  (/\ ~load.pauses /\ ~load.endless /\ load.pieces["app"] = 0
   /\ sent["target"] = load.pieces["target"])
    ~> (\/ got["app"] = load.pieces["target"] \/ end["app"] # "open"
        \/ torn["proxy"])

\* The peer notices the end of the proxy even while the target sends without
\* pause, since it looks at the result of each send, and in the middle of a
\* block, since recv ends there.
PeerFollowsProxy == (pc["proxy"] = "ended") ~> (pc["peer"] = "ended")

\* The proxy, which does not look, notices the end of the peer once the
\* application pauses.
ProxyFollowsPeer ==
  (<>[](q["up1"] = <<>>) /\ <>(pc["peer"] = "ended"))
    => <>(pc["proxy"] = "ended")
=============================================================================
