------------------------------ MODULE Session ------------------------------
(***************************************************************************)
(* The life of the client connections of the server program (Peer): one    *)
(* worker thread per accepted connection runs Peer::start_client, which     *)
(* negotiates a SOCKS5 method, authenticates, serves one request (CONNECT,  *)
(* BIND or UDP), and tears the connection down.  The workers share only     *)
(* the set of ports handed out for BIND and the mutex that guards it.       *)
(*                                                                          *)
(* Encoding and decoding of the frames, their sizes and the payload are     *)
(* abstracted away (module BlockSize is about sizes); every reply the       *)
(* server puts on the wire, every descriptor it opens or closes, and every  *)
(* early return is kept.                                                    *)
(***************************************************************************)
EXTENDS Integers, Sequences, FiniteSets

CONSTANTS
  Conns,        \* the client connections, one worker thread each
  BasePort,     \* remote_ipp.second: 0 when "remote" is not configured
  MutexKind,    \* what a default pthread mutex does when its owner locks it
  Hellos,       \* the method negotiations clients may open with
  AuthFrames,   \* the authentication frames they may send
  Requests,     \* the requests they may send
  NoConn        \* nobody holds the mutex

\* A hello: its kind and the method list it carries.  "short" is a frame of
\* fewer than two bytes, "badver" one whose version is not 5.
HelloType == [kind : {"short", "badver", "offer"},
              methods : Seq({"noauth", "usrpass", "other"})]

ASSUME BasePortAssumption == BasePort \in Nat
\* glibc, musl and macOS relock a default mutex by blocking forever;
\* FreeBSD answers EDEADLK.
ASSUME MutexKindAssumption == MutexKind \in {"blocking", "errorcheck"}
ASSUME HelloAssumption == Hellos \subseteq HelloType
ASSUME AuthAssumption == AuthFrames \subseteq {"malformed", "good", "bad"}
ASSUME RequestAssumption ==
  Requests \subseteq {"malformed", "connect", "bind", "udp"}
ASSUME NoConnAssumption == NoConn \notin Conns
ASSUME FiniteConns == IsFiniteSet(Conns)

VARIABLES
  pc,        \* pc[c]: where the worker of c is (see PCs)
  net,       \* net[c]: what the network between the client and B still does
  hello,     \* hello[c]: the method list the client opened with (history)
  out,       \* out[c]: the replies the client was sent (history)
  cmd,       \* cmd[c]: the command accepted by stage_requ (history)
  fds,       \* fds[c]: the descriptors the worker opened and did not close
  port,      \* port[c]: the result of get_port in stage_strm_bind
  done,      \* done[c]: tags->done
  mutex,     \* Peer::mutex: its owner, or NoConn
  port_set   \* Peer::port_set

sessionVars == <<hello, out, cmd, fds, port, done>>
sharedVars  == <<mutex, port_set>>
vars == <<pc, net, sessionVars, sharedVars>>

Negotiating == {"init", "auth", "requ"}      \* blocked in recvall, line 338
Binding     == {"setup", "await", "relay", "relaymid", "delport"}
Closing     == {"closetarget", "closesoc", "setdone"}
Streaming   == {"stream", "midframe", "totarget", "toclient"}
PCs == {"idle", "connecting", "getport", "ended"}
         \union Negotiating \union Streaming \union Binding \union Closing

\* active: both ends still send; quiet: nothing arrives any more, not even a
\* FIN (the client and the hosts behind it vanished); fin: the client closed
\* and all it sent was read; rst: the connection was reset.
NetStates == {"active", "quiet", "fin", "rst"}
Replies == {"noauth", "usrpass", "authok", "autherr", "ok", "err", "ttl"}
Commands == {"none", "connect", "bind", "udp"}
Descriptors == {"soc", "target", "attempt", "listener", "unbound", "cd"}

Init ==
  /\ pc = [c \in Conns |-> "idle"]
  /\ net = [c \in Conns |-> "active"]
  /\ hello = [c \in Conns |-> <<>>]
  /\ out = [c \in Conns |-> <<>>]
  /\ cmd = [c \in Conns |-> "none"]
  /\ fds = [c \in Conns |-> {}]
  /\ port = [c \in Conns |-> 0]
  /\ done = [c \in Conns |-> FALSE]
  /\ mutex = NoConn
  /\ port_set = {}

-----------------------------------------------------------------------------
(* Helpers *)

Goto(c, l) == pc' = [pc EXCEPT ![c] = l]

\* utils::sendall on the client's socket, ok being whether it returned > 0.
\* The first send to a client that is gone may still succeed; the answer to
\* it is a reset.
SendAll(c, ok) ==
  \/ net[c] \in {"active", "quiet"} /\ ok /\ UNCHANGED net
  \/ net[c] = "fin" /\ net' = [net EXCEPT ![c] = "rst"]
  \/ net[c] = "rst" /\ ~ok /\ UNCHANGED net

\* One SOCKS5 reply (send_status, or the two bytes of stage_init and
\* stage_auth); only a client that is still there receives it.
Reply(c, r, ok) ==
  /\ SendAll(c, ok)
  /\ out' = IF net[c] \in {"active", "quiet"}
              THEN [out EXCEPT ![c] = Append(@, r)]
              ELSE out

\* A reply whose result the caller does not look at.
ReplyAnyway(c, r) == \E ok \in BOOLEAN : Reply(c, r, ok)

\* Mutant of Selected: the first method is taken without looking at it.
SelectedBlindly(methods) == IF methods = <<>> THEN "noauth" ELSE Head(methods)

\* stage_init: the first listed method that is known, NOAUTH when none is.
Selected(methods) ==
  IF \E i \in 1 .. Len(methods) :
       methods[i] = "usrpass" /\ \A j \in 1 .. i - 1 : methods[j] # "noauth"
    THEN "usrpass" ELSE "noauth"

\* The stage start_client continues with after stage_init.
StageAfterInit(h) ==
  CASE h.kind = "short"  -> "closetarget"
    [] h.kind = "badver" -> "requ"
    [] h.kind = "offer"  ->
         IF Selected(h.methods) = "noauth" THEN "requ" ELSE "auth"

\* Mutant of StageAfterAuth: any verdict lets the client go on.
AnyVerdictPasses(a) == IF a = "malformed" THEN "closetarget" ELSE "requ"

\* The stage after stage_auth: the assignment of STAGE_REQU on success is
\* overwritten by STAGE_FINISH.
StageAfterAuth(a) == "closetarget"

\* get_port: the first port from BasePort on that is not handed out.
FreePort ==
  CHOOSE p \in BasePort .. BasePort + Cardinality(port_set) :
    /\ p \notin port_set
    /\ \A q \in BasePort .. p - 1 : q \in port_set

\* Whether pthread_mutex_lock returns when c calls it.
LockReturns(c) ==
  \/ mutex = NoConn
  \/ mutex = c /\ MutexKind = "errorcheck"

-----------------------------------------------------------------------------
(* Negotiation: the loop of start_client up to the request *)

\* Peer::start creates the worker for an accepted connection.
Start(c) ==
  /\ pc[c] = "idle"
  /\ Goto(c, "init")
  /\ fds' = [fds EXCEPT ![c] = {"soc"}]
  /\ UNCHANGED <<net, hello, out, cmd, port, done, sharedVars>>

\* Mutant of RecvFails: the loop tests recvall for # 0 instead of > 0.
RecvFailsRetried(c) ==
  /\ pc[c] \in Negotiating
  /\ net[c] # "quiet"
  /\ UNCHANGED vars

\* recvall returns <= 0: end of file, a reset, or a bad block length.  There
\* is no timeout on this recv: a quiet client keeps the worker here.
RecvFails(c) ==
  /\ pc[c] \in Negotiating
  /\ net[c] # "quiet"
  /\ Goto(c, "closetarget")
  /\ UNCHANGED <<net, sessionVars, sharedVars>>

RecvHello(c) ==
  /\ pc[c] = "init"
  /\ net[c] = "active"
  /\ \E h \in Hellos :
       /\ Goto(c, StageAfterInit(h))
       /\ IF h.kind = "offer"
            THEN /\ hello' = [hello EXCEPT ![c] = h.methods]
                 /\ ReplyAnyway(c, Selected(h.methods))
            ELSE UNCHANGED <<net, hello, out>>
  /\ UNCHANGED <<cmd, fds, port, done, sharedVars>>

RecvAuth(c) ==
  /\ pc[c] = "auth"
  /\ net[c] = "active"
  /\ \E a \in AuthFrames :
       /\ Goto(c, StageAfterAuth(a))
       /\ IF a = "malformed"
            THEN UNCHANGED <<net, out>>
            ELSE ReplyAnyway(c, IF a = "good" THEN "authok" ELSE "autherr")
  /\ UNCHANGED <<hello, cmd, fds, port, done, sharedVars>>

\* stage_requ up to Client::connect; UDP is answered and nothing else.
RecvRequest(c) ==
  /\ pc[c] = "requ"
  /\ net[c] = "active"
  /\ \E r \in Requests :
       CASE r = "malformed" ->
              /\ Goto(c, "closetarget")
              /\ UNCHANGED <<net, out, cmd>>
         [] r = "udp" ->
              /\ Goto(c, "closetarget")
              /\ cmd' = [cmd EXCEPT ![c] = "udp"]
              /\ ReplyAnyway(c, "ok")
         [] r \in {"connect", "bind"} ->
              /\ Goto(c, "connecting")
              /\ cmd' = [cmd EXCEPT ![c] = r]
              /\ UNCHANGED <<net, out>>
  /\ UNCHANGED <<hello, fds, port, done, sharedVars>>

\* Both CONNECT and BIND connect to the requested host; only CONNECT tells.
ConnectOk(c) ==
  /\ pc[c] = "connecting"
  /\ fds' = [fds EXCEPT ![c] = @ \union {"target"}]
  /\ IF cmd[c] = "connect"
       THEN Goto(c, "stream") /\ ReplyAnyway(c, "ok")
       ELSE Goto(c, "getport") /\ UNCHANGED <<net, out>>
  /\ UNCHANGED <<hello, cmd, port, done, sharedVars>>

\* What a failed Client::connect leaves open: the socket that did not connect
\* is not closed; a name that does not resolve opens none.
LeftByConnect == {{}, {"attempt"}}

\* The Client object is deleted, which closes nothing.
ConnectFails(c) ==
  /\ pc[c] = "connecting"
  /\ \E left \in LeftByConnect :
       fds' = [fds EXCEPT ![c] = @ \union left]
  /\ Goto(c, "closetarget")
  /\ IF cmd[c] = "connect"
       THEN ReplyAnyway(c, "err")
       ELSE UNCHANGED <<net, out>>
  /\ UNCHANGED <<hello, cmd, port, done, sharedVars>>

-----------------------------------------------------------------------------
(* stage_strm_connect: the relay between the client and the target *)

\* Mutant of StreamTimeout: the return behind the reply is missing.
TimeoutGoesOn(c) ==
  /\ pc[c] = "stream"
  /\ net[c] \in {"active", "quiet"}
  /\ ReplyAnyway(c, "ttl")
  /\ UNCHANGED <<pc, hello, cmd, fds, port, done, sharedVars>>

\* Mutant of StreamTimeout: a timeout is treated like EINTR.
TimeoutContinues(c) ==
  /\ pc[c] = "stream"
  /\ net[c] \in {"active", "quiet"}
  /\ UNCHANGED vars

\* select returns 0: neither side was readable for "timeout" seconds.
StreamTimeout(c) ==
  /\ pc[c] = "stream"
  /\ net[c] \in {"active", "quiet"}
  /\ ReplyAnyway(c, "ttl")
  /\ Goto(c, "closetarget")
  /\ UNCHANGED <<hello, cmd, fds, port, done, sharedVars>>

\* The target sent data, which are encoded for the client.
StreamFromTarget(c) ==
  /\ pc[c] = "stream"
  /\ net[c] # "quiet"
  /\ Goto(c, "toclient")
  /\ UNCHANGED <<net, sessionVars, sharedVars>>

\* The blocking send to the client returns.  It may wait for as long as the
\* client is there and does not read.
StreamToClient(c) ==
  /\ pc[c] = "toclient"
  /\ \E ok \in BOOLEAN :
       /\ SendAll(c, ok)
       /\ Goto(c, IF ok THEN "stream" ELSE "closetarget")
  /\ UNCHANGED <<sessionVars, sharedVars>>

\* End of file or an error on either side, a bad block length, or an error
\* of select other than EINTR.
StreamEnds(c) ==
  /\ pc[c] = "stream"
  /\ net[c] # "quiet"
  /\ Goto(c, "closetarget")
  /\ UNCHANGED <<net, sessionVars, sharedVars>>

\* recvall read the length of a block from the client; its second recv
\* blocks without a timeout and nobody watches the target meanwhile.
StreamHeader(c) ==
  /\ pc[c] = "stream"
  /\ net[c] = "active"
  /\ Goto(c, "midframe")
  /\ UNCHANGED <<net, sessionVars, sharedVars>>

\* The block arrives and is decoded, perhaps to nothing.
StreamBody(c) ==
  /\ pc[c] = "midframe"
  /\ net[c] = "active"
  /\ \E l \in {"totarget", "closetarget"} : Goto(c, l)
  /\ UNCHANGED <<net, sessionVars, sharedVars>>

StreamBodyFails(c) ==
  /\ pc[c] = "midframe"
  /\ net[c] \in {"fin", "rst"}
  /\ Goto(c, "closetarget")
  /\ UNCHANGED <<net, sessionVars, sharedVars>>

\* The blocking send to the target returns.  It has no timeout: a target that
\* lives and does not read keeps the worker here, whatever the client does.
StreamToTarget(c) ==
  /\ pc[c] = "totarget"
  /\ net[c] # "quiet"
  /\ \E l \in {"stream", "closetarget"} : Goto(c, l)
  /\ UNCHANGED <<net, sessionVars, sharedVars>>

-----------------------------------------------------------------------------
(* stage_strm_bind: listen on a port for the application's peer *)

\* Mutant of GetPort: the mutex is unlocked when a port was found, too.
UnlockedAtOnce(c) ==
  /\ pc[c] = "getport"
  /\ LockReturns(c)
  /\ IF BasePort > 0
       THEN /\ port' = [port EXCEPT ![c] = FreePort]
            /\ port_set' = port_set \union {FreePort}
            /\ mutex' = NoConn
       ELSE UNCHANGED <<port, sharedVars>>
  /\ Goto(c, "setup")
  /\ UNCHANGED <<net, hello, out, cmd, fds, done>>

\* get_port returns with the mutex locked when it found a port, and unlocks
\* it only when no "remote" is configured (BasePort = 0).
GetPort(c) ==
  /\ pc[c] = "getport"
  /\ LockReturns(c)
  /\ IF BasePort > 0
       THEN /\ port' = [port EXCEPT ![c] = FreePort]
            /\ port_set' = port_set \union {FreePort}
            /\ mutex' = c
       ELSE UNCHANGED <<port, sharedVars>>
  /\ Goto(c, "setup")
  /\ UNCHANGED <<net, hello, out, cmd, fds, done>>

\* A listening socket is never closed, so its port stays taken.
PortTaken(c) ==
  \E d \in Conns \ {c} : "listener" \in fds[d] /\ port[d] = port[c]

\* Server::setup succeeds; the first reply may still not be assembled or sent.
SetupOk(c) ==
  /\ pc[c] = "setup"
  /\ BasePort > 0
  /\ ~PortTaken(c)
  /\ fds' = [fds EXCEPT ![c] = @ \union {"listener"}]
  /\ \/ \E ok \in BOOLEAN :
          /\ Reply(c, "ok", ok)
          /\ Goto(c, IF ok THEN "await" ELSE "delport")
     \/ Goto(c, "delport") /\ UNCHANGED <<net, out>>
  /\ UNCHANGED <<hello, cmd, port, done, sharedVars>>

\* What a failed Server::setup leaves open, for a "remote" of one address: the
\* socket it could not bind or listen on; a host that does not resolve, as the
\* empty one without "remote" does not, opens none.
LeftBySetup == IF BasePort = 0 THEN {{}} ELSE {{}, {"unbound"}}

\* The client is told nothing.
SetupFails(c) ==
  /\ pc[c] = "setup"
  /\ \E left \in LeftBySetup : fds' = [fds EXCEPT ![c] = @ \union left]
  /\ Goto(c, "delport")
  /\ UNCHANGED <<net, hello, out, cmd, port, done, sharedVars>>

\* Mutant of BindTimeout: the loop goes on after a timeout.
BindWaitsOn(c) ==
  /\ pc[c] \in {"await", "relay"}
  /\ UNCHANGED vars

\* select returns 0 or -1, before or after the accept.  The client's own
\* socket is in neither set: that it is gone goes unnoticed.
BindTimeout(c) ==
  /\ pc[c] \in {"await", "relay"}
  /\ Goto(c, "delport")
  /\ UNCHANGED <<net, sessionVars, sharedVars>>

\* accept returns a connection and the second reply is sent: success when
\* the host's address can be assembled, and an error that ends it otherwise.
BindAccept(c) ==
  /\ pc[c] = "await"
  /\ net[c] # "quiet"
  /\ fds' = [fds EXCEPT ![c] = @ \union {"cd"}]
  /\ \/ \E ok \in BOOLEAN :
          /\ Reply(c, "ok", ok)
          /\ Goto(c, IF ok THEN "relay" ELSE "delport")
     \/ Goto(c, "delport") /\ ReplyAnyway(c, "err")
  /\ UNCHANGED <<hello, cmd, port, done, sharedVars>>

\* Data, end of file or an error on either side of the relay; or the worker is
\* in the middle of a piece, where nothing has a timeout: the rest of a block
\* from cd is awaited, or room for a send to cd or to the host.
BindRelay(c) ==
  /\ pc[c] = "relay"
  /\ net[c] # "quiet"
  /\ \E l \in {"relay", "relaymid", "delport"} : Goto(c, l)
  /\ UNCHANGED <<net, sessionVars, sharedVars>>

BindRelayBody(c) ==
  /\ pc[c] = "relaymid"
  /\ net[c] # "quiet"
  /\ \E l \in {"relay", "delport"} : Goto(c, l)
  /\ UNCHANGED <<net, sessionVars, sharedVars>>

\* Mutant of DelPort: the port is not erased.
PortKept(c) ==
  /\ pc[c] = "delport"
  /\ LockReturns(c)
  /\ mutex' = NoConn
  /\ Goto(c, "closetarget")
  /\ UNCHANGED <<net, sessionVars, port_set>>

\* del_port: lock, erase, unlock.
DelPort(c) ==
  /\ pc[c] = "delport"
  /\ LockReturns(c)
  /\ port_set' = port_set \ {port[c]}
  /\ mutex' = NoConn
  /\ Goto(c, "closetarget")
  /\ UNCHANGED <<net, sessionVars>>

-----------------------------------------------------------------------------
(* The end of start_client *)

\* Mutant of CloseTarget: the target's connection stays open.
TargetLeftOpen(c) ==
  /\ pc[c] = "closetarget"
  /\ Goto(c, "closesoc")
  /\ UNCHANGED <<net, sessionVars, sharedVars>>

\* Mutant of CloseTarget: done is set first, as Proxy::start_client does.
DoneBeforeClose(c) ==
  /\ pc[c] = "closetarget"
  /\ fds' = [fds EXCEPT ![c] = @ \ {"target"}]
  /\ done' = [done EXCEPT ![c] = TRUE]
  /\ Goto(c, "closesoc")
  /\ UNCHANGED <<net, hello, out, cmd, port, sharedVars>>

CloseTarget(c) ==
  /\ pc[c] = "closetarget"
  /\ fds' = [fds EXCEPT ![c] = @ \ {"target"}]
  /\ Goto(c, "closesoc")
  /\ UNCHANGED <<net, hello, out, cmd, port, done, sharedVars>>

\* Mutant of CloseSoc: the client's socket stays open.
SocLeftOpen(c) ==
  /\ pc[c] = "closesoc"
  /\ Goto(c, "setdone")
  /\ UNCHANGED <<net, sessionVars, sharedVars>>

CloseSoc(c) ==
  /\ pc[c] = "closesoc"
  /\ fds' = [fds EXCEPT ![c] = @ \ {"soc"}]
  /\ Goto(c, "setdone")
  /\ UNCHANGED <<net, hello, out, cmd, port, done, sharedVars>>

SetDone(c) ==
  /\ pc[c] = "setdone"
  /\ done' = [done EXCEPT ![c] = TRUE]
  /\ Goto(c, "ended")
  /\ UNCHANGED <<net, hello, out, cmd, fds, port, sharedVars>>

-----------------------------------------------------------------------------
(* The client and its network *)

Serving(c) == pc[c] \notin {"idle", "ended"}

ClientGoes(c) ==
  /\ Serving(c)
  /\ net[c] = "active"
  /\ \E n \in {"quiet", "fin", "rst"} : net' = [net EXCEPT ![c] = n]
  /\ UNCHANGED <<pc, sessionVars, sharedVars>>

-----------------------------------------------------------------------------
Negotiate(c) ==
  \/ RecvFails(c) \/ RecvHello(c) \/ RecvAuth(c) \/ RecvRequest(c)
  \/ ConnectOk(c) \/ ConnectFails(c)

Stream(c) ==
  \/ StreamTimeout(c) \/ StreamFromTarget(c) \/ StreamToClient(c)
  \/ StreamHeader(c) \/ StreamBody(c) \/ StreamBodyFails(c)
  \/ StreamToTarget(c) \/ StreamEnds(c)

Bind(c) ==
  \/ GetPort(c) \/ SetupOk(c) \/ SetupFails(c) \/ BindTimeout(c)
  \/ BindAccept(c) \/ BindRelay(c) \/ BindRelayBody(c) \/ DelPort(c)

Finish(c) == CloseTarget(c) \/ CloseSoc(c) \/ SetDone(c)

Worker(c) == Negotiate(c) \/ Stream(c) \/ Bind(c) \/ Finish(c)

Next == \E c \in Conns : Start(c) \/ Worker(c) \/ ClientGoes(c)

Spec == Init /\ [][Next]_vars

-----------------------------------------------------------------------------
(* Fairness: what a worker does without waiting for anybody.  connect and   *)
(* close return (the kernel bounds both), a lock that can be taken is       *)
(* taken, select reports a closed connection, and select times out once     *)
(* nothing arrives.  A send to a client that is gone returns, and one to a  *)
(* client that vanished does when the kernel gives it up.  No client,       *)
(* target or accepted peer is assumed to send, nor to read what it is sent. *)

Gone(c) == net[c] \in {"fin", "rst"}

OwnStep(c) ==
  \/ Finish(c)
  \/ ConnectOk(c) \/ ConnectFails(c)
  \/ GetPort(c) \/ SetupOk(c) \/ SetupFails(c) \/ DelPort(c)
  \/ Gone(c) /\ (RecvFails(c) \/ StreamBodyFails(c))
  \/ Gone(c) /\ (StreamFromTarget(c) \/ StreamToClient(c) \/ StreamEnds(c))
  \/ net[c] = "quiet" /\ (StreamTimeout(c) \/ BindTimeout(c))

FairSpec == Spec /\ \A c \in Conns : WF_vars(OwnStep(c))

-----------------------------------------------------------------------------
(* Properties *)

\* The variables have their types.
TypeOK ==
  /\ pc \in [Conns -> PCs]
  /\ net \in [Conns -> NetStates]
  /\ hello \in [Conns -> Seq({"noauth", "usrpass", "other"})]
  /\ out \in [Conns -> Seq(Replies)]
  /\ cmd \in [Conns -> Commands]
  /\ fds \in [Conns -> SUBSET Descriptors]
  /\ port \in [Conns -> Nat]
  /\ done \in [Conns -> BOOLEAN]
  /\ mutex \in Conns \union {NoConn}
  /\ port_set \in SUBSET Nat

Sent(c, r) == \E i \in 1 .. Len(out[c]) : out[c][i] = r

\* A client that was told to authenticate has no command carried out before
\* it was told that it did (stage_init, stage_auth and the stages of
\* start_client together).
AuthGate ==
  \A c \in Conns :
    cmd[c] # "none" /\ Sent(c, "usrpass") => Sent(c, "authok")

Negotiations == {<<>>, <<"noauth">>, <<"usrpass">>,
                 <<"usrpass", "authok">>, <<"usrpass", "autherr">>}

\* The status replies a client may have seen, by the command it asked for.
Statuses(k) ==
  CASE k = "none"    -> {<<>>}
    [] k = "udp"     -> {<<>>, <<"ok">>}
    [] k = "connect" -> {<<>>, <<"ok">>, <<"ok", "ttl">>, <<"err">>}
    [] k = "bind"    -> {<<>>, <<"ok">>, <<"ok", "ok">>, <<"ok", "err">>}

\* What a client sees is always a prefix of a dialogue the protocol knows:
\* one method, at most one verdict on its credentials, then the replies its
\* command calls for, each at most once and in order - a CONNECT that was
\* accepted ends with at most one TTL-expired, a failed one with nothing more,
\* a BIND has at most two replies.
Dialogue ==
  \A c \in Conns :
    \E n \in Negotiations, s \in Statuses(cmd[c]) : out[c] = n \o s

\* What the code leaves open by the time it says done: the socket of a failed
\* connect, and everything a BIND opened.
Leaks(k) ==
  CASE k = "connect" -> {"attempt"}
    [] k = "bind"    -> {"attempt", "unbound", "listener", "cd"}
    [] OTHER         -> {}

\* When the worker says done, the client's socket and the target's are closed
\* on every path through start_client, and what is still open is what Leaks
\* names; a CONNECT that reached its target leaves nothing.
Released ==
  \A c \in Conns :
    done[c] => /\ fds[c] \subseteq Leaks(cmd[c])
               /\ cmd[c] = "connect" /\ Sent(c, "ok") => fds[c] = {}

\* A worker that said done touches nothing of its connection any more: the
\* accept loop deletes the thread's arguments when it sees the flag.
DoneIsLast ==
  [][\A c \in Conns :
       done[c] => /\ done'[c]
                  /\ <<pc[c], out[c], fds[c], port[c]>>
                       = <<pc'[c], out'[c], fds'[c], port'[c]>>]_vars

\* The port set and the mutex tell the same story: a port is handed out
\* exactly while one session is between get_port and del_port, that session
\* holds the mutex, and the port is always the first one.
PortSerial ==
  /\ \A c \in Conns :
       BasePort > 0 /\ pc[c] \in Binding => mutex = c /\ port[c] = BasePort
  /\ mutex # NoConn => pc[mutex] \in Binding
  /\ port_set = IF mutex = NoConn THEN {} ELSE {port[mutex]}

\* At most one session ever gets a listening socket: it is not closed after
\* the BIND, and the next BIND is given the same port.
OneListener ==
  \A c, d \in Conns :
    "listener" \in fds[c] /\ "listener" \in fds[d] => c = d

\* Once the client is gone its session ends, in whatever stage it is, when no
\* "remote" is configured and no send to the target lasts for ever.  The
\* condition is the code's: stage_strm_connect sends with no timeout, so a
\* target that lives and does not read keeps a worker without a client.
ClientGoneEnds ==
  \A c \in Conns :
    []<>(pc[c] # "totarget") => ((Serving(c) /\ Gone(c)) ~> done[c])

\* Once nothing arrives any more on either side of a CONNECT, its session
\* ends if it is connecting or in select, whose timeout sees to it.
QuietEnds ==
  \A c \in Conns :
    (pc[c] \in {"connecting", "stream"} /\ cmd[c] = "connect"
       /\ net[c] = "quiet") ~> done[c]

\* A session that holds the port mutex gives it back once nothing arrives any
\* more, unless it is in the middle of a piece.
QuietBindReleases ==
  \A c \in Conns :
    (mutex = c /\ net[c] = "quiet" /\ pc[c] # "relaymid") ~> (mutex # c)

-----------------------------------------------------------------------------
(* The sessions seen as Service *)

LifeOf == [c \in Conns |->
  CASE pc[c] = "idle"     -> "none"
    [] pc[c] \in Closing -> "ending"
    [] pc[c] = "ended"    -> "ended"
    [] OTHER              -> "serving"]

HeldOf == [c \in Conns |->
  {r \in {"args", "socket"} :
     IF r = "args" THEN pc[c] # "idle" ELSE "soc" \in fds[c]}]

Abstract == INSTANCE Service WITH life <- LifeOf, held <- HeldOf

\* Whatever path start_client takes through its stages, to the outside it is
\* one service of one connection: the client's socket stays open until the
\* session is over and is closed before the worker says done.
Serves == Abstract!Spec

-----------------------------------------------------------------------------
(* Claims of the source that the code does not keep *)

\* peer.cpp:349: NOAUTH and USRPASS are supported.  So a client whose
\* credentials were accepted gets to send its request.
AuthedMayRequest ==
  [][\A c \in Conns :
       pc[c] = "auth" /\ Len(out'[c]) = Len(out[c]) + 1
         /\ out'[c][Len(out'[c])] = "authok" => pc'[c] = "requ"]_vars

\* peer.cpp:349: only NOAUTH and USRPASS are supported.  So a client that
\* offers neither is never served.
OnlySupportedMethods ==
  \A c \in Conns :
    cmd[c] # "none" /\ hello[c] # <<>> =>
      \E i \in 1 .. Len(hello[c]) : hello[c][i] \in {"noauth", "usrpass"}

\* peer.cpp:371-374: after the relay the target's connection and the client's
\* are closed and the thread is done.  So a BIND whose relay ended gets there.
BindCloses == \A c \in Conns : pc[c] = "delport" ~> done[c]
=============================================================================
