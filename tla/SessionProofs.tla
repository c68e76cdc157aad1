--------------------------- MODULE SessionProofs ---------------------------
(* Proofs about Session, for every set of connections, every base port, both *)
(* kinds of mutex and every set of frames that clients may send.             *)
EXTENDS Session, SequenceTheorems, FiniteSetTheorems, TLAPS

-----------------------------------------------------------------------------
(* The frame: a step of one connection changes nothing of another *)

\* The steps that connection c takes.
StepOf(c) == Start(c) \/ Worker(c) \/ ClientGoes(c)

\* Every variable of the connections is an array over Conns.
Arrays ==
  /\ pc \in [Conns -> PCs]
  /\ net \in [Conns -> NetStates]
  /\ hello \in [Conns -> Seq({"noauth", "usrpass", "other"})]
  /\ out \in [Conns -> Seq(Replies)]
  /\ cmd \in [Conns -> Commands]
  /\ fds \in [Conns -> SUBSET Descriptors]
  /\ done \in [Conns -> BOOLEAN]

\* A reply keeps the types of the network and of the replies, and reaches
\* nobody but the client it is for (utils::sendall on one socket).
LEMMA ReplyType ==
  ASSUME Arrays, NEW c \in Conns, NEW r \in Replies, NEW ok \in BOOLEAN,
         Reply(c, r, ok)
  PROVE  /\ net' \in [Conns -> NetStates]
         /\ out' \in [Conns -> Seq(Replies)]
         /\ \A d \in Conns \ {c} : net'[d] = net[d] /\ out'[d] = out[d]
<1>1. /\ net' \in [Conns -> NetStates]
      /\ \A d \in Conns \ {c} : net'[d] = net[d]
  BY DEF Arrays, Reply, SendAll, NetStates
<1>2. Append(out[c], r) \in Seq(Replies)
  BY AppendProperties DEF Arrays
<1>3. /\ out' \in [Conns -> Seq(Replies)]
      /\ \A d \in Conns \ {c} : out'[d] = out[d]
  BY <1>2 DEF Arrays, Reply
<1> QED
  BY <1>1, <1>3

\* The method stage_init picks is one of the two it knows.
LEMMA SelectedKnown ==
  ASSUME NEW m
  PROVE  Selected(m) \in {"noauth", "usrpass"}
BY DEF Selected

\* A step of c, port numbers apart, keeps the types and leaves every other
\* connection as it is: the workers share nothing but the ports.
LEMMA Frame ==
  ASSUME Arrays, NEW c \in Conns, StepOf(c)
  PROVE  /\ Arrays'
         /\ \A d \in Conns \ {c} :
              /\ pc'[d] = pc[d] /\ net'[d] = net[d] /\ hello'[d] = hello[d]
              /\ out'[d] = out[d] /\ cmd'[d] = cmd[d] /\ fds'[d] = fds[d]
              /\ done'[d] = done[d]
<1> DEFINE Others ==
  \A d \in Conns \ {c} :
     /\ pc'[d] = pc[d] /\ net'[d] = net[d] /\ hello'[d] = hello[d]
     /\ out'[d] = out[d] /\ cmd'[d] = cmd[d] /\ fds'[d] = fds[d]
     /\ done'[d] = done[d]
<1> SUFFICES Arrays' /\ Others
  OBVIOUS
<1> USE DEF PCs, Streaming, Negotiating, Binding, Closing
<1>0. \A d \in Conns, left \in {{}, {"target"}, {"attempt"}, {"listener"},
                              {"unbound"}, {"cd"}} :
        fds[d] \union left \in SUBSET Descriptors
  BY DEF Descriptors, Arrays
<1>1. CASE Start(c) \/ ClientGoes(c)
  <2>1. CASE Start(c)
    <3>1. {"soc"} \in SUBSET Descriptors
      BY DEF Descriptors
    <3> QED
      BY <2>1, <3>1 DEF Start, Arrays, Goto, sharedVars
  <2>2. CASE ClientGoes(c)
    BY <2>2 DEF ClientGoes, Arrays, NetStates, sessionVars, sharedVars
  <2> QED
    BY <1>1, <2>1, <2>2
<1>2. CASE Negotiate(c)
  <2>1. CASE RecvFails(c)
    BY <2>1 DEF RecvFails, Arrays, Goto, sessionVars, sharedVars
  <2>2. CASE RecvHello(c)
    <3>1. PICK h \in Hellos :
            /\ Goto(c, StageAfterInit(h))
            /\ IF h.kind = "offer"
                 THEN /\ hello' = [hello EXCEPT ![c] = h.methods]
                      /\ ReplyAnyway(c, Selected(h.methods))
                 ELSE UNCHANGED <<net, hello, out>>
      BY <2>2 DEF RecvHello
    <3>2. /\ h.methods \in Seq({"noauth", "usrpass", "other"})
          /\ h.kind \in {"short", "badver", "offer"}
      BY HelloAssumption DEF HelloType
    <3>3. StageAfterInit(h) \in PCs
      BY <3>2 DEF StageAfterInit
    <3>4. /\ pc' \in [Conns -> PCs]
          /\ \A d \in Conns \ {c} : pc'[d] = pc[d]
      BY <3>1, <3>3 DEF Arrays, Goto
    <3>5. /\ net' \in [Conns -> NetStates]
          /\ out' \in [Conns -> Seq(Replies)]
          /\ hello' \in [Conns -> Seq({"noauth", "usrpass", "other"})]
          /\ \A d \in Conns \ {c} :
               net'[d] = net[d] /\ out'[d] = out[d] /\ hello'[d] = hello[d]
      <4>1. CASE h.kind = "offer"
        <5>1. Selected(h.methods) \in Replies
          BY SelectedKnown DEF Replies
        <5>2. PICK ok \in BOOLEAN : Reply(c, Selected(h.methods), ok)
          BY <3>1, <4>1 DEF ReplyAnyway
        <5>3. /\ net' \in [Conns -> NetStates]
              /\ out' \in [Conns -> Seq(Replies)]
              /\ \A d \in Conns \ {c} : net'[d] = net[d] /\ out'[d] = out[d]
          BY <5>1, <5>2, ReplyType
        <5>4. /\ hello' \in [Conns -> Seq({"noauth", "usrpass", "other"})]
              /\ \A d \in Conns \ {c} : hello'[d] = hello[d]
          BY <3>1, <3>2, <4>1 DEF Arrays
        <5> QED
          BY <5>3, <5>4
      <4>2. CASE h.kind # "offer"
        BY <3>1, <4>2 DEF Arrays
      <4> QED
        BY <4>1, <4>2
    <3> QED
      BY <2>2, <3>4, <3>5 DEF RecvHello, Arrays
  <2>3. CASE RecvAuth(c)
    <3>1. PICK a \in AuthFrames :
            /\ Goto(c, StageAfterAuth(a))
            /\ IF a = "malformed"
                 THEN UNCHANGED <<net, out>>
                 ELSE ReplyAnyway(c, IF a = "good" THEN "authok" ELSE "autherr")
      BY <2>3 DEF RecvAuth
    <3>2. /\ pc' \in [Conns -> PCs]
          /\ \A d \in Conns \ {c} : pc'[d] = pc[d]
      BY <3>1 DEF Arrays, Goto, StageAfterAuth
    <3>3. /\ net' \in [Conns -> NetStates]
          /\ out' \in [Conns -> Seq(Replies)]
          /\ \A d \in Conns \ {c} : net'[d] = net[d] /\ out'[d] = out[d]
      BY <3>1, ReplyType DEF ReplyAnyway, Replies, Arrays
    <3> QED
      BY <2>3, <3>2, <3>3 DEF RecvAuth, Arrays
  <2>4. CASE RecvRequest(c)
    <3>1. PICK r \in Requests :
            CASE r = "malformed" ->
                   /\ Goto(c, "closetarget")
                   /\ UNCHANGED <<net, out, cmd>>
              [] r = "udp" ->
                   /\ Goto(c, "closetarget")
                   /\ cmd' = [cmd EXCEPT ![c] = "udp"]
                   /\ ReplyAnyway(c, "ok")
              [] r \in {"connect", "bind"} ->
                   /\ Goto(c, "connecting")
                   /\ cmd' = [cmd EXCEPT ![c] = r]
                   /\ UNCHANGED <<net, out>>
      BY <2>4 DEF RecvRequest
    <3>2. r \in {"malformed", "udp", "connect", "bind"}
      BY RequestAssumption
    <3>3. /\ pc' \in [Conns -> PCs]
          /\ cmd' \in [Conns -> Commands]
          /\ \A d \in Conns \ {c} : pc'[d] = pc[d] /\ cmd'[d] = cmd[d]
      BY <3>1, <3>2 DEF Arrays, Goto, Commands
    <3>4. /\ net' \in [Conns -> NetStates]
          /\ out' \in [Conns -> Seq(Replies)]
          /\ \A d \in Conns \ {c} : net'[d] = net[d] /\ out'[d] = out[d]
      BY <3>1, <3>2, ReplyType DEF ReplyAnyway, Replies, Arrays
    <3> QED
      BY <2>4, <3>3, <3>4 DEF RecvRequest, Arrays
  <2>5. CASE ConnectOk(c) \/ ConnectFails(c)
    <3>1. /\ net' \in [Conns -> NetStates]
          /\ out' \in [Conns -> Seq(Replies)]
          /\ \A d \in Conns \ {c} : net'[d] = net[d] /\ out'[d] = out[d]
      BY <2>5, ReplyType
         DEF ConnectOk, ConnectFails, LeftByConnect, ReplyAnyway, Replies, Arrays
    <3>2. /\ pc' \in [Conns -> PCs]
          /\ fds' \in [Conns -> SUBSET Descriptors]
          /\ \A d \in Conns \ {c} : pc'[d] = pc[d] /\ fds'[d] = fds[d]
      <4>1. CASE ConnectOk(c)
        BY <1>0, <4>1 DEF ConnectOk, Arrays, Goto
      <4>2. CASE ConnectFails(c)
        BY <1>0, <4>2 DEF ConnectFails, LeftByConnect, Arrays, Goto
      <4> QED
        BY <2>5, <4>1, <4>2
    <3> QED
      BY <2>5, <3>1, <3>2 DEF ConnectOk, ConnectFails, LeftByConnect, Arrays
  <2> QED
    BY <1>2, <2>1, <2>2, <2>3, <2>4, <2>5 DEF Negotiate
<1>3. CASE Stream(c)
  <2>1. CASE StreamTimeout(c)
    <3>1. /\ net' \in [Conns -> NetStates]
          /\ out' \in [Conns -> Seq(Replies)]
          /\ \A d \in Conns \ {c} : net'[d] = net[d] /\ out'[d] = out[d]
      BY <2>1, ReplyType DEF StreamTimeout, ReplyAnyway, Replies, Arrays
    <3> QED
      BY <2>1, <3>1 DEF StreamTimeout, Arrays, Goto
  <2>2. CASE StreamFromTarget(c)
    BY <2>2 DEF StreamFromTarget, Arrays, Goto, sessionVars, sharedVars
  <2>4. CASE StreamToClient(c)
    BY <2>4 DEF StreamToClient, SendAll, NetStates, Arrays, Goto,
                sessionVars, sharedVars
  <2>3. CASE \/ StreamEnds(c) \/ StreamHeader(c) \/ StreamBody(c)
             \/ StreamBodyFails(c) \/ StreamToTarget(c)
    BY <2>3 DEF StreamEnds, StreamHeader, StreamBody, StreamBodyFails, StreamToTarget,
                Arrays, Goto, sessionVars, sharedVars
  <2> QED
    BY <1>3, <2>1, <2>2, <2>3, <2>4 DEF Stream
<1>4. CASE Bind(c)
  <2>1. CASE GetPort(c) \/ DelPort(c)
    BY <2>1 DEF GetPort, DelPort, Arrays, Goto, sessionVars
  <2>2. CASE BindTimeout(c) \/ BindRelay(c) \/ BindRelayBody(c)
    BY <1>0, <2>2 DEF BindTimeout, BindRelay, BindRelayBody,
                      Arrays, Goto, sessionVars, sharedVars
  <2>3. CASE SetupFails(c)
    <3>1. \A left \in LeftBySetup : left \in SUBSET Descriptors
      BY DEF LeftBySetup, Descriptors
    <3> QED
      BY <1>0, <2>3, <3>1 DEF SetupFails, Arrays, Goto, sharedVars
  <2>4. CASE SetupOk(c) \/ BindAccept(c)
    <3>1. /\ net' \in [Conns -> NetStates]
          /\ out' \in [Conns -> Seq(Replies)]
          /\ \A d \in Conns \ {c} : net'[d] = net[d] /\ out'[d] = out[d]
      BY <2>4, ReplyType DEF SetupOk, BindAccept, ReplyAnyway, Replies, Arrays
    <3>2. /\ pc' \in [Conns -> PCs]
          /\ fds' \in [Conns -> SUBSET Descriptors]
          /\ \A d \in Conns \ {c} : pc'[d] = pc[d] /\ fds'[d] = fds[d]
      BY <1>0, <2>4 DEF SetupOk, BindAccept, Arrays, Goto
    <3> QED
      BY <2>4, <3>1, <3>2 DEF SetupOk, BindAccept, Arrays
  <2> QED
    BY <1>4, <2>1, <2>2, <2>3, <2>4 DEF Bind
<1>5. CASE Finish(c)
  BY <1>5 DEF Finish, CloseTarget, CloseSoc, SetDone, Arrays, Goto
<1> QED
  BY <1>1, <1>2, <1>3, <1>4, <1>5 DEF StepOf, Worker

-----------------------------------------------------------------------------
(* The ports of BIND *)

\* A session with a listening socket has been given the first port, and
\* never sets another one up.
Listens(c) ==
  "listener" \in fds[c] =>
    /\ BasePort > 0 /\ port[c] = BasePort
    /\ pc[c] \in ((Binding \ {"setup"}) \union Closing) \union {"ended"}

\* The inductive invariant for the ports.
PortInv ==
  /\ TypeOK
  /\ PortSerial
  /\ \A c \in Conns : Listens(c)
  /\ OneListener

\* With no port handed out, the first free port is the first port.
LEMMA FirstFree ==
  ASSUME port_set = {}
  PROVE  FreePort = BasePort
<1>1. Cardinality({}) = 0
  BY FS_EmptySet
<1>2. BasePort .. BasePort + Cardinality(port_set) = {BasePort}
  BY <1>1, BasePortAssumption
<1>3. \A q \in BasePort .. BasePort - 1 : FALSE
  BY BasePortAssumption
<1> QED
  BY <1>2, <1>3 DEF FreePort

\* get_port and del_port are the only steps that touch the ports, and the
\* only ones that enter or leave the section between them; every other step
\* opens no listening socket, except the setup of a session that is in it.
LEMMA PortFrame ==
  ASSUME PortInv, NEW c \in Conns, StepOf(c), ~GetPort(c), ~DelPort(c)
  PROVE  /\ UNCHANGED <<port, mutex, port_set>>
         /\ pc'[c] \in Binding <=> pc[c] \in Binding
         /\ "listener" \in fds'[c] =>
              \/ "listener" \in fds[c] /\ (pc'[c] = "setup" => pc[c] = "setup")
                   /\ (pc[c] \in Closing => pc'[c] \in Closing \union {"ended"})
                   /\ (pc[c] = "ended" => pc'[c] = "ended")
              \/ /\ pc[c] = "setup" /\ pc'[c] \in {"await", "delport"}
                 /\ ~PortTaken(c) /\ BasePort > 0
<1> USE DEF PortInv, TypeOK, Binding, Closing
<1>1. CASE Start(c) \/ ClientGoes(c)
  BY <1>1 DEF Start, ClientGoes, Goto, sessionVars, sharedVars
<1>2. CASE Negotiate(c)
  <2>1. CASE RecvFails(c)
    BY <2>1 DEF RecvFails, Goto, Negotiating, sessionVars, sharedVars
  <2>2. CASE RecvHello(c)
    <3>1. \A h \in Hellos :
            StageAfterInit(h) \in {"closetarget", "requ", "auth"}
      BY HelloAssumption DEF HelloType, StageAfterInit
    <3> QED
      BY <2>2, <3>1 DEF RecvHello, Goto, sharedVars
  <2>3. CASE RecvAuth(c)
    BY <2>3 DEF RecvAuth, StageAfterAuth, Goto, sharedVars
  <2>4. CASE RecvRequest(c)
    <3>1. pc'[c] \in {"closetarget", "connecting"}
      BY <2>4, RequestAssumption DEF RecvRequest, Goto
    <3> QED
      BY <2>4, <3>1 DEF RecvRequest, sharedVars
  <2>5. CASE ConnectOk(c) \/ ConnectFails(c)
    BY <2>5 DEF ConnectOk, ConnectFails, LeftByConnect, Goto, sharedVars
  <2> QED
    BY <1>2, <2>1, <2>2, <2>3, <2>4, <2>5 DEF Negotiate
<1>3. CASE Stream(c)
  BY <1>3 DEF Stream, StreamTimeout, StreamFromTarget, StreamEnds,
              StreamHeader, StreamBody, StreamBodyFails, StreamToClient,
              StreamToTarget, Goto, sessionVars,
              sharedVars
<1>4. CASE Bind(c)
  <2>1. CASE SetupOk(c)
    BY <2>1 DEF SetupOk, Goto, sharedVars
  <2>2. CASE SetupFails(c)
    BY <2>2 DEF SetupFails, LeftBySetup, Goto, sharedVars
  <2>3. CASE BindAccept(c)
    BY <2>3 DEF BindAccept, Goto, sharedVars
  <2>4. CASE BindTimeout(c) \/ BindRelay(c) \/ BindRelayBody(c)
    BY <2>4 DEF BindTimeout, BindRelay, BindRelayBody, Goto, sessionVars,
                sharedVars
  <2> QED
    BY <1>4, <2>1, <2>2, <2>3, <2>4 DEF Bind
<1>5. CASE Finish(c)
  BY <1>5 DEF Finish, CloseTarget, CloseSoc, SetDone, Goto, sharedVars
<1> QED
  BY <1>1, <1>2, <1>3, <1>4, <1>5 DEF StepOf, Worker

\* Every step keeps the invariant of the ports.
LEMMA PortStep ==
  ASSUME PortInv, [Next]_vars
  PROVE  PortInv'
<1>1. CASE UNCHANGED vars
  BY <1>1 DEF PortInv, TypeOK, PortSerial, Listens, OneListener, vars,
              sessionVars, sharedVars
<1>2. ASSUME NEW c \in Conns, StepOf(c)
      PROVE  PortInv'
  <2>0. Arrays
    BY DEF PortInv, TypeOK, Arrays
  <2>1. /\ Arrays'
        /\ \A d \in Conns \ {c} : pc'[d] = pc[d] /\ fds'[d] = fds[d]
    BY <1>2, <2>0, Frame
  <2>2. CASE ~GetPort(c) /\ ~DelPort(c)
    <3>1. /\ UNCHANGED <<port, mutex, port_set>>
          /\ pc'[c] \in Binding <=> pc[c] \in Binding
      BY <1>2, <2>2, PortFrame
    <3>2. "listener" \in fds'[c] =>
             \/ "listener" \in fds[c] /\ (pc'[c] = "setup" => pc[c] = "setup")
                  /\ (pc[c] \in Closing => pc'[c] \in Closing \union {"ended"})
                  /\ (pc[c] = "ended" => pc'[c] = "ended")
             \/ /\ pc[c] = "setup" /\ pc'[c] \in {"await", "delport"}
                /\ ~PortTaken(c) /\ BasePort > 0
      BY <1>2, <2>2, PortFrame
    <3>3. TypeOK'
      BY <2>1, <3>1 DEF PortInv, TypeOK, Arrays
    <3>4. PortSerial'
      BY <2>1, <3>1, NoConnAssumption DEF PortInv, TypeOK, PortSerial
    <3>5. ASSUME NEW d \in Conns  PROVE Listens(d)'
      <4>1. CASE d # c
        BY <2>1, <3>1, <4>1 DEF PortInv, Listens
      <4>2. CASE d = c
        BY <3>1, <3>2, <4>2
           DEF PortInv, Listens, PortSerial, Binding, Closing
      <4> QED
        BY <4>1, <4>2
    <3>6. ASSUME NEW d \in Conns, d # c, "listener" \in fds'[c],
                 "listener" \in fds'[d]
          PROVE  FALSE
      <4>1. "listener" \in fds[d] /\ port[d] = BasePort
        BY <2>1, <3>6 DEF PortInv, Listens
      <4>2. CASE "listener" \in fds[c]
        BY <3>6, <4>1, <4>2 DEF PortInv, OneListener
      <4>3. CASE pc[c] = "setup" /\ ~PortTaken(c) /\ BasePort > 0
        <5>1. port[c] = BasePort
          BY <4>3 DEF PortInv, PortSerial, Binding
        <5> QED
          BY <3>6, <4>1, <4>3, <5>1 DEF PortTaken
      <4> QED
        BY <3>2, <3>6, <4>2, <4>3
    <3>7. OneListener'
      <4> SUFFICES ASSUME NEW a \in Conns, NEW b \in Conns, a # b,
                          "listener" \in fds'[a], "listener" \in fds'[b]
                   PROVE  FALSE
        BY DEF OneListener
      <4>1. CASE a = c \/ b = c
        BY <3>6, <4>1
      <4>2. CASE a # c /\ b # c
        BY <2>1, <4>2 DEF PortInv, OneListener
      <4> QED
        BY <4>1, <4>2
    <3> QED
      BY <3>3, <3>4, <3>5, <3>7 DEF PortInv
  <2>3. CASE GetPort(c)
    <3>1. /\ pc[c] = "getport" /\ pc'[c] = "setup" /\ fds' = fds
          /\ LockReturns(c)
      BY <2>3 DEF GetPort, Goto, PortInv, TypeOK
    <3>2. mutex = NoConn /\ port_set = {}
      BY <3>1 DEF LockReturns, PortInv, PortSerial, Binding
    <3>3. ~("listener" \in fds[c])
      BY <3>1 DEF PortInv, Listens, Binding, Closing
    <3>4. CASE BasePort > 0
      <4>1. /\ port' = [port EXCEPT ![c] = BasePort]
            /\ port_set' = {BasePort} /\ mutex' = c
        BY <2>3, <3>2, <3>4, FirstFree DEF GetPort
      <4>2. TypeOK'
        BY <2>1, <4>1, BasePortAssumption DEF PortInv, TypeOK, Arrays
      <4>3. PortSerial'
        BY <2>1, <3>1, <3>2, <3>4, <4>1, NoConnAssumption
           DEF PortInv, TypeOK, PortSerial, Binding
      <4>4. \A d \in Conns : Listens(d)'
        BY <2>1, <3>1, <3>3, <4>1 DEF PortInv, TypeOK, Listens
      <4> QED
        BY <3>1, <4>2, <4>3, <4>4 DEF PortInv, OneListener
    <3>5. CASE ~(BasePort > 0)
      <4>1. UNCHANGED <<port, mutex, port_set>>
        BY <2>3, <3>5 DEF GetPort, sharedVars
      <4>2. TypeOK'
        BY <2>1, <4>1 DEF PortInv, TypeOK, Arrays
      <4>3. PortSerial'
        BY <3>2, <3>5, <4>1 DEF PortInv, PortSerial
      <4>4. \A d \in Conns : Listens(d)'
        BY <2>1, <3>1, <3>3, <4>1 DEF PortInv, Listens
      <4> QED
        BY <3>1, <4>2, <4>3, <4>4 DEF PortInv, OneListener
    <3> QED
      BY <3>4, <3>5
  <2>4. CASE DelPort(c)
    <3>1. /\ pc[c] = "delport" /\ pc'[c] = "closetarget"
          /\ fds' = fds /\ port' = port
          /\ mutex' = NoConn /\ port_set' = port_set \ {port[c]}
          /\ LockReturns(c)
      BY <2>4 DEF DelPort, Goto, PortInv, TypeOK, sessionVars
    <3>2. port_set' = {}
      BY <3>1 DEF LockReturns, PortInv, PortSerial
    <3>3. \A d \in Conns \ {c} : BasePort > 0 => pc[d] \notin Binding
      BY <3>1, NoConnAssumption DEF LockReturns, PortInv, PortSerial, Binding
    <3>4. TypeOK'
      BY <2>1, <3>1, <3>2 DEF PortInv, TypeOK, Arrays
    <3>5. PortSerial'
      BY <2>1, <3>1, <3>2, <3>3 DEF PortSerial, Binding
    <3>6. \A d \in Conns : Listens(d)'
      BY <2>1, <3>1 DEF PortInv, Listens, Binding, Closing
    <3> QED
      BY <3>1, <3>4, <3>5, <3>6 DEF PortInv, OneListener
  <2> QED
    BY <2>2, <2>3, <2>4
<1> QED
  BY <1>1, <1>2 DEF Next, StepOf

\* The ports start free, with nobody in the section.
LEMMA PortInit ==
  ASSUME Init
  PROVE  PortInv
<1>1. TypeOK
  BY BasePortAssumption
     DEF Init, TypeOK, PCs, NetStates, Commands
<1>2. PortSerial
  BY DEF Init, PortSerial, Binding
<1>3. OneListener /\ \A c \in Conns : Listens(c)
  BY DEF Init, OneListener, Listens
<1> QED
  BY <1>1, <1>2, <1>3 DEF PortInv

\* The invariant of the ports holds throughout.
THEOREM PortsInvariant == Spec => []PortInv
<1>1. Init => PortInv
  BY PortInit
<1>2. PortInv /\ [Next]_vars => PortInv'
  BY PortStep
<1> QED
  BY <1>1, <1>2, PTL DEF Spec

\* The variables of the sessions have their types.
THEOREM SessionTypes == Spec => []TypeOK
<1>1. PortInv => TypeOK
  BY DEF PortInv
<1> QED
  BY <1>1, PortsInvariant, PTL

\* get_port, del_port: a port is handed out exactly while its session holds
\* the mutex, and it is always the first one (peer.cpp:753-776).
THEOREM PortsSerialized == Spec => []PortSerial
<1>1. PortInv => PortSerial
  BY DEF PortInv
<1> QED
  BY <1>1, PortsInvariant, PTL

\* stage_strm_bind: over its whole life the server has at most one listening
\* socket for BIND, whatever number of clients ask for one.
THEOREM OneListenerEver == Spec => []OneListener
<1>1. PortInv => OneListener
  BY DEF PortInv
<1> QED
  BY <1>1, PortsInvariant, PTL
=============================================================================
