-------------------------- MODULE DialogueProofs --------------------------
(* Proofs about one session of Session at a time: what it still holds when   *)
(* it says done, what its client has been told by then, and the gate that    *)
(* the authentication is.                                                    *)
EXTENDS SessionProofs

-----------------------------------------------------------------------------
(* The course of a session: stage, command and descriptors agree *)

Course(c) ==
  /\ done[c] <=> pc[c] = "ended"
  /\ pc[c] \in Negotiating \union {"idle"} => cmd[c] = "none"
  /\ pc[c] = "connecting" => cmd[c] \in {"connect", "bind"}
  /\ pc[c] \in Streaming => cmd[c] = "connect"
  /\ pc[c] \in Binding \union {"getport"} => cmd[c] = "bind"
  /\ fds[c] \ {"soc", "target"} \subseteq Leaks(cmd[c])
  /\ "attempt" \in fds[c] => pc[c] \in Closing \union {"ended"}
  /\ pc[c] \in {"closesoc", "setdone", "ended"} => "target" \notin fds[c]
  /\ pc[c] \in {"setdone", "ended"} => "soc" \notin fds[c]
  /\ pc[c] \in Negotiating \union {"connecting"} => fds[c] \subseteq {"soc"}

\* Every step of a session keeps its course.
LEMMA CourseStep ==
  ASSUME Arrays, NEW c \in Conns, Course(c), StepOf(c)
  PROVE  Course(c)'
<1> USE DEF Negotiating, Streaming, Binding, Closing, PCs
<1>1. CASE Start(c) \/ ClientGoes(c)
  <2>1. CASE Start(c)
    BY <2>1 DEF Start, Goto, Course, Arrays, sharedVars
  <2>2. CASE ClientGoes(c)
    BY <2>2 DEF ClientGoes, Course, sessionVars, sharedVars
  <2> QED
    BY <1>1, <2>1, <2>2
<1>2. CASE Negotiate(c)
  <2>1. CASE RecvFails(c)
    BY <2>1 DEF RecvFails, Goto, Course, Arrays, sessionVars
  <2>2. CASE RecvHello(c)
    <3>1. \A h \in Hellos :
            StageAfterInit(h) \in {"closetarget", "requ", "auth"}
      BY HelloAssumption DEF HelloType, StageAfterInit
    <3>2. /\ pc[c] = "init" /\ pc'[c] \in {"closetarget", "requ", "auth"}
          /\ UNCHANGED <<cmd, fds, done>>
      BY <2>2, <3>1 DEF RecvHello, Goto, Arrays
    <3> QED
      BY <3>2 DEF Course
  <2>3. CASE RecvAuth(c)
    <3>1. /\ pc[c] = "auth" /\ pc'[c] = "closetarget"
          /\ UNCHANGED <<cmd, fds, done>>
      BY <2>3 DEF RecvAuth, StageAfterAuth, Goto, Arrays
    <3> QED
      BY <3>1 DEF Course
  <2>4. CASE RecvRequest(c)
    <3>1. /\ pc[c] = "requ"
          /\ \/ pc'[c] = "closetarget" /\ cmd'[c] \in {cmd[c], "udp"}
             \/ pc'[c] = "connecting" /\ cmd'[c] \in {"connect", "bind"}
          /\ UNCHANGED <<fds, done>>
      BY <2>4, RequestAssumption DEF RecvRequest, Goto, Arrays
    <3> QED
      BY <3>1 DEF Course
  <2>5. CASE ConnectOk(c)
    <3>1. /\ pc[c] = "connecting" /\ UNCHANGED <<cmd, done>>
          /\ fds'[c] = fds[c] \union {"target"}
          /\ pc'[c] = IF cmd[c] = "connect" THEN "stream" ELSE "getport"
      BY <2>5 DEF ConnectOk, Goto, Arrays
    <3> QED
      BY <3>1 DEF Course
  <2>6. CASE ConnectFails(c)
    <3>1. /\ pc[c] = "connecting" /\ UNCHANGED <<cmd, done>>
          /\ fds'[c] \ {"attempt"} = fds[c] \ {"attempt"}
          /\ pc'[c] = "closetarget"
      BY <2>6 DEF ConnectFails, LeftByConnect, Goto, Arrays
    <3>2. "attempt" \in Leaks(cmd[c])
      BY <3>1 DEF Course, Leaks
    <3> QED
      BY <3>1, <3>2 DEF Course
  <2> QED
    BY <1>2, <2>1, <2>2, <2>3, <2>4, <2>5, <2>6 DEF Negotiate
<1>3. CASE Stream(c)
  <2>1. /\ pc[c] \in Streaming
        /\ pc'[c] \in Streaming \union {"closetarget"}
        /\ UNCHANGED <<cmd, fds, done>>
    BY <1>3 DEF Stream, StreamTimeout, StreamFromTarget, StreamEnds,
                StreamHeader, StreamBody, StreamBodyFails, StreamToClient,
              StreamToTarget, Goto, sessionVars,
                Arrays
  <2> QED
    BY <2>1 DEF Course
<1>4. CASE Bind(c)
  <2>1. CASE SetupOk(c) \/ SetupFails(c) \/ BindAccept(c)
    <3>1. /\ pc[c] \in Binding /\ pc'[c] \in Binding /\ UNCHANGED <<cmd, done>>
          /\ fds'[c] \ {"listener", "unbound", "cd"}
               = fds[c] \ {"listener", "unbound", "cd"}
      BY <2>1 DEF SetupOk, SetupFails, LeftBySetup, BindAccept, Goto, Arrays
    <3>2. {"listener", "unbound", "cd"} \subseteq Leaks(cmd[c])
      BY <3>1 DEF Course, Leaks
    <3> QED
      BY <3>1, <3>2 DEF Course
  <2>2. CASE \/ GetPort(c) \/ BindTimeout(c) \/ BindRelay(c)
             \/ BindRelayBody(c) \/ DelPort(c)
    <3>1. /\ pc[c] \in Binding \union {"getport"}
          /\ pc'[c] \in Binding \union {"closetarget"}
          /\ UNCHANGED <<cmd, fds, done>>
      BY <2>2 DEF GetPort, BindTimeout, BindRelay, BindRelayBody, DelPort,
                  Goto, sessionVars, Arrays
    <3> QED
      BY <3>1 DEF Course
  <2> QED
    BY <1>4, <2>1, <2>2 DEF Bind
<1>5. CASE Finish(c)
  <2>1. CASE CloseTarget(c)
    BY <2>1 DEF CloseTarget, Goto, Arrays, Course
  <2>2. CASE CloseSoc(c)
    BY <2>2 DEF CloseSoc, Goto, Arrays, Course
  <2>3. CASE SetDone(c)
    BY <2>3 DEF SetDone, Goto, Arrays, Course
  <2> QED
    BY <1>5, <2>1, <2>2, <2>3 DEF Finish
<1> QED
  BY <1>1, <1>2, <1>3, <1>4, <1>5 DEF StepOf, Worker

-----------------------------------------------------------------------------
(* What the client was told, by where its worker is *)

Chosen == {<<>>, <<"noauth">>}

\* The replies of the negotiation that c may have had; a client that is gone
\* may have missed the last one.
Greetings(c) ==
  IF pc[c] \in {"idle", "init"} THEN {<<>>}
  ELSE IF pc[c] = "auth"
    THEN {<<"usrpass">>} \union (IF Gone(c) THEN {<<>>} ELSE {})
  ELSE IF pc[c] = "requ" \/ cmd[c] # "none" THEN Chosen
  ELSE Negotiations

\* The status replies that c may have had.
Answers(c) ==
  IF pc[c] \in {"idle", "init", "auth", "requ", "connecting", "getport",
                "setup"} THEN {<<>>}
  ELSE IF pc[c] \in Streaming \union {"await"}
    THEN {<<"ok">>} \union (IF Gone(c) THEN {<<>>} ELSE {})
  ELSE IF "attempt" \in fds[c] /\ cmd[c] = "connect" THEN {<<>>, <<"err">>}
  ELSE Statuses(cmd[c])

Told(c) == \E n \in Greetings(c), s \in Answers(c) : out[c] = n \o s

\* A reply reaches a client that is there and changes nothing for one that is
\* gone, which stays gone (utils::sendall).
LEMMA ReplyTold ==
  ASSUME Arrays, NEW c \in Conns, NEW r \in Replies, ReplyAnyway(c, r)
  PROVE  \/ Gone(c) /\ Gone(c)' /\ out'[c] = out[c]
         \/ ~Gone(c) /\ out'[c] = Append(out[c], r)
BY DEF Arrays, ReplyAnyway, Reply, SendAll, Gone, NetStates

\* A reply after a reply.
LEMMA Pair ==
  ASSUME NEW a \in Replies, NEW r \in Replies
  PROVE  Append(<<a>>, r) = <<a, r>>
<1>1. <<a>> \in Seq(Replies) /\ Len(<<a>>) = 1 /\ <<a>>[1] = a
  OBVIOUS
<1>2. /\ <<a, r>> \in Seq(Replies) /\ Len(<<a, r>>) = 2
      /\ <<a, r>>[1] = a /\ <<a, r>>[2] = r
  OBVIOUS
<1>3. /\ Append(<<a>>, r) \in Seq(Replies) /\ Len(Append(<<a>>, r)) = 2
      /\ Append(<<a>>, r)[1] = a /\ Append(<<a>>, r)[2] = r
  BY <1>1, AppendProperties
<1>4. \A i \in 1 .. 2 : Append(<<a>>, r)[i] = <<a, r>>[i]
  BY <1>2, <1>3
<1> QED
  BY <1>2, <1>3, <1>4, SeqEqual

\* The tuples of the dialogue, joined.
LEMMA Joined ==
  ASSUME NEW r \in Replies
  PROVE  /\ Append(<<>> \o <<>>, r) = <<r>> \o <<>>
         /\ \A n \in Chosen : Append(n \o <<>>, r) = n \o <<r>>
         /\ \A n \in Chosen : Append(n \o <<"ok">>, r) = n \o <<"ok", r>>
         /\ Append(<<"usrpass">> \o <<>>, r) = <<"usrpass", r>> \o <<>>
         /\ Append(<<>> \o <<>>, r) = <<>> \o <<r>>
<1>1. /\ <<>> \in Seq(Replies) /\ <<"noauth">> \in Seq(Replies)
      /\ <<"usrpass">> \in Seq(Replies) /\ <<"ok">> \in Seq(Replies)
      /\ <<r>> \in Seq(Replies)
  BY DEF Replies
<1>2. ASSUME NEW n \in Seq(Replies), NEW s \in Seq(Replies)
      PROVE  Append(n \o s, r) = n \o Append(s, r)
  <2>1. n \o s \in Seq(Replies)
    BY ConcatProperties
  <2>2. Append(n \o s, r) = (n \o s) \o <<r>> /\ Append(s, r) = s \o <<r>>
    BY <2>1, AppendIsConcat
  <2> QED
    BY <1>1, <2>2, ConcatAssociative
<1>3. /\ Append(<<>>, r) = <<r>> /\ Append(<<"ok">>, r) = <<"ok", r>>
      /\ Append(<<"usrpass">>, r) = <<"usrpass", r>>
  BY Pair DEF Replies
<1>4. <<r>> \in Seq(Replies) /\ <<"usrpass", r>> \in Seq(Replies)
  BY DEF Replies
<1>5. \A n \in Seq(Replies) : n \o <<>> = n /\ <<>> \o n = n
  BY ConcatEmptySeq
<1>6. Chosen \subseteq Seq(Replies)
  BY <1>1 DEF Chosen
<1>7. \A n \in Chosen : /\ Append(n \o <<>>, r) = n \o <<r>>
                        /\ Append(n \o <<"ok">>, r) = n \o <<"ok", r>>
  BY <1>1, <1>2, <1>3, <1>6
<1>8. /\ Append(<<>> \o <<>>, r) = <<>> \o <<r>>
      /\ Append(<<>> \o <<>>, r) = <<r>> \o <<>>
  BY <1>1, <1>2, <1>3, <1>4, <1>5
<1>9. Append(<<"usrpass">> \o <<>>, r) = <<"usrpass", r>> \o <<>>
  BY <1>1, <1>3, <1>4, <1>5
<1> QED
  BY <1>7, <1>8, <1>9

\* Every step of a session keeps what its client was told in order.
LEMMA ToldStep ==
  ASSUME Arrays, NEW c \in Conns, Course(c), Told(c), StepOf(c)
  PROVE  Told(c)'
<1> USE DEF Negotiating, Streaming, Binding, Closing
<1>0. PICK n \in Greetings(c), s \in Answers(c) : out[c] = n \o s
  BY DEF Told
<1>1. CASE Start(c) \/ ClientGoes(c)
  <2>1. CASE Start(c)
    <3>1. /\ pc[c] = "idle" /\ pc'[c] = "init" /\ out' = out
      BY <2>1 DEF Start, Goto, Arrays
    <3>2. Greetings(c) = {<<>>} /\ Answers(c) = {<<>>}
      BY <3>1 DEF Greetings, Answers
    <3>3. Greetings(c)' = {<<>>} /\ Answers(c)' = {<<>>}
      BY <3>1 DEF Greetings, Answers
    <3> QED
      BY <1>0, <3>1, <3>2, <3>3 DEF Told
  <2>2. CASE ClientGoes(c)
    <3>1. /\ UNCHANGED <<pc, out, cmd, fds>>
          /\ ~Gone(c)
      BY <2>2 DEF ClientGoes, Gone, sessionVars
    <3>2. Greetings(c) \subseteq Greetings(c)' /\ Answers(c) \subseteq Answers(c)'
      BY <3>1 DEF Greetings, Answers
    <3> QED
      BY <1>0, <3>1, <3>2 DEF Told
  <2> QED
    BY <1>1, <2>1, <2>2
<1>2. CASE Negotiate(c)
  <2>1. CASE RecvFails(c)
    <3>1. /\ pc[c] \in Negotiating /\ pc'[c] = "closetarget" /\ cmd[c] = "none"
          /\ UNCHANGED <<out, cmd, fds>>
      BY <2>1 DEF RecvFails, Goto, Arrays, Course, sessionVars
    <3>2. n \in Negotiations /\ s = <<>>
      BY <1>0, <3>1 DEF Greetings, Answers, Negotiations, Chosen
    <3> QED
      BY <1>0, <3>1, <3>2 DEF Told, Greetings, Answers, Statuses
  <2>2. CASE RecvHello(c)
    <3>0. pc[c] = "init" /\ ~Gone(c) /\ cmd[c] = "none" /\ UNCHANGED <<cmd, fds>>
          /\ out[c] = <<>> \o <<>>
      BY <1>0, <2>2 DEF RecvHello, Gone, Course, Greetings, Answers
    <3>1. PICK h \in Hellos :
            /\ Goto(c, StageAfterInit(h))
            /\ IF h.kind = "offer"
                 THEN /\ hello' = [hello EXCEPT ![c] = h.methods]
                      /\ ReplyAnyway(c, Selected(h.methods))
                 ELSE UNCHANGED <<net, hello, out>>
      BY <2>2 DEF RecvHello
    <3>2. h.kind \in {"short", "badver", "offer"}
      BY HelloAssumption DEF HelloType
    <3>3. CASE h.kind = "offer"
      <4>1. /\ pc'[c] = IF Selected(h.methods) = "noauth" THEN "requ" ELSE "auth"
            /\ Selected(h.methods) \in {"noauth", "usrpass"}
        BY <3>1, <3>3, SelectedKnown DEF StageAfterInit, Goto, Arrays
      <4>2. out'[c] = <<Selected(h.methods)>> \o <<>>
        <5>1. Selected(h.methods) \in Replies
          BY <4>1 DEF Replies
        <5>2. out'[c] = Append(out[c], Selected(h.methods))
          BY <3>0, <3>1, <3>3, <5>1, ReplyTold
        <5> QED
          BY <3>0, <5>1, <5>2, Joined
      <4> QED
        BY <3>0, <4>1, <4>2 DEF Told, Greetings, Answers, Chosen
    <3>4. CASE h.kind # "offer"
      <4>1. pc'[c] \in {"closetarget", "requ"} /\ out' = out
        BY <3>1, <3>2, <3>4 DEF StageAfterInit, Goto, Arrays
      <4> QED
        BY <3>0, <4>1 DEF Told, Greetings, Answers, Chosen, Negotiations, Statuses
    <3> QED
      BY <3>3, <3>4
  <2>3. CASE RecvAuth(c)
    <3>0. /\ pc[c] = "auth" /\ ~Gone(c) /\ cmd[c] = "none"
          /\ pc'[c] = "closetarget" /\ UNCHANGED <<cmd, fds>>
          /\ out[c] = <<"usrpass">> \o <<>>
      BY <1>0, <2>3
         DEF RecvAuth, StageAfterAuth, Goto, Arrays, Gone, Course, Greetings,
             Answers
    <3>1. \/ out' = out
          \/ \E r \in {"authok", "autherr"} : ReplyAnyway(c, r)
      BY <2>3 DEF RecvAuth
    <3>2. CASE out' = out
      BY <3>0, <3>2 DEF Told, Greetings, Answers, Statuses, Negotiations
    <3>3. ASSUME NEW r \in {"authok", "autherr"}, ReplyAnyway(c, r)
          PROVE  Told(c)'
      <4>1. r \in Replies
        BY DEF Replies
      <4>2. out'[c] = Append(out[c], r)
        BY <3>0, <3>3, <4>1, ReplyTold
      <4>3. out'[c] = <<"usrpass", r>> \o <<>>
        BY <3>0, <4>1, <4>2, Joined
      <4> QED
        BY <3>0, <4>3 DEF Told, Greetings, Answers, Statuses, Negotiations
    <3> QED
      BY <3>1, <3>2, <3>3
  <2>4. CASE RecvRequest(c)
    <3>0. /\ pc[c] = "requ" /\ ~Gone(c) /\ cmd[c] = "none" /\ UNCHANGED fds
          /\ n \in Chosen /\ out[c] = n \o <<>>
      BY <1>0, <2>4 DEF RecvRequest, Gone, Course, Greetings, Answers
    <3>1. \/ pc'[c] = "closetarget" /\ UNCHANGED <<out, cmd>>
          \/ pc'[c] = "closetarget" /\ cmd'[c] = "udp" /\ ReplyAnyway(c, "ok")
          \/ /\ pc'[c] = "connecting" /\ cmd'[c] \in {"connect", "bind"}
             /\ UNCHANGED out
      BY <2>4, RequestAssumption DEF RecvRequest, Goto, Arrays
    <3>2. CASE pc'[c] = "closetarget" /\ UNCHANGED <<out, cmd>>
      BY <3>0, <3>2 DEF Told, Greetings, Answers, Statuses, Negotiations, Chosen
    <3>3. CASE pc'[c] = "closetarget" /\ cmd'[c] = "udp" /\ ReplyAnyway(c, "ok")
      <4>1. out'[c] = n \o <<"ok">>
        BY <3>0, <3>3, ReplyTold, Joined DEF Replies
      <4> QED
        BY <3>0, <3>3, <4>1 DEF Told, Greetings, Answers, Statuses
    <3>4. CASE /\ pc'[c] = "connecting" /\ cmd'[c] \in {"connect", "bind"}
               /\ UNCHANGED out
      BY <3>0, <3>4 DEF Told, Greetings, Answers
    <3> QED
      BY <3>1, <3>2, <3>3, <3>4
  <2>5. CASE ConnectOk(c) \/ ConnectFails(c)
    <3>0. /\ pc[c] = "connecting" /\ cmd[c] \in {"connect", "bind"}
          /\ UNCHANGED cmd /\ n \in Chosen /\ out[c] = n \o <<>>
          /\ fds[c] \subseteq {"soc"}
      BY <1>0, <2>5
         DEF ConnectOk, ConnectFails, Course, Greetings, Answers
    <3>1. CASE ConnectOk(c)
      <4>1. CASE cmd[c] = "connect"
        <5>1. pc'[c] = "stream" /\ ReplyAnyway(c, "ok")
          BY <3>1, <4>1 DEF ConnectOk, Goto, Arrays
        <5>2. \/ Gone(c)' /\ out'[c] = n \o <<>>
              \/ out'[c] = Append(n \o <<>>, "ok")
          BY <3>0, <5>1, ReplyTold DEF Replies
        <5>3. Append(n \o <<>>, "ok") = n \o <<"ok">>
          BY <3>0, Joined DEF Replies
        <5>4. Greetings(c)' = Chosen
          BY <3>0, <4>1, <5>1 DEF Greetings
        <5>5. Answers(c)' = {<<"ok">>} \union (IF Gone(c)' THEN {<<>>} ELSE {})
          BY <5>1 DEF Answers
        <5> QED
          BY <3>0, <5>2, <5>3, <5>4, <5>5 DEF Told
      <4>2. CASE cmd[c] = "bind"
        <5>1. pc'[c] = "getport" /\ out' = out
          BY <3>1, <4>2 DEF ConnectOk, Goto, Arrays
        <5> QED
          BY <3>0, <4>2, <5>1 DEF Told, Greetings, Answers
      <4> QED
        BY <3>0, <4>1, <4>2
    <3>2. CASE ConnectFails(c)
      <4>1. pc'[c] = "closetarget"
        BY <3>2 DEF ConnectFails, LeftByConnect, Goto, Arrays
      <4>2. CASE cmd[c] = "connect"
        <5>1. ReplyAnyway(c, "err")
          BY <3>2, <4>2 DEF ConnectFails
        <5>2. out'[c] = n \o <<>> \/ out'[c] = Append(n \o <<>>, "err")
          BY <3>0, <5>1, ReplyTold DEF Replies
        <5>3. Append(n \o <<>>, "err") = n \o <<"err">>
          BY <3>0, Joined DEF Replies
        <5>4. /\ n \in Greetings(c)' /\ <<>> \in Answers(c)'
              /\ <<"err">> \in Answers(c)'
          BY <3>0, <4>1, <4>2 DEF Greetings, Answers, Statuses
        <5> QED
          BY <5>2, <5>3, <5>4 DEF Told
      <4>3. CASE cmd[c] = "bind"
        <5>1. out' = out
          BY <3>2, <4>3 DEF ConnectFails
        <5> QED
          BY <3>0, <4>1, <4>3, <5>1 DEF Told, Greetings, Answers, Statuses
      <4> QED
        BY <3>0, <4>2, <4>3
    <3> QED
      BY <2>5, <3>1, <3>2
  <2> QED
    BY <1>2, <2>1, <2>2, <2>3, <2>4, <2>5 DEF Negotiate
<1>3. CASE Stream(c)
  <2>0. /\ pc[c] \in Streaming /\ cmd[c] = "connect"
        /\ UNCHANGED <<cmd, fds>> /\ "attempt" \notin fds[c]
        /\ n \in Chosen /\ s \in {<<>>, <<"ok">>} /\ (s = <<>> => Gone(c))
    <3>1. pc[c] \in Streaming /\ UNCHANGED <<cmd, fds>>
      BY <1>3
         DEF Stream, StreamTimeout, StreamFromTarget, StreamEnds,
             StreamHeader, StreamBody, StreamBodyFails, StreamToClient, StreamToTarget, sessionVars
    <3>2. cmd[c] = "connect" /\ "attempt" \notin fds[c]
      BY <3>1 DEF Course
    <3>3. <<"ok">> # <<>>
      OBVIOUS
    <3>4. /\ Greetings(c) = Chosen
          /\ Answers(c) = {<<"ok">>} \union (IF Gone(c) THEN {<<>>} ELSE {})
      BY <3>1, <3>2 DEF Greetings, Answers
    <3> QED
      BY <1>0, <3>1, <3>2, <3>3, <3>4
  <2>1. CASE StreamTimeout(c)
    <3>1. /\ pc'[c] = "closetarget" /\ ~Gone(c) /\ ReplyAnyway(c, "ttl")
      BY <2>1 DEF StreamTimeout, Goto, Arrays, Gone
    <3>2. out'[c] = Append(n \o <<"ok">>, "ttl")
      BY <1>0, <2>0, <3>1, ReplyTold DEF Replies
    <3>3. out'[c] = n \o <<"ok", "ttl">>
      BY <2>0, <3>2, Joined DEF Replies
    <3> QED
      BY <2>0, <3>1, <3>3 DEF Told, Greetings, Answers, Statuses
  <2>2. CASE ~StreamTimeout(c)
    <3>1. /\ pc'[c] \in Streaming \union {"closetarget"} /\ out' = out
          /\ Gone(c) => Gone(c)'
      BY <1>3, <2>2
         DEF Stream, StreamFromTarget, SendAll, StreamEnds, StreamHeader,
             StreamBody, StreamBodyFails, StreamToClient, StreamToTarget,
             Goto, sessionVars, Arrays, Gone
    <3> QED
      BY <1>0, <2>0, <3>1 DEF Told, Greetings, Answers, Statuses
  <2> QED
    BY <2>1, <2>2
<1>4. CASE Bind(c)
  <2>0. /\ pc[c] \in Binding \union {"getport"} /\ cmd[c] = "bind"
        /\ UNCHANGED cmd /\ n \in Chosen
        /\ pc[c] \in {"getport", "setup"} => s = <<>>
        /\ pc[c] = "await" => s \in {<<>>, <<"ok">>} /\ (s = <<>> => Gone(c))
        /\ s \in Statuses("bind")
    <3>1. /\ pc[c] \in Binding \union {"getport"}
          /\ UNCHANGED cmd
      BY <1>4
         DEF Bind, GetPort, SetupOk, SetupFails, BindTimeout, BindAccept,
             BindRelay, BindRelayBody, DelPort, sessionVars, Binding
    <3>2. cmd[c] = "bind"
      BY <3>1 DEF Course, Binding
    <3>3. /\ n \in Chosen /\ s \in Statuses("bind")
          /\ pc[c] \in {"getport", "setup"} => s = <<>>
          /\ pc[c] = "await" => s \in {<<>>, <<"ok">>} /\ (s = <<>> => Gone(c))
      <4>1. pc[c] \notin {"idle", "init", "auth", "requ", "connecting"} \union Streaming
        BY <3>1 DEF Streaming, Binding
      <4>2. Greetings(c) = Chosen
        BY <3>2, <4>1 DEF Greetings
      <4>3. /\ pc[c] \in {"getport", "setup"} => Answers(c) = {<<>>}
            /\ pc[c] = "await" =>
                 Answers(c) = {<<"ok">>} \union (IF Gone(c) THEN {<<>>} ELSE {})
            /\ pc[c] \notin {"getport", "setup", "await"} =>
                 Answers(c) = Statuses(cmd[c])
        BY <3>1, <3>2, <4>1 DEF Answers, Binding
      <4>4. {<<>>, <<"ok">>} \subseteq Statuses("bind")
        BY DEF Statuses
      <4>5. n \in Chosen /\ s \in Answers(c)
        BY <1>0, <4>2
      <4>6. CASE pc[c] \in {"getport", "setup"}
        <5>1. s = <<>>
          BY <4>3, <4>5, <4>6
        <5> QED
          BY <4>4, <4>5, <4>6, <5>1
      <4>7. CASE pc[c] = "await"
        <5>1. s \in {<<>>, <<"ok">>} /\ (s = <<>> => Gone(c))
          <6>1. s \in {<<"ok">>} \union (IF Gone(c) THEN {<<>>} ELSE {})
            BY <4>3, <4>5, <4>7
          <6>2. <<"ok">> # <<>>
            OBVIOUS
          <6> QED
            BY <6>1, <6>2
        <5> QED
          BY <4>4, <4>5, <4>7, <5>1
      <4>8. CASE pc[c] \notin {"getport", "setup", "await"}
        <5>1. s \in Statuses("bind")
          BY <3>2, <4>3, <4>5, <4>8
        <5> QED
          BY <4>5, <4>8, <5>1
      <4> QED
        BY <4>6, <4>7, <4>8
    <3> QED
      BY <3>1, <3>2, <3>3
  <2>1. CASE SetupOk(c)
    <3>1. /\ s = <<>>
          /\ \/ pc'[c] \in {"await", "delport"} /\ ReplyAnyway(c, "ok")
             \/ pc'[c] = "delport" /\ out' = out
      BY <2>0, <2>1 DEF SetupOk, Goto, Arrays, ReplyAnyway
    <3>2. CASE pc'[c] \in {"await", "delport"} /\ ReplyAnyway(c, "ok")
      <4>1. \/ Gone(c)' /\ out'[c] = n \o <<>>
            \/ out'[c] = n \o <<"ok">>
        BY <1>0, <2>0, <3>1, <3>2, ReplyTold, Joined DEF Replies
      <4> QED
        BY <2>0, <3>2, <4>1 DEF Told, Greetings, Answers, Statuses
    <3>3. CASE pc'[c] = "delport" /\ out' = out
      BY <1>0, <2>0, <3>1, <3>3 DEF Told, Greetings, Answers, Statuses
    <3> QED
      BY <3>1, <3>2, <3>3
  <2>2. CASE BindAccept(c)
    <3>1. /\ pc[c] = "await" /\ pc'[c] \in {"relay", "delport"}
          /\ \E r \in {"ok", "err"} : ReplyAnyway(c, r)
      BY <2>2 DEF BindAccept, Goto, Arrays, ReplyAnyway
    <3>2. \/ out'[c] = n \o s
          \/ out'[c] = n \o <<"ok", "ok">>
          \/ out'[c] = n \o <<"ok", "err">>
      <4>1. PICK r \in {"ok", "err"} : ReplyAnyway(c, r)
        BY <3>1
      <4>2. r \in Replies
        BY DEF Replies
      <4>3. CASE Gone(c) /\ out'[c] = out[c]
        BY <1>0, <4>3
      <4>4. CASE ~Gone(c) /\ out'[c] = Append(out[c], r)
        <5>1. s = <<"ok">>
          BY <2>0, <3>1, <4>4
        <5>2. Append(n \o <<"ok">>, r) = n \o <<"ok", r>>
          BY <2>0, <4>2, Joined
        <5> QED
          BY <1>0, <4>4, <5>1, <5>2
      <4> QED
        BY <4>1, <4>2, <4>3, <4>4, ReplyTold
    <3> QED
      BY <2>0, <3>1, <3>2 DEF Told, Greetings, Answers, Statuses
  <2>3. CASE \/ GetPort(c) \/ SetupFails(c) \/ BindTimeout(c) \/ BindRelay(c)
             \/ BindRelayBody(c) \/ DelPort(c)
    <3>1. /\ out' = out
          /\ \/ pc[c] = "getport" /\ pc'[c] = "setup"
             \/ pc'[c] \in {"relay", "relaymid", "delport", "closetarget"}
      BY <2>3
         DEF GetPort, SetupFails, LeftBySetup, BindTimeout, BindRelay, BindRelayBody,
             DelPort, Goto, sessionVars, Arrays
    <3> QED
      BY <1>0, <2>0, <3>1 DEF Told, Greetings, Answers
  <2> QED
    BY <1>4, <2>1, <2>2, <2>3 DEF Bind
<1>5. CASE Finish(c)
  <2>1. /\ pc[c] \in Closing /\ pc'[c] \in Closing \union {"ended"}
        /\ UNCHANGED <<out, cmd>> /\ ("attempt" \in fds'[c] <=> "attempt" \in fds[c])
    BY <1>5 DEF Finish, CloseTarget, CloseSoc, SetDone, Goto, Arrays
  <2>2. Greetings(c)' = Greetings(c) /\ Answers(c)' = Answers(c)
    BY <2>1 DEF Greetings, Answers
  <2> QED
    BY <1>0, <2>1, <2>2 DEF Told
<1> QED
  BY <1>1, <1>2, <1>3, <1>4, <1>5 DEF StepOf, Worker

-----------------------------------------------------------------------------
(* The invariant of all sessions, and what follows from it *)

SessionInv == TypeOK /\ \A c \in Conns : Course(c) /\ Told(c)

\* Nobody was told anything yet.
LEMMA SessionInit ==
  ASSUME Init
  PROVE  SessionInv
<1>1. TypeOK
  BY PortInit DEF PortInv
<1>2. ASSUME NEW c \in Conns  PROVE Course(c) /\ Told(c)
  <2>1. /\ pc[c] = "idle" /\ out[c] = <<>> /\ cmd[c] = "none" /\ fds[c] = {}
        /\ done[c] = FALSE
    BY DEF Init
  <2>2. Course(c)
    BY <2>1 DEF Streaming, Course, Negotiating, Binding, Closing
  <2>3. Greetings(c) = {<<>>} /\ Answers(c) = {<<>>}
    BY <2>1 DEF Greetings, Answers
  <2>4. <<>> = <<>> \o <<>>
    BY ConcatEmptySeq, EmptySeq
  <2> QED
    BY <2>1, <2>2, <2>3, <2>4 DEF Told
<1> QED
  BY <1>1, <1>2 DEF SessionInv

\* A step of one session keeps its own invariant and disturbs no other.
LEMMA SessionStep ==
  ASSUME SessionInv, TypeOK', [Next]_vars
  PROVE  SessionInv'
<1>0. Arrays
  BY DEF SessionInv, TypeOK, Arrays
<1>1. CASE UNCHANGED vars
  BY <1>1 DEF SessionInv, vars, sessionVars, sharedVars, Course, Told,
              Greetings, Answers, Streaming, Gone
<1>2. ASSUME NEW c \in Conns, StepOf(c)
      PROVE  SessionInv'
  <2>1. Course(c)' /\ Told(c)'
    BY <1>0, <1>2, CourseStep, ToldStep DEF SessionInv
  <2>2. ASSUME NEW d \in Conns \ {c}  PROVE Course(d)' /\ Told(d)'
    <3>1. /\ pc'[d] = pc[d] /\ net'[d] = net[d] /\ out'[d] = out[d]
          /\ cmd'[d] = cmd[d] /\ fds'[d] = fds[d] /\ done'[d] = done[d]
      BY <1>0, <1>2, Frame
    <3>2. Course(d)' /\ Gone(d)' = Gone(d)
      BY <3>1 DEF SessionInv, Course, Gone
    <3>3. Greetings(d)' = Greetings(d) /\ Answers(d)' = Answers(d)
      BY <3>1, <3>2 DEF Greetings, Answers
    <3> QED
      BY <3>1, <3>2, <3>3 DEF SessionInv, Told
  <2> QED
    BY <2>1, <2>2 DEF SessionInv
<1> QED
  BY <1>1, <1>2 DEF Next, StepOf

\* Course and replies of every session are as described throughout.
THEOREM SessionsInvariant == Spec => []SessionInv
<1>1. Init => SessionInv
  BY SessionInit
<1>2. SessionInv /\ TypeOK' /\ [Next]_vars => SessionInv'
  BY SessionStep
<1> QED
  BY <1>1, <1>2, SessionTypes, PTL DEF Spec

\* The replies of a session whose command is under way or done begin with
\* the negotiation of no method or of NOAUTH.
LEMMA Negotiated ==
  ASSUME SessionInv, NEW c \in Conns, cmd[c] # "none"
  PROVE  \E n \in Chosen, s \in Statuses(cmd[c]) : out[c] = n \o s
<1>1. PICK n \in Greetings(c), s \in Answers(c) : out[c] = n \o s
  BY DEF SessionInv, Told
<1>2. pc[c] \notin {"idle", "init", "auth"}
  BY DEF SessionInv, Course, Negotiating
<1>3. n \in Chosen
  BY <1>1, <1>2 DEF Greetings
<1>4. s \in Statuses(cmd[c])
  BY <1>1 DEF SessionInv, TypeOK, PCs, Answers, Statuses, Course, Commands,
              Negotiating, Binding, Closing
<1> QED
  BY <1>1, <1>3, <1>4

\* stage_init to stage_strm_bind: whatever the client sends and whenever it
\* goes, what it was told is a prefix of a dialogue the protocol knows.
THEOREM DialogueIsLegal == Spec => []Dialogue
<1>1. ASSUME SessionInv, NEW c \in Conns
      PROVE  \E n \in Negotiations, s \in Statuses(cmd[c]) : out[c] = n \o s
  <2>1. Chosen \subseteq Negotiations
    BY DEF Chosen, Negotiations
  <2>2. CASE cmd[c] # "none"
    BY <1>1, <2>1, <2>2, Negotiated
  <2>3. CASE cmd[c] = "none"
    <3>1. PICK n \in Greetings(c), s \in Answers(c) : out[c] = n \o s
      BY <1>1 DEF SessionInv, Told
    <3>2. n \in Negotiations
      BY <3>1 DEF Greetings, Negotiations, Chosen
    <3>3. s \in Statuses(cmd[c])
      BY <1>1, <2>3, <3>1
         DEF SessionInv, Course, TypeOK, PCs, Answers, Statuses, Binding
    <3> QED
      BY <3>1, <3>2, <3>3
  <2> QED
    BY <2>2, <2>3
<1>2. SessionInv => Dialogue
  BY <1>1 DEF Dialogue
<1> QED
  BY <1>2, SessionsInvariant, PTL

\* The replies s, none of which is r.
Without(s, r) == s \in Seq(Replies) /\ \A j \in 1 .. Len(s) : s[j] # r

\* A tuple of at most two other replies does not contain r.
LEMMA TupleWithout ==
  ASSUME NEW r
  PROVE  /\ Without(<<>>, r)
         /\ \A a \in Replies \ {r} : Without(<<a>>, r)
         /\ \A a, b \in Replies \ {r} : Without(<<a, b>>, r)
<1>1. Without(<<>>, r)
  BY EmptySeq DEF Without
<1>2. ASSUME NEW a \in Replies \ {r}  PROVE Without(<<a>>, r)
  <2>1. <<a>> \in Seq(Replies) /\ Len(<<a>>) = 1 /\ <<a>>[1] = a
    OBVIOUS
  <2> QED
    BY <2>1 DEF Without
<1>3. ASSUME NEW a \in Replies \ {r}, NEW b \in Replies \ {r}
      PROVE  Without(<<a, b>>, r)
  <2>1. /\ <<a, b>> \in Seq(Replies) /\ Len(<<a, b>>) = 2
        /\ <<a, b>>[1] = a /\ <<a, b>>[2] = b
    OBVIOUS
  <2> QED
    BY <2>1 DEF Without
<1> QED
  BY <1>1, <1>2, <1>3

\* What neither part contains the whole does not.
LEMMA ConcatWithout ==
  ASSUME NEW r, NEW n, NEW s, Without(n, r), Without(s, r)
  PROVE  Without(n \o s, r)
<1>1. n \in Seq(Replies) /\ s \in Seq(Replies)
  BY DEF Without
<1>2. /\ n \o s \in Seq(Replies) /\ Len(n \o s) = Len(n) + Len(s)
      /\ Len(n) \in Nat /\ Len(s) \in Nat
      /\ \A i \in 1 .. Len(n) + Len(s) :
           (n \o s)[i] = IF i <= Len(n) THEN n[i] ELSE s[i - Len(n)]
  BY <1>1, ConcatProperties, LenProperties
<1>3. ASSUME NEW i \in 1 .. Len(n) + Len(s)  PROVE (n \o s)[i] # r
  <2>1. CASE i <= Len(n)
    BY <1>2, <2>1 DEF Without
  <2>2. CASE ~(i <= Len(n))
    <3>1. i - Len(n) \in 1 .. Len(s)
      BY <1>2, <2>2
    <3> QED
      BY <1>2, <2>2, <3>1 DEF Without
  <2> QED
    BY <2>1, <2>2
<1> QED
  BY <1>2, <1>3 DEF Without

\* stage_auth is never passed: a client that was asked for credentials gets
\* no command carried out, good or bad as they may be, so in particular none
\* before they were accepted.
THEOREM AuthIsAGate == Spec => []AuthGate
<1>1. ASSUME SessionInv, NEW c \in Conns, cmd[c] # "none", Sent(c, "usrpass")
      PROVE  FALSE
  <2>1. PICK n \in Chosen, s \in Statuses(cmd[c]) : out[c] = n \o s
    BY <1>1, Negotiated
  <2>2. cmd[c] \in {"connect", "bind", "udp"}
    BY <1>1 DEF SessionInv, TypeOK, Commands
  <2>3. s \in {<<>>, <<"ok">>, <<"ok", "ttl">>, <<"err">>, <<"ok", "ok">>,
              <<"ok", "err">>}
    BY <2>1, <2>2 DEF Statuses
  <2>4. {"noauth", "ok", "ttl", "err"} \subseteq Replies \ {"usrpass"}
    BY DEF Replies
  <2>5. Without(n, "usrpass") /\ Without(s, "usrpass")
    BY <2>1, <2>3, <2>4, TupleWithout DEF Chosen
  <2>6. Without(out[c], "usrpass")
    BY <2>1, <2>5, ConcatWithout
  <2> QED
    BY <1>1, <2>6 DEF Sent, Without
<1>2. SessionInv => AuthGate
  BY <1>1 DEF AuthGate
<1> QED
  BY <1>2, SessionsInvariant, PTL

\* start_client from STAGE_FINISH on: both sockets are closed on every path,
\* and what else the session opened is what its command leaks.
THEOREM SocketsReleased == Spec => []Released
<1>1. ASSUME SessionInv, NEW c \in Conns, done[c]
      PROVE  fds[c] \subseteq Leaks(cmd[c])
  BY <1>1 DEF SessionInv, Course
<1>2. ASSUME SessionInv, NEW c \in Conns, done[c], cmd[c] = "connect",
             Sent(c, "ok")
      PROVE  fds[c] = {}
  <2>1. fds[c] \subseteq {"attempt"} /\ pc[c] = "ended"
    BY <1>1, <1>2 DEF Leaks, SessionInv, Course
  <2>2. ASSUME "attempt" \in fds[c]  PROVE FALSE
    <3>1. Answers(c) = {<<>>, <<"err">>}
      BY <1>2, <2>1, <2>2 DEF Answers, Streaming
    <3>2. Greetings(c) = Chosen
      BY <1>2, <2>1 DEF Greetings
    <3>3. PICK n \in Chosen, s \in {<<>>, <<"err">>} : out[c] = n \o s
      BY <1>2, <3>1, <3>2 DEF SessionInv, Told
    <3>4. {"noauth", "err"} \subseteq Replies \ {"ok"}
      BY DEF Replies
    <3>5. Without(n, "ok") /\ Without(s, "ok")
      BY <3>3, <3>4, TupleWithout DEF Chosen
    <3>6. Without(out[c], "ok")
      BY <3>3, <3>5, ConcatWithout
    <3> QED
      BY <1>2, <3>6 DEF Sent, Without
  <2> QED
    BY <2>1, <2>2
<1>3. SessionInv => Released
  BY <1>1, <1>2 DEF Released
<1> QED
  BY <1>3, SessionsInvariant, PTL

\* tags->done is the last thing a worker writes: after it no step of any
\* session changes what belongs to the finished one.
THEOREM DoneEndsSession == Spec => DoneIsLast
<1> DEFINE Kept ==
      \A c \in Conns :
        done[c] => /\ done'[c]
                   /\ <<pc[c], out[c], fds[c], port[c]>>
                        = <<pc'[c], out'[c], fds'[c], port'[c]>>
<1>1. PortInv /\ PortInv' /\ SessionInv /\ [Next]_vars => [Kept]_vars
  <2> SUFFICES ASSUME PortInv, SessionInv, [Next]_vars, NEW d \in Conns, done[d]
               PROVE  /\ done'[d]
                      /\ <<pc[d], out[d], fds[d], port[d]>>
                           = <<pc'[d], out'[d], fds'[d], port'[d]>>
    OBVIOUS
  <2>1. CASE UNCHANGED vars
    BY <2>1 DEF vars, sessionVars
  <2>2. ASSUME NEW c \in Conns, StepOf(c)
        PROVE  c # d
    <3>1. pc[d] = "ended"
      BY DEF SessionInv, Course
    <3> QED
      BY <2>2, <3>1
         DEF StepOf, Start, Worker, ClientGoes, Serving, Negotiate, RecvFails,
             RecvHello, RecvAuth, RecvRequest, ConnectOk, ConnectFails,
             Stream, StreamTimeout, StreamFromTarget, StreamEnds,
             StreamHeader, StreamBody, StreamBodyFails, StreamToClient, StreamToTarget,
             Bind, GetPort,
             SetupOk, SetupFails, BindTimeout, BindAccept, BindRelay,
             BindRelayBody, DelPort, Finish, CloseTarget, CloseSoc, SetDone,
             Negotiating
  <2>3. ASSUME NEW c \in Conns, StepOf(c), c # d
        PROVE  /\ done'[d]
               /\ <<pc[d], out[d], fds[d], port[d]>>
                    = <<pc'[d], out'[d], fds'[d], port'[d]>>
    <3>1. /\ pc'[d] = pc[d] /\ out'[d] = out[d] /\ fds'[d] = fds[d]
          /\ done'[d] = done[d]
      <4>1. Arrays
        BY DEF SessionInv, TypeOK, Arrays
      <4> QED
        BY <2>3, <4>1, Frame
    <3>2. port'[d] = port[d]
      <4>1. CASE GetPort(c)
        BY <2>3, <4>1 DEF GetPort, PortInv, TypeOK
      <4>2. CASE DelPort(c)
        BY <4>2 DEF DelPort, sessionVars
      <4>3. CASE ~GetPort(c) /\ ~DelPort(c)
        BY <2>3, <4>3, PortFrame
      <4> QED
        BY <4>1, <4>2, <4>3
    <3> QED
      BY <3>1, <3>2
  <2> QED
    BY <2>1, <2>2, <2>3 DEF Next, StepOf
<1> QED
  BY <1>1, PortsInvariant, SessionsInvariant, PTL DEF Spec, DoneIsLast

-----------------------------------------------------------------------------
(* The sessions implement Service *)

\* Served: past the accept, and not yet at the end of start_client.
Served(l) == l \in PCs \ (Closing \union {"idle", "ended"})

\* What a step does to the position of a session and to its client's socket:
\* only Start opens the socket and only CloseSoc closes it.
LEMMA StepShape ==
  ASSUME Arrays, NEW c \in Conns, Course(c), StepOf(c), ~Start(c), ~Finish(c)
  PROVE  /\ pc'[c] = pc[c] \/ (Served(pc[c]) /\ (Served(pc'[c]) \/ pc'[c] = "closetarget"))
         /\ "soc" \in fds'[c] <=> "soc" \in fds[c]
<1> USE DEF Negotiating, Streaming, Binding, Closing, PCs, Served
<1>1. CASE ClientGoes(c)
  BY <1>1 DEF ClientGoes, sessionVars
<1>2. CASE Negotiate(c)
  <2>1. CASE RecvFails(c)
    BY <2>1 DEF RecvFails, Goto, Arrays, sessionVars
  <2>2. CASE RecvHello(c)
    <3>1. \A h \in Hellos :
            StageAfterInit(h) \in {"closetarget", "requ", "auth"}
      BY HelloAssumption DEF HelloType, StageAfterInit
    <3>2. /\ pc[c] = "init" /\ pc'[c] \in {"closetarget", "requ", "auth"}
          /\ UNCHANGED fds
      BY <2>2, <3>1 DEF RecvHello, Goto, Arrays
    <3> QED
      BY <3>2
  <2>3. CASE RecvAuth(c)
    BY <2>3 DEF RecvAuth, StageAfterAuth, Goto, Arrays
  <2>4. CASE RecvRequest(c)
    <3>1. /\ pc[c] = "requ" /\ pc'[c] \in {"closetarget", "connecting"}
          /\ UNCHANGED fds
      BY <2>4, RequestAssumption DEF RecvRequest, Goto, Arrays
    <3> QED
      BY <3>1
  <2>5. CASE ConnectOk(c) \/ ConnectFails(c)
    <3>1. /\ pc[c] = "connecting"
          /\ pc'[c] \in {"stream", "getport", "closetarget"}
          /\ \E left \in {{}, {"attempt"}, {"target"}} :
               fds'[c] = fds[c] \union left
      BY <2>5 DEF ConnectOk, ConnectFails, LeftByConnect, Goto, Arrays
    <3> QED
      BY <3>1
  <2> QED
    BY <1>2, <2>1, <2>2, <2>3, <2>4, <2>5 DEF Negotiate
<1>3. CASE Stream(c)
  BY <1>3 DEF Stream, StreamTimeout, StreamFromTarget, StreamEnds,
              StreamHeader, StreamBody, StreamBodyFails, StreamToClient,
              StreamToTarget, Goto, sessionVars,
              Arrays
<1>4. CASE Bind(c)
  <2>1. CASE SetupOk(c) \/ SetupFails(c) \/ BindAccept(c)
    <3>1. /\ pc[c] \in {"setup", "await"}
          /\ pc'[c] \in {"await", "relay", "delport"}
      BY <2>1 DEF SetupOk, SetupFails, BindAccept, Goto, Arrays
    <3>2. "soc" \in fds'[c] <=> "soc" \in fds[c]
      BY <2>1 DEF SetupOk, SetupFails, LeftBySetup, BindAccept, Arrays
    <3> QED
      BY <3>1, <3>2
  <2>2. CASE \/ GetPort(c) \/ BindTimeout(c) \/ BindRelay(c)
             \/ BindRelayBody(c) \/ DelPort(c)
    BY <2>2 DEF GetPort, BindTimeout, BindRelay, BindRelayBody, DelPort, Goto,
                sessionVars, Arrays
  <2> QED
    BY <1>4, <2>1, <2>2 DEF Bind
<1> QED
  BY <1>1, <1>2, <1>3, <1>4 DEF StepOf, Worker

\* A step of one session changes the abstract state of its connection only.
LEMMA OneServiceChanges ==
  ASSUME Arrays, NEW c \in Conns, StepOf(c)
  PROVE  /\ LifeOf' = [LifeOf EXCEPT ![c] = LifeOf'[c]]
         /\ HeldOf' = [HeldOf EXCEPT ![c] = HeldOf'[c]]
<1>1. \A d \in Conns : d # c => pc'[d] = pc[d] /\ fds'[d] = fds[d]
  BY Frame
<1> QED
  BY <1>1 DEF LifeOf, HeldOf, Closing

\* A step after which c is where it was for Service is a stuttering step.
LEMMA ServiceStutters ==
  ASSUME Arrays, NEW c \in Conns, StepOf(c),
         LifeOf'[c] = LifeOf[c], HeldOf'[c] = HeldOf[c]
  PROVE  UNCHANGED Abstract!vars
<1>1. /\ LifeOf = [d \in DOMAIN LifeOf |-> LifeOf[d]]
      /\ HeldOf = [d \in DOMAIN HeldOf |-> HeldOf[d]]
  BY DEF LifeOf, HeldOf
<1>2. LifeOf' = LifeOf /\ HeldOf' = HeldOf
  BY <1>1, OneServiceChanges
<1> QED
  BY <1>2 DEF Abstract!vars

\* Every step of a session is a step of Service or leaves Service alone.
LEMMA SessionImplements ==
  ASSUME Arrays, NEW c \in Conns, Course(c), fds[c] \subseteq Descriptors,
         StepOf(c)
  PROVE  Abstract!Next \/ UNCHANGED Abstract!vars
<1> USE DEF Closing, Streaming, Negotiating, Binding, PCs
<1>0. /\ LifeOf' = [LifeOf EXCEPT ![c] = LifeOf'[c]]
      /\ HeldOf' = [HeldOf EXCEPT ![c] = HeldOf'[c]]
  BY OneServiceChanges
<1>1. CASE Start(c)
  <2>1. pc[c] = "idle" /\ pc'[c] = "init" /\ fds'[c] = {"soc"}
    BY <1>1 DEF Start, Goto, Arrays
  <2>2. LifeOf[c] = "none" /\ LifeOf'[c] = "serving"
    BY <2>1 DEF LifeOf
  <2>3. HeldOf'[c] = Abstract!Resources
    BY <2>1 DEF HeldOf, Abstract!Resources
  <2> QED
    BY <1>0, <2>2, <2>3
       DEF Abstract!Next, Abstract!Admit, Abstract!Moves, Abstract!Keeps
<1>2. CASE ~Start(c) /\ ~Finish(c)
  <2>1. /\ pc'[c] = pc[c] \/ (Served(pc[c]) /\ (Served(pc'[c]) \/ pc'[c] = "closetarget"))
        /\ "soc" \in fds'[c] <=> "soc" \in fds[c]
    BY <1>2, StepShape
  <2>2. HeldOf'[c] = HeldOf[c]
    BY <2>1 DEF HeldOf, Served
  <2>3. CASE pc'[c] = pc[c] \/ (Served(pc[c]) /\ Served(pc'[c]))
    <3>1. LifeOf'[c] = LifeOf[c]
      BY <2>3 DEF LifeOf, Served
    <3> QED
      BY <2>2, <3>1, ServiceStutters
  <2>4. CASE Served(pc[c]) /\ pc'[c] = "closetarget"
    <3>1. LifeOf[c] = "serving" /\ LifeOf'[c] = "ending"
      BY <2>4 DEF LifeOf, Served
    <3> QED
      BY <1>0, <2>2, <3>1
         DEF Abstract!Next, Abstract!Finish, Abstract!Moves, Abstract!Keeps
  <2> QED
    BY <2>1, <2>3, <2>4
<1>3. CASE CloseTarget(c)
  <2>1. /\ pc[c] = "closetarget" /\ pc'[c] = "closesoc"
        /\ fds'[c] = fds[c] \ {"target"}
    BY <1>3 DEF CloseTarget, Goto, Arrays
  <2>2. LifeOf'[c] = LifeOf[c] /\ HeldOf'[c] = HeldOf[c]
    BY <2>1 DEF LifeOf, HeldOf
  <2> QED
    BY <2>2, ServiceStutters
<1>4. CASE CloseSoc(c)
  <2>1. /\ pc[c] = "closesoc" /\ pc'[c] = "setdone"
        /\ fds'[c] = fds[c] \ {"soc"}
    BY <1>4 DEF CloseSoc, Goto, Arrays
  <2>2. LifeOf[c] = "ending" /\ LifeOf'[c] = "ending"
    BY <2>1 DEF LifeOf
  <2>3. HeldOf'[c] = HeldOf[c] \ {"socket"}
    BY <2>1 DEF HeldOf
  <2> QED
    BY <1>0, <2>2, <2>3
       DEF Abstract!Next, Abstract!Close, Abstract!Moves, Abstract!Keeps
<1>5. CASE SetDone(c)
  <2>1. /\ pc[c] = "setdone" /\ pc'[c] = "ended" /\ fds'[c] = fds[c]
        /\ "soc" \notin fds[c]
    BY <1>5 DEF SetDone, Goto, Arrays, Course
  <2>2. LifeOf[c] = "ending" /\ LifeOf'[c] = "ended"
    BY <2>1 DEF LifeOf
  <2>3. HeldOf'[c] = HeldOf[c] \ {"socket"}
    BY <2>1 DEF HeldOf
  <2> QED
    BY <1>0, <2>2, <2>3
       DEF Abstract!Next, Abstract!End, Abstract!Moves, Abstract!Keeps
<1> QED
  BY <1>1, <1>2, <1>3, <1>4, <1>5 DEF Finish

\* start_client implements Service, for every number of clients and whatever
\* they send: stages, replies, target and ports are details of one service.
THEOREM SessionServes == Spec => Serves
<1>1. Init => Abstract!Init
  BY DEF Init, Abstract!Init, LifeOf, HeldOf, Closing
<1>2. ASSUME SessionInv, [Next]_vars
      PROVE  [Abstract!Next]_(Abstract!vars)
  <2>1. CASE UNCHANGED vars
    BY <2>1 DEF vars, sessionVars, LifeOf, HeldOf, Closing, Abstract!vars
  <2>2. ASSUME NEW c \in Conns, StepOf(c)
        PROVE  [Abstract!Next]_(Abstract!vars)
    <3>1. Arrays /\ Course(c) /\ fds[c] \subseteq Descriptors
      BY <1>2 DEF SessionInv, TypeOK, Arrays
    <3> QED
      BY <2>2, <3>1, SessionImplements
  <2> QED
    BY <1>2, <2>1, <2>2 DEF Next, StepOf
<1> QED
  BY <1>1, <1>2, SessionsInvariant, PTL DEF Spec, Serves, Abstract!Spec
=============================================================================
