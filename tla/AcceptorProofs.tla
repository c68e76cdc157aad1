--------------------------- MODULE AcceptorProofs ---------------------------
(* Proofs about Acceptor, for every set of connections and thread ids and    *)
(* for both programs.                                                        *)
EXTENDS Acceptor, FiniteSetTheorems, TLAPS

\* What each worker's position says about its flag and its socket.
WorkerInv ==
  \A c \in Conns :
    /\ thr[c] = "none" /\ args[c] = "free" => ~done[c] /\ sock[c] = "none"
    /\ thr[c] \in {"exiting", "gone"} => done[c] /\ sock[c] = "closed"
    /\ thr[c] = "closing" =>
         IF program = "peer" THEN sock[c] = "closed" ELSE done[c]

\* The thread being joined has an entry, and it said done.
JoinInv ==
  accPc = "join" => joining \in DOMAIN pt_map /\ done[pt_map[joining]]

\* The strengthening that the steps preserve.
IInv ==
  /\ TypeOK
  /\ NoUseAfterFree
  /\ TableComplete
  /\ SweepNeverEmpty
  /\ WorkerInv
  /\ JoinInv

\* The table is finite, so its size is a number.
LEMMA SizeType ==
  ASSUME DOMAIN pt_map \in SUBSET Tids
  PROVE  IsFiniteSet(DOMAIN pt_map) /\ Size \in Nat
BY TidsAssumption, FS_Subset, FS_CardinalityType DEF Size

\* The initial state satisfies the strengthening.
LEMMA InitInv == Init => IInv
<1> SUFFICES ASSUME Init PROVE IInv
  OBVIOUS
<1>1. DOMAIN pt_map = {}
  BY DEF Init
<1>2. TypeOK
  BY <1>1 DEF Init, TypeOK
<1>3. NoUseAfterFree /\ TableComplete
  BY <1>1 DEF Init, NoUseAfterFree, TableComplete
<1>4. SweepNeverEmpty /\ WorkerInv /\ JoinInv
  BY DEF Init, SweepNeverEmpty, WorkerInv, JoinInv
<1> QED
  BY <1>2, <1>3, <1>4 DEF IInv

\* Each turn of the accept loop outside Join and Accept leaves the table alone.
LEMMA LoopStep ==
  ASSUME IInv, UNCHANGED program, BeginSweep \/ SweepStep \/ EndSweep \/ AcceptFails
  PROVE  IInv'
<1>1. TypeOK /\ Size \in Nat
  BY SizeType DEF IInv, TypeOK
<1>2. Size' = Size
  BY DEF BeginSweep, SweepStep, EndSweep, AcceptFails, Size
<1>3. NoUseAfterFree' /\ TableComplete' /\ WorkerInv'
  BY DEF IInv, NoUseAfterFree, TableComplete, WorkerInv, workerVars,
         BeginSweep, SweepStep, EndSweep, AcceptFails
<1>4. CASE BeginSweep
  <2>1. TypeOK'
    BY <1>1, <1>4 DEF TypeOK, BeginSweep, workerVars
  <2>2. SweepNeverEmpty' /\ JoinInv'
    BY <1>1, <1>2, <1>4 DEF SweepNeverEmpty, JoinInv, BeginSweep
  <2> QED
    BY <2>1, <2>2, <1>3 DEF IInv
<1>5. CASE SweepStep
  <2>1. PICK t \in ThreadGet(idx) :
          IF t # NoTid /\ done[pt_map[t]]
            THEN accPc' = "join" /\ joining' = t /\ UNCHANGED idx
            ELSE idx' = idx + 1 /\ UNCHANGED <<accPc, joining>>
    BY <1>5 DEF SweepStep
  <2>2. t \in DOMAIN pt_map \union {NoTid}
    BY <2>1 DEF ThreadGet
  <2>3. TypeOK'
    BY <1>1, <1>5, <2>1, <2>2 DEF TypeOK, SweepStep, workerVars
  <2>4. SweepNeverEmpty'
    BY <1>1, <1>2, <1>5, <2>1 DEF IInv, TypeOK, SweepNeverEmpty, SweepStep
  <2>5. JoinInv'
    BY <1>5, <2>1, <2>2 DEF IInv, JoinInv, SweepStep, workerVars
  <2> QED
    BY <2>3, <2>4, <2>5, <1>3 DEF IInv
<1>6. CASE EndSweep \/ AcceptFails
  <2>1. TypeOK'
    BY <1>1, <1>6 DEF TypeOK, EndSweep, AcceptFails, workerVars
  <2>2. SweepNeverEmpty' /\ JoinInv'
    BY <1>6 DEF SweepNeverEmpty, JoinInv, EndSweep, AcceptFails
  <2> QED
    BY <2>1, <2>2, <1>3 DEF IInv
<1> QED
  BY <1>4, <1>5, <1>6

\* Joining a thread removes exactly its entry and releases exactly its
\* connection.
LEMMA JoinStep ==
  ASSUME IInv, UNCHANGED program, Join
  PROVE  IInv'
<1> DEFINE c == pt_map[joining]
<1>1. /\ TypeOK /\ Size \in Nat /\ IsFiniteSet(DOMAIN pt_map)
      /\ joining \in DOMAIN pt_map /\ c \in Conns /\ thr[c] = "gone"
  BY SizeType DEF IInv, TypeOK, JoinInv, Join, Release
<1>2. /\ args' = [args EXCEPT ![c] = "free"]
      /\ thr' = [thr EXCEPT ![c] = "none"]
      /\ done' = [done EXCEPT ![c] = FALSE]
      /\ sock' = [sock EXCEPT ![c] = IF @ = "closed" THEN "none" ELSE @]
      /\ accPc' = "sweep" /\ idx' = idx + 1
      /\ joining' = NoTid /\ count' = count
  BY DEF Join, Release
<1>3. sock'[c] = "none"
  BY <1>1, <1>2 DEF IInv, WorkerInv, TypeOK
<1>4. /\ DOMAIN pt_map' = DOMAIN pt_map \ {joining}
      /\ \A t \in DOMAIN pt_map' : pt_map'[t] = pt_map[t]
      /\ pt_map' \in [DOMAIN pt_map' -> Conns]
  BY <1>1 DEF Join, Release, Erased, TypeOK
<1>5. \A t \in DOMAIN pt_map' : pt_map'[t] # c
  BY <1>1, <1>4 DEF IInv, TableComplete
<1> HIDE DEF c
<1>6. TypeOK'
  BY <1>1, <1>2, <1>4 DEF TypeOK
<1>7. NoUseAfterFree'
  BY <1>1, <1>2, <1>4, <1>5 DEF IInv, NoUseAfterFree, TypeOK
<1>8. TableComplete'
  <2>1. \A s, t \in DOMAIN pt_map' : pt_map'[s] = pt_map'[t] => s = t
    BY <1>4 DEF IInv, TableComplete
  <2>2. ASSUME NEW d \in Conns
        PROVE  args'[d] = "live" <=> \E t \in DOMAIN pt_map' : pt_map'[t] = d
    <3>1. CASE d = c
      BY <3>1, <1>1, <1>2, <1>5 DEF TypeOK
    <3>2. CASE d # c
      <4>1. args'[d] = args[d]
        BY <3>2, <1>2 DEF IInv, TypeOK
      <4>2. \A t \in DOMAIN pt_map : pt_map[t] = d => t # joining
        BY <3>2 DEF c
      <4> QED
        BY <4>1, <4>2, <1>4 DEF IInv, TableComplete
    <3> QED
      BY <3>1, <3>2
  <2>3. \A d \in Conns : thr'[d] # "none" <=> args'[d] = "live"
    BY <1>1, <1>2 DEF IInv, TableComplete, TypeOK
  <2> QED
    BY <2>1, <2>2, <2>3 DEF TableComplete
<1>9. SweepNeverEmpty'
  <2>1. Size' = Size - 1
    BY <1>1, <1>4, FS_RemoveElement DEF Size
  <2>2. Size >= count - idx
    BY DEF IInv, SweepNeverEmpty, Join, Release
  <2> QED
    BY <1>1, <1>2, <2>1, <2>2 DEF SweepNeverEmpty, TypeOK
<1>10. WorkerInv'
  BY <1>1, <1>2, <1>3 DEF IInv, WorkerInv, TypeOK
<1>11. JoinInv'
  BY <1>2 DEF JoinInv
<1> QED
  BY <1>6, <1>7, <1>8, <1>9, <1>10, <1>11 DEF IInv

\* Accepting a connection adds one entry for a connection that had none.
LEMMA AcceptStep ==
  ASSUME IInv, UNCHANGED program, NEW c \in Conns, Accept(c) \/ AcceptNoThread(c)
  PROVE  IInv'
<1>1. TypeOK /\ Size \in Nat /\ IsFiniteSet(DOMAIN pt_map)
  BY SizeType DEF IInv, TypeOK
<1>2. accPc' = "top" /\ UNCHANGED <<idx, count, joining>>
  BY DEF Accept, AcceptNoThread
<1>3. SweepNeverEmpty' /\ JoinInv'
  BY <1>2 DEF SweepNeverEmpty, JoinInv
<1>4. args[c] = "free" /\ sock[c] = "none" /\ thr[c] = "none"
  BY DEF Accept, AcceptNoThread, IInv, TableComplete, TypeOK
<1>5. \A t \in DOMAIN pt_map : pt_map[t] # c
  BY <1>4 DEF IInv, TableComplete
<1>6. CASE Accept(c)
  <2>1. PICK t \in Tids \ DOMAIN pt_map : pt_map' = Inserted(t, c)
    BY <1>6 DEF Accept
  <2>2. /\ DOMAIN pt_map' = DOMAIN pt_map \union {t}
        /\ pt_map'[t] = c
        /\ \A u \in DOMAIN pt_map : pt_map'[u] = pt_map[u]
        /\ pt_map' \in [DOMAIN pt_map' -> Conns]
    BY <1>1, <2>1 DEF Inserted, TypeOK
  <2>3. /\ args' = [args EXCEPT ![c] = "live"]
        /\ sock' = [sock EXCEPT ![c] = "open"]
        /\ done' = [done EXCEPT ![c] = FALSE]
        /\ thr' = [thr EXCEPT ![c] = "serving"]
    BY <1>6 DEF Accept
  <2>4. TypeOK'
    BY <1>1, <1>2, <2>2, <2>3 DEF TypeOK
  <2>5. NoUseAfterFree'
    BY <1>1, <2>2, <2>3 DEF IInv, NoUseAfterFree, TypeOK
  <2>6. TableComplete'
    <3>1. \A s, u \in DOMAIN pt_map' : pt_map'[s] = pt_map'[u] => s = u
      BY <1>5, <2>1, <2>2 DEF IInv, TableComplete
    <3>2. \A d \in Conns :
            args'[d] = "live" <=> \E u \in DOMAIN pt_map' : pt_map'[u] = d
      BY <1>1, <1>5, <2>2, <2>3 DEF IInv, TableComplete, TypeOK
    <3>3. \A d \in Conns : thr'[d] # "none" <=> args'[d] = "live"
      BY <1>1, <2>3 DEF IInv, TableComplete, TypeOK
    <3> QED
      BY <3>1, <3>2, <3>3 DEF TableComplete
  <2>7. WorkerInv'
    BY <1>1, <2>3 DEF IInv, WorkerInv, TypeOK
  <2> QED
    BY <1>3, <2>4, <2>5, <2>6, <2>7 DEF IInv
<1>7. CASE AcceptNoThread(c)
  <2>1. /\ args' = [args EXCEPT ![c] = "lost"]
        /\ sock' = [sock EXCEPT ![c] = "open"]
        /\ done' = [done EXCEPT ![c] = FALSE]
        /\ thr' = thr /\ pt_map' = pt_map
    BY <1>7 DEF AcceptNoThread
  <2>2. TypeOK'
    BY <1>1, <1>2, <2>1 DEF TypeOK
  <2>3. NoUseAfterFree' /\ TableComplete'
    BY <1>1, <1>4, <1>5, <2>1 DEF IInv, NoUseAfterFree, TableComplete, TypeOK
  <2>4. WorkerInv'
    BY <1>1, <1>4, <2>1 DEF IInv, WorkerInv, TypeOK
  <2> QED
    BY <1>3, <2>2, <2>3, <2>4 DEF IInv
<1> QED
  BY <1>6, <1>7

\* A worker's last steps keep its own bookkeeping and nobody else's.
LEMMA WorkerStep ==
  ASSUME IInv, UNCHANGED program, NEW c \in Conns,
         WorkerEnds(c) \/ WorkerCloses(c) \/ WorkerExits(c)
  PROVE  IInv'
<1> USE DEF FirstStep, SecondStep, SayDone, CloseSocket
<1>1. TypeOK
  BY DEF IInv
<1>2. UNCHANGED <<accPc, idx, count, joining, pt_map, args>>
  BY DEF WorkerEnds, WorkerCloses, WorkerExits, acceptorVars
<1>3. /\ thr[c] # "none" /\ thr'[c] # "none"
      /\ \A d \in Conns : d # c => thr'[d] = thr[d]
      /\ \A d \in Conns : done[d] => done'[d]
      /\ thr' \in [Conns -> {"none", "serving", "closing", "exiting", "gone"}]
      /\ done' \in [Conns -> BOOLEAN]
      /\ sock' \in [Conns -> {"none", "open", "closed"}]
  BY <1>1 DEF WorkerEnds, WorkerCloses, WorkerExits, TypeOK
<1>4. TypeOK'
  BY <1>1, <1>2, <1>3 DEF TypeOK
<1>5. NoUseAfterFree' /\ TableComplete'
  BY <1>2, <1>3 DEF IInv, NoUseAfterFree, TableComplete
<1>6. SweepNeverEmpty' /\ JoinInv'
  BY <1>1, <1>2, <1>3 DEF IInv, SweepNeverEmpty, JoinInv, Size, TypeOK
<1>7. WorkerInv'
  BY <1>1, <1>2
     DEF WorkerEnds, WorkerCloses, WorkerExits, IInv, WorkerInv, TypeOK
<1> QED
  BY <1>4, <1>5, <1>6, <1>7 DEF IInv

\* Every step, and a stuttering one, preserves the strengthening.
LEMMA NextInv == IInv /\ [Next]_vars => IInv'
<1> SUFFICES ASSUME IInv, [Next]_vars PROVE IInv'
  OBVIOUS
<1>1. CASE Loop
  BY <1>1, LoopStep, JoinStep DEF Loop
<1>2. CASE Arrival
  BY <1>2, LoopStep, AcceptStep DEF Arrival
<1>3. ASSUME NEW c \in Conns, SessionEnds(c) \/ Leaves(c) PROVE IInv'
  BY <1>3, WorkerStep DEF SessionEnds, Leaves
<1>4. CASE UNCHANGED vars
  <2>1. /\ UNCHANGED <<accPc, idx, count, joining, pt_map, args>>
        /\ UNCHANGED <<program, thr, done, sock>>
    BY <1>4 DEF vars, acceptorVars, workerVars
  <2>2. Size' = Size
    BY <2>1 DEF Size
  <2>3. TypeOK' /\ SweepNeverEmpty' /\ JoinInv'
    BY <2>1, <2>2 DEF IInv, TypeOK, SweepNeverEmpty, JoinInv
  <2>4. NoUseAfterFree' /\ TableComplete' /\ WorkerInv'
    BY <2>1 DEF IInv, NoUseAfterFree, TableComplete, WorkerInv
  <2> QED
    BY <2>3, <2>4 DEF IInv
<1> QED
  BY <1>1, <1>2, <1>3, <1>4 DEF Next

\* The variables of the accept loop keep their types.
THEOREM AcceptorTypes == Spec => []TypeOK
<1>1. IInv => TypeOK
  BY DEF IInv
<1> QED
  BY <1>1, InitInv, NextInv, PTL DEF Spec

\* No worker of either program touches deleted arguments, although the client
\* program's workers set done before they are through with them.
THEOREM ArgumentsAlive == Spec => []NoUseAfterFree
<1>1. IInv => NoUseAfterFree
  BY DEF IInv
<1> QED
  BY <1>1, InitInv, NextInv, PTL DEF Spec

\* The table holds every worker exactly once, whatever the sweep erases.
THEOREM TableIsComplete == Spec => []TableComplete
<1>1. IInv => TableComplete
  BY DEF IInv
<1> QED
  BY <1>1, InitInv, NextInv, PTL DEF Spec

\* thread_get is never asked to go past the end of an empty map.
THEOREM SweepStaysInTable == Spec => []SweepNeverEmpty
<1>1. IInv => SweepNeverEmpty
  BY DEF IInv
<1> QED
  BY <1>1, InitInv, NextInv, PTL DEF Spec

-----------------------------------------------------------------------------
(* The loop implements Service *)

\* A step that touches the objects of one connection changes the abstract
\* state of that connection only.
LEMMA OneChanges ==
  ASSUME NEW c \in Conns,
         \A d \in Conns : d # c =>
           args'[d] = args[d] /\ thr'[d] = thr[d] /\ sock'[d] = sock[d]
  PROVE  /\ LifeOf' = [LifeOf EXCEPT ![c] = LifeOf'[c]]
         /\ HeldOf' = [HeldOf EXCEPT ![c] = HeldOf'[c]]
BY DEF LifeOf, HeldOf

\* A step that touches no such object is a stuttering step of Service.
LEMMA NobodyChanges ==
  ASSUME UNCHANGED <<args, thr, sock>>
  PROVE  UNCHANGED Abstract!vars
BY DEF LifeOf, HeldOf, Abstract!vars

\* Joining a thread releases its connection, which ended before.
LEMMA JoinReleases ==
  ASSUME IInv, Join
  PROVE  Abstract!Next
<1> DEFINE c == pt_map[joining]
<1>1. TypeOK /\ c \in Conns /\ thr[c] = "gone" /\ args[c] = "live"
  BY DEF IInv, TypeOK, JoinInv, NoUseAfterFree, Join
<1>2. /\ args' = [args EXCEPT ![c] = "free"]
      /\ thr' = [thr EXCEPT ![c] = "none"]
      /\ sock' = [sock EXCEPT ![c] = IF @ = "closed" THEN "none" ELSE @]
  BY DEF Join, Release
<1> HIDE DEF c
<1>3. /\ LifeOf' = [LifeOf EXCEPT ![c] = LifeOf'[c]]
      /\ HeldOf' = [HeldOf EXCEPT ![c] = HeldOf'[c]]
  BY <1>1, <1>2, OneChanges DEF TypeOK
<1>4. LifeOf[c] = "ended" /\ LifeOf'[c] = "none"
  BY <1>1, <1>2 DEF LifeOf, TypeOK
<1>5. HeldOf'[c] = {}
  BY <1>1, <1>2 DEF HeldOf, TypeOK, IInv, WorkerInv
<1> QED
  BY <1>1, <1>3, <1>4, <1>5
     DEF Abstract!Next, Abstract!Release, Abstract!Moves, Abstract!Keeps

\* A connection that is accepted was in nobody's hands.
LEMMA AcceptAdmits ==
  ASSUME IInv, NEW c \in Conns, Accept(c) \/ AcceptNoThread(c)
  PROVE  Abstract!Next
<1>1. TypeOK /\ args[c] = "free" /\ sock[c] = "none" /\ thr[c] = "none"
  BY DEF Accept, AcceptNoThread, IInv, TableComplete, TypeOK
<1>2. \A d \in Conns : d # c =>
        args'[d] = args[d] /\ thr'[d] = thr[d] /\ sock'[d] = sock[d]
  BY <1>1 DEF Accept, AcceptNoThread, TypeOK
<1>3. /\ LifeOf' = [LifeOf EXCEPT ![c] = LifeOf'[c]]
      /\ HeldOf' = [HeldOf EXCEPT ![c] = HeldOf'[c]]
  BY <1>2, OneChanges
<1>4. LifeOf[c] = "none"
  BY <1>1 DEF LifeOf
<1>5. args'[c] # "free" /\ sock'[c] = "open"
  BY <1>1 DEF Accept, AcceptNoThread, TypeOK
<1>6. HeldOf'[c] = Abstract!Resources
  BY <1>5 DEF HeldOf, Abstract!Resources
<1>7. CASE Accept(c)
  <2>1. LifeOf'[c] = "serving"
    BY <1>1, <1>7 DEF LifeOf, Accept, TypeOK
  <2> QED
    BY <1>3, <1>4, <1>6, <2>1
       DEF Abstract!Next, Abstract!Admit, Abstract!Moves, Abstract!Keeps
<1>8. CASE AcceptNoThread(c)
  <2>1. LifeOf'[c] = "lost"
    BY <1>1, <1>8 DEF LifeOf, AcceptNoThread, TypeOK
  <2> QED
    BY <1>3, <1>4, <1>6, <2>1
       DEF Abstract!Next, Abstract!Lose, Abstract!Moves, Abstract!Keeps
<1> QED
  BY <1>7, <1>8

\* The two last steps of a worker end its service, in either order.
LEMMA WorkerImplements ==
  ASSUME IInv, UNCHANGED program, NEW c \in Conns,
         WorkerEnds(c) \/ WorkerCloses(c) \/ WorkerExits(c)
  PROVE  Abstract!Next \/ UNCHANGED Abstract!vars
<1> USE DEF FirstStep, SecondStep, SayDone, CloseSocket
<1>1. TypeOK /\ thr[c] # "none" /\ args[c] = "live" /\ args' = args
  BY DEF IInv, TableComplete, WorkerEnds, WorkerCloses, WorkerExits
<1>2. \A d \in Conns : d # c =>
        args'[d] = args[d] /\ thr'[d] = thr[d] /\ sock'[d] = sock[d]
  BY <1>1 DEF WorkerEnds, WorkerCloses, WorkerExits, TypeOK
<1>3. /\ LifeOf' = [LifeOf EXCEPT ![c] = LifeOf'[c]]
      /\ HeldOf' = [HeldOf EXCEPT ![c] = HeldOf'[c]]
  BY <1>2, OneChanges
<1>4. CASE WorkerEnds(c)
  <2>1. LifeOf[c] = "serving" /\ LifeOf'[c] = "ending"
    BY <1>1, <1>4 DEF LifeOf, WorkerEnds, TypeOK
  <2>2. HeldOf'[c] \in {HeldOf[c], HeldOf[c] \ {"socket"}}
    <3>1. sock'[c] = sock[c] \/ sock'[c] = "closed"
      BY <1>1, <1>4 DEF WorkerEnds, TypeOK
    <3> QED
      BY <1>1, <3>1 DEF HeldOf
  <2> QED
    BY <1>3, <2>1, <2>2
       DEF Abstract!Next, Abstract!Finish, Abstract!Moves, Abstract!Keeps
<1>5. CASE WorkerCloses(c)
  <2>1. LifeOf[c] = "ending" /\ LifeOf'[c] = "ended"
    BY <1>1, <1>5 DEF LifeOf, WorkerCloses, TypeOK
  <2>2. sock'[c] = "closed"
    BY <1>1, <1>5 DEF WorkerCloses, TypeOK, IInv, WorkerInv
  <2>3. HeldOf'[c] = HeldOf[c] \ {"socket"}
    BY <1>1, <2>2 DEF HeldOf
  <2> QED
    BY <1>3, <2>1, <2>3
       DEF Abstract!Next, Abstract!End, Abstract!Moves, Abstract!Keeps
<1>6. CASE WorkerExits(c)
  <2>1. LifeOf'[c] = LifeOf[c] /\ HeldOf'[c] = HeldOf[c]
    BY <1>1, <1>6 DEF LifeOf, HeldOf, WorkerExits, TypeOK
  <2>2. /\ LifeOf = [d \in DOMAIN LifeOf |-> LifeOf[d]]
        /\ HeldOf = [d \in DOMAIN HeldOf |-> HeldOf[d]]
    BY DEF LifeOf, HeldOf
  <2>3. LifeOf' = LifeOf /\ HeldOf' = HeldOf
    BY <1>3, <2>1, <2>2
  <2> QED
    BY <2>3 DEF Abstract!vars
<1> QED
  BY <1>4, <1>5, <1>6

\* Peer::start and Proxy::run with their workers implement Service, for every
\* number of connections: the table, the sweep and the order of the workers'
\* last steps are details nobody outside can tell.
THEOREM AcceptorServes == Spec => Serves
<1>1. Init => Abstract!Init
  BY DEF Init, Abstract!Init, LifeOf, HeldOf
<1>2. ASSUME IInv, [Next]_vars PROVE [Abstract!Next]_(Abstract!vars)
  <2>1. CASE Loop
    <3>1. CASE Join
      BY <3>1, <1>2, JoinReleases
    <3>2. CASE BeginSweep \/ SweepStep \/ EndSweep
      BY <3>2, NobodyChanges DEF BeginSweep, SweepStep, EndSweep, workerVars
    <3> QED
      BY <2>1, <3>1, <3>2 DEF Loop
  <2>2. CASE Arrival
    <3>1. CASE AcceptFails
      BY <3>1, NobodyChanges DEF AcceptFails, workerVars
    <3> QED
      BY <1>2, <2>2, <3>1, AcceptAdmits DEF Arrival
  <2>3. ASSUME NEW c \in Conns, SessionEnds(c) \/ Leaves(c)
        PROVE  [Abstract!Next]_(Abstract!vars)
    BY <1>2, <2>3, WorkerImplements DEF SessionEnds, Leaves
  <2>4. CASE UNCHANGED vars
    BY <2>4, NobodyChanges DEF vars, workerVars
  <2> QED
    BY <1>2, <2>1, <2>2, <2>3, <2>4 DEF Next
<1> QED
  BY <1>1, <1>2, InitInv, NextInv, PTL DEF Spec, Serves, Abstract!Spec
=============================================================================
