------------------------------ MODULE Acceptor ------------------------------
(***************************************************************************)
(* The accept loop of both programs: Peer::start in the server ("peer") and *)
(* Proxy::run in the client ("proxy").  Before each accept it sweeps the    *)
(* table of threads, joins those whose arguments say done and deletes the   *)
(* arguments; then it waits for a connection, allocates arguments and       *)
(* creates a worker.  The two programs differ in the order in which a       *)
(* worker sets done and closes its sockets.                                 *)
(*                                                                          *)
(* The table is Thread::pt_map, a std::map from thread ids to arguments; an *)
(* index into it (Thread::thread_get) shifts when the sweep erases an entry.*)
(* A connection c stands for its ThreadArgs object, its socket and its      *)
(* worker; it may be accepted again once all three are released.            *)
(***************************************************************************)
EXTENDS Integers, FiniteSets

CONSTANTS
  Conns,      \* connections
  Tids,       \* thread ids; the map is ordered by them
  NoTid       \* what thread_get returns past the end, and "nobody joined"

ASSUME TidsAssumption == IsFiniteSet(Tids) /\ Tids \subseteq Nat
ASSUME NoTidAssumption == NoTid \notin Tids

VARIABLES
  program,  \* which of the two programs runs
  accPc,    \* where the accept loop is
  idx,      \* i of the sweep
  count,    \* count of the sweep: the size of the table when it began
  joining,  \* the thread join_thread waits for
  pt_map,   \* the table: thread id -> connection
  args,     \* args[c]: the ThreadArgs object of c
  thr,      \* thr[c]: the worker of c
  done,     \* done[c]: tags->done
  sock      \* sock[c]: the accepted socket of c

acceptorVars == <<accPc, idx, count, joining, pt_map>>
workerVars   == <<thr, done, sock>>
vars == <<program, acceptorVars, args, workerVars>>

TypeOK ==
  /\ program \in {"peer", "proxy"}
  /\ accPc \in {"top", "sweep", "join", "select"}
  /\ idx \in Nat
  /\ count \in Nat
  /\ joining \in Tids \union {NoTid}
  /\ DOMAIN pt_map \in SUBSET Tids
  /\ pt_map \in [DOMAIN pt_map -> Conns]
  \* free: not allocated, or deleted; lost: allocated, in nobody's hands
  /\ args \in [Conns -> {"free", "live", "lost"}]
  \* closing: between the two last steps; exiting: past its last access
  /\ thr \in [Conns -> {"none", "serving", "closing", "exiting", "gone"}]
  /\ done \in [Conns -> BOOLEAN]
  /\ sock \in [Conns -> {"none", "open", "closed"}]

Init ==
  /\ program \in {"peer", "proxy"}
  /\ accPc = "top"
  /\ idx = 0
  /\ count = 0
  /\ joining = NoTid
  /\ pt_map = [t \in {} |-> NoTid]
  /\ args = [c \in Conns |-> "free"]
  /\ thr = [c \in Conns |-> "none"]
  /\ done = [c \in Conns |-> FALSE]
  /\ sock = [c \in Conns |-> "none"]

-----------------------------------------------------------------------------
(* The table *)

Size == Cardinality(DOMAIN pt_map)

\* thread_get(i): the entry with i smaller ids in front of it; end() when i
\* is the size.  Past that it increments end(), which may yield anything.
ThreadGet(i) ==
  IF i < Size
    THEN {t \in DOMAIN pt_map :
            Cardinality({u \in DOMAIN pt_map : u < t}) = i}
    ELSE IF i = Size THEN {NoTid} ELSE DOMAIN pt_map \union {NoTid}

\* create_thread on success: insert the entry.
Inserted(t, c) ==
  [u \in DOMAIN pt_map \union {t} |-> IF u = t THEN c ELSE pt_map[u]]

\* Mutant of Erased: join_thread leaves the entry in the table.
NotErased(t) == pt_map

\* thread_del: erase the entry.
Erased(t) == [u \in DOMAIN pt_map \ {t} |-> pt_map[u]]

-----------------------------------------------------------------------------
(* The accept loop *)

\* Mutant of BeginSweep: the sweep stops one short of the end.
SweepShort ==
  /\ accPc = "top"
  /\ accPc' = "sweep"
  /\ idx' = 0
  /\ count' = IF Size > 0 THEN Size - 1 ELSE 0
  /\ UNCHANGED <<joining, pt_map, args, workerVars>>

\* The head of the loop: the table's size is read once for the whole sweep.
BeginSweep ==
  /\ accPc = "top"
  /\ accPc' = "sweep"
  /\ idx' = 0
  /\ count' = Size
  /\ UNCHANGED <<joining, pt_map, args, workerVars>>

\* Mutant of SweepStep: every thread is joined, done or not.
JoinAny ==
  /\ accPc = "sweep"
  /\ idx < count
  /\ \E t \in ThreadGet(idx) :
       IF t # NoTid
         THEN accPc' = "join" /\ joining' = t /\ UNCHANGED idx
         ELSE idx' = idx + 1 /\ UNCHANGED <<accPc, joining>>
  /\ UNCHANGED <<count, pt_map, args, workerVars>>

\* One turn of the sweep: a thread whose arguments say done is joined.
SweepStep ==
  /\ accPc = "sweep"
  /\ idx < count
  /\ \E t \in ThreadGet(idx) :
       IF t # NoTid /\ done[pt_map[t]]
         THEN accPc' = "join" /\ joining' = t /\ UNCHANGED idx
         ELSE idx' = idx + 1 /\ UNCHANGED <<accPc, joining>>
  /\ UNCHANGED <<count, pt_map, args, workerVars>>

\* What the sweep does with the entry it joined: free the worker's objects.
Release(c) ==
  /\ args' = [args EXCEPT ![c] = "free"]
  /\ thr' = [thr EXCEPT ![c] = "none"]
  /\ done' = [done EXCEPT ![c] = FALSE]
  /\ sock' = [sock EXCEPT ![c] = IF @ = "closed" THEN "none" ELSE @]

\* Mutant of Join: the thread is detached instead of joined.
JoinWithoutWaiting ==
  /\ accPc = "join"
  /\ args' = [args EXCEPT ![pt_map[joining]] = "free"]
  /\ UNCHANGED <<thr, done, sock>>
  /\ pt_map' = Erased(joining)
  /\ accPc' = "sweep"
  /\ idx' = idx + 1
  /\ joining' = NoTid
  /\ UNCHANGED count

\* Mutant of Join: the sweep looks at the same index again.
JoinStays ==
  /\ accPc = "join"
  /\ thr[pt_map[joining]] = "gone"
  /\ Release(pt_map[joining])
  /\ pt_map' = Erased(joining)
  /\ accPc' = "sweep"
  /\ joining' = NoTid
  /\ UNCHANGED <<idx, count>>

\* Mutant of Join: the sweep steps back for each entry it erased.
JoinStepsBack ==
  /\ accPc = "join"
  /\ thr[pt_map[joining]] = "gone"
  /\ Release(pt_map[joining])
  /\ pt_map' = Erased(joining)
  /\ accPc' = "sweep"
  /\ idx' = idx - 1
  /\ joining' = NoTid
  /\ UNCHANGED count

\* join_thread returns once the thread has ended; its entry is erased and its
\* arguments, with the objects they own, are deleted.
Join ==
  /\ accPc = "join"
  /\ thr[pt_map[joining]] = "gone"
  /\ Release(pt_map[joining])
  /\ pt_map' = Erased(joining)
  /\ accPc' = "sweep"
  /\ idx' = idx + 1
  /\ joining' = NoTid
  /\ UNCHANGED count

EndSweep ==
  /\ accPc = "sweep"
  /\ idx >= count
  /\ accPc' = "select"
  /\ UNCHANGED <<idx, count, joining, pt_map, args, workerVars>>

\* select or accept fails: the loop starts over.
AcceptFails ==
  /\ accPc = "select"
  /\ accPc' = "top"
  /\ UNCHANGED <<idx, count, joining, pt_map, args, workerVars>>

\* A connection is accepted and its worker created.
Accept(c) ==
  /\ accPc = "select"
  /\ args[c] = "free" /\ sock[c] = "none"
  /\ \E t \in Tids \ DOMAIN pt_map : pt_map' = Inserted(t, c)
  /\ args' = [args EXCEPT ![c] = "live"]
  /\ sock' = [sock EXCEPT ![c] = "open"]
  /\ done' = [done EXCEPT ![c] = FALSE]
  /\ thr' = [thr EXCEPT ![c] = "serving"]
  /\ accPc' = "top"
  /\ UNCHANGED <<idx, count, joining>>

\* pthread_create fails: the result of create_thread is ignored, so nobody
\* closes the socket or deletes the arguments.
AcceptNoThread(c) ==
  /\ accPc = "select"
  /\ args[c] = "free" /\ sock[c] = "none"
  /\ args' = [args EXCEPT ![c] = "lost"]
  /\ sock' = [sock EXCEPT ![c] = "open"]
  /\ done' = [done EXCEPT ![c] = FALSE]
  /\ accPc' = "top"
  /\ UNCHANGED <<idx, count, joining, pt_map, thr>>

-----------------------------------------------------------------------------
(* The end of a worker: start_client after the session *)

\* Mutant of CloseSocket: the close is forgotten.
SocketLeftOpen(c) == UNCHANGED <<sock, done>>

CloseSocket(c) ==
  /\ sock' = [sock EXCEPT ![c] = "closed"]
  /\ UNCHANGED done

SayDone(c) ==
  /\ done' = [done EXCEPT ![c] = TRUE]
  /\ UNCHANGED sock

\* The server closes and says done; the client program says done and closes.
FirstStep(c)  == IF program = "peer" THEN CloseSocket(c) ELSE SayDone(c)
SecondStep(c) == IF program = "peer" THEN SayDone(c) ELSE CloseSocket(c)

\* The session is over (see Session and Relay for what it does).
WorkerEnds(c) ==
  /\ thr[c] = "serving"
  /\ thr' = [thr EXCEPT ![c] = "closing"]
  /\ FirstStep(c)
  /\ UNCHANGED <<acceptorVars, args>>

WorkerCloses(c) ==
  /\ thr[c] = "closing"
  /\ thr' = [thr EXCEPT ![c] = "exiting"]
  /\ SecondStep(c)
  /\ UNCHANGED <<acceptorVars, args>>

WorkerExits(c) ==
  /\ thr[c] = "exiting"
  /\ thr' = [thr EXCEPT ![c] = "gone"]
  /\ UNCHANGED <<acceptorVars, args, done, sock>>

-----------------------------------------------------------------------------
Loop ==
  /\ BeginSweep \/ SweepStep \/ Join \/ EndSweep
  /\ UNCHANGED program

Arrival ==
  /\ AcceptFails \/ \E c \in Conns : Accept(c) \/ AcceptNoThread(c)
  /\ UNCHANGED program

\* A worker past its session.
Leaves(c) ==
  /\ WorkerCloses(c) \/ WorkerExits(c)
  /\ UNCHANGED program

SessionEnds(c) == WorkerEnds(c) /\ UNCHANGED program

Next ==
  \/ Loop \/ Arrival
  \/ \E c \in Conns : SessionEnds(c) \/ Leaves(c)

Spec == Init /\ [][Next]_vars

\* The accept loop runs on its own except in select and accept; a worker whose
\* session is over closes and exits.  How long a session takes is not bounded,
\* and no connection is ever promised.
FairSpec ==
  /\ Spec
  /\ WF_vars(Loop)
  /\ \A c \in Conns : WF_vars(Leaves(c))

-----------------------------------------------------------------------------
(* Properties *)

\* A worker that may still touch its arguments (tags->soc, tags->done) finds
\* them allocated, and so does the sweep for every entry of the table: the
\* accept loop deletes them only behind the last access, although the client
\* program sets done before it is through with them.
NoUseAfterFree ==
  /\ \A c \in Conns : thr[c] \in {"serving", "closing"} => args[c] = "live"
  /\ \A t \in DOMAIN pt_map : args[pt_map[t]] = "live"

\* Every allocated argument object whose thread was created is in the table
\* exactly once, so each worker is joined and freed at most once and none is
\* forgotten, in whatever order the sweep erases entries.
TableComplete ==
  /\ \A s, t \in DOMAIN pt_map : pt_map[s] = pt_map[t] => s = t
  /\ \A c \in Conns :
       args[c] = "live" <=> \E t \in DOMAIN pt_map : pt_map[t] = c
  /\ \A c \in Conns : thr[c] # "none" <=> args[c] = "live"

\* During a sweep the table never runs empty before the index reaches count,
\* however many entries the sweep erased: thread_get is never asked to step
\* over the end of an empty map, where even libstdc++'s wrap-around has no
\* element to return.
SweepNeverEmpty ==
  accPc = "join" \/ (accPc = "sweep" /\ idx < count) => Size >= count - idx

\* The accept loop is never held up by a session: a thread it joins has said
\* done, so the join returns.
JoinReturns == accPc = "join" ~> accPc # "join"

\* Reaping makes progress as long as connections arrive: if the loop comes
\* round again and again, then again and again it joins some thread or finds
\* none that is done.  (Which one is joined is not promised: the entry behind
\* an erased one is skipped.)
ReapingProgress ==
  []<>(accPc = "top") =>
    []<>(accPc = "join" \/ \A c \in Conns : ~done[c])

-----------------------------------------------------------------------------
(* The service the loop implements *)

LifeOf == [c \in Conns |->
  IF args[c] = "lost" THEN "lost"
    ELSE CASE thr[c] = "closing" -> "ending"
           [] thr[c] \in {"exiting", "gone"} -> "ended"
           [] OTHER -> thr[c]]

HeldOf == [c \in Conns |->
  {r \in {"args", "socket"} :
     IF r = "args" THEN args[c] # "free" ELSE sock[c] = "open"}]

Abstract == INSTANCE Service WITH life <- LifeOf, held <- HeldOf

\* Both programs serve and release their connections as Service says, in
\* whatever order the sweep, the joins and the two last steps of the workers
\* come: no connection is given to a second worker, or its arguments freed,
\* while the first one may still touch them or its socket is open
\* (Peer::start, Proxy::run and the end of both start_clients).
Serves == Abstract!Spec
=============================================================================
