------------------------------ MODULE Service ------------------------------
(***************************************************************************)
(* What either program promises about the connections it accepts, whatever *)
(* its threads, its table of them and its protocol look like: a connection *)
(* is served by one worker, its socket is closed by the end of the session *)
(* and not before, and what the worker uses is taken from it only once it  *)
(* is past its last access.  Acceptor and Session implement it, and the    *)
(* life of the whole process (module Process) is built on it.              *)
(***************************************************************************)
CONSTANT
  Conns       \* connections

VARIABLES
  life,       \* life[c]: how far the service of c is
  held        \* held[c]: what of c is allocated or open

vars == <<life, held>>

\* lost: accepted, but its worker could not be created; ended: the worker is
\* past its last access.
Lives == {"none", "serving", "ending", "ended", "lost"}
Resources == {"args", "socket"}

TypeOK ==
  /\ life \in [Conns -> Lives]
  /\ held \in [Conns -> SUBSET Resources]

Init ==
  /\ life = [c \in Conns |-> "none"]
  /\ held = [c \in Conns |-> {}]

Moves(c, from, to) ==
  /\ life[c] = from
  /\ life' = [life EXCEPT ![c] = to]

Keeps(c, r) == held' = [held EXCEPT ![c] = r]

\* The connection is accepted and given to a new worker.
Admit(c) == Moves(c, "none", "serving") /\ Keeps(c, Resources)

\* The worker cannot be created; nobody cares for the connection any more.
Lose(c) == Moves(c, "none", "lost") /\ Keeps(c, Resources)

\* The session is over; its socket may be closed in the same step.
Finish(c) ==
  /\ Moves(c, "serving", "ending")
  /\ \E r \in {held[c], held[c] \ {"socket"}} : Keeps(c, r)

\* The socket is closed while other steps of the end are still to come.
Close(c) == Moves(c, "ending", "ending") /\ Keeps(c, held[c] \ {"socket"})

\* The worker's last access; by now the socket is closed.
End(c) == Moves(c, "ending", "ended") /\ Keeps(c, held[c] \ {"socket"})

\* What is left is freed, and the connection may be accepted again.
Release(c) == Moves(c, "ended", "none") /\ Keeps(c, {})

Next ==
  \E c \in Conns :
    Admit(c) \/ Lose(c) \/ Finish(c) \/ Close(c) \/ End(c) \/ Release(c)

Spec == Init /\ [][Next]_vars
=============================================================================
