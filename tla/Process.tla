------------------------------ MODULE Process ------------------------------
(***************************************************************************)
(* The life of one of the two programs, vsssrv (peer) or vsscli (proxy):    *)
(* main reads the configuration, constructs the object srv or cli, runs it  *)
(* and deletes it; the server has a console in between; SIGINT may arrive   *)
(* on any thread at any moment, and its handler stops and deletes the same  *)
(* object.  Nobody waits for the threads that serve the connections, whose  *)
(* service is that of module Service.                                       *)
(***************************************************************************)
EXTENDS Configuration

CONSTANTS
  Conns,       \* connections, and the threads of their workers
  Refused,     \* addresses gethostnameport refuses
  Commands,    \* what is typed at the console: the words of one read, in
               \* order; no word is the end of the input
  MaxEvents    \* bound: how often something is typed or a SIGINT arrives

ASSUME CommandsAssumption == Commands \subseteq Seq({"quit", "other"})
ASSUME BoundAssumption == MaxEvents \in Nat
ASSUME ConnsAssumption == Conns \cap {"main", "acceptor"} = {}

VARIABLES
  program,   \* "peer" or "proxy"
  main,      \* where the main thread is
  ptr,       \* the global srv or cli points to the object
  obj,       \* the object: "none", "alive" or "freed"
  okay,      \* Peer::okay, Proxy::okay
  user,      \* defuser or user: the name, "" for NULL
  soc,       \* socket_fd of the listening socket is not -1
  table,     \* the entries of the object's "threads"
  acceptor,  \* the thread of Peer::start runs
  tty,       \* what was typed and not yet read, one entry for each read
  typed,     \* how often something was typed
  told,      \* "quit" was typed (history)
  buf,       \* words that cin has read and not yet handed out
  deaf,      \* cin has seen the end of the input
  tear,      \* tear[x]: where x is in stop and the destructor
  left,      \* left[x]: the calls of stop still to come after this one
  lock,      \* who holds g_mutex: nobody, or one
  signals,   \* SIGINTs so far
  closes,    \* calls of close(2) on the listening socket (history)
  deletes,   \* deletes of the object (history)
  ended,     \* how the process ended: "no", "exit", "crash"
  life, held \* the service of the connections

startVars == <<ptr, obj, okay, user, soc>>
consoleVars == <<tty, typed, told, buf, deaf>>
tearVars == <<tear, left, closes, deletes>>
serviceVars == <<table, acceptor, life, held>>
vars == <<confVars, program, main, startVars, consoleVars, tearVars, lock,
          signals, ended, serviceVars>>

Service == INSTANCE Service

Threads == {"main", "acceptor"} \union Conns

\* Who runs code: the body of a thread, or a handler on top of it.
Body(t) == <<"body", t>>
Handler(t) == <<"handler", t>>
Handlers == {Handler(t) : t \in Threads}
Tearers == Handlers \union {Body("main")}

Idle == "idle"

Init ==
  /\ InitConf
  /\ program \in {"peer", "proxy"}
  /\ main = "constructing"
  /\ ptr = FALSE /\ obj = "none" /\ okay = FALSE /\ user = "" /\ soc = FALSE
  /\ table = {} /\ acceptor = FALSE
  /\ tty = <<>> /\ typed = 0 /\ told = FALSE /\ buf = <<>> /\ deaf = FALSE
  /\ tear = [x \in Tearers |-> Idle] /\ left = [x \in Tearers |-> 0]
  /\ closes = 0 /\ deletes = 0
  /\ lock = {}
  /\ signals = 0 /\ ended = "no"
  /\ Service!Init

-----------------------------------------------------------------------------
(* Threads and what holds them up *)

InHandler(t) == tear[Handler(t)] # Idle

\* The body of t is neither interrupted nor writing a line of the log.
Free(t) == ~InHandler(t) /\ Body(t) \notin lock

\* x may take its next step.
Runs(x) == ended = "no" /\ (x \in Handlers \/ ~InHandler(x[2]))

Serving(c) == life[c] = "serving"

Alive(t) ==
  \/ t = "main"
  \/ t = "acceptor" /\ acceptor
  \/ t \in Conns /\ life[t] \in {"serving", "ending"}

\* The thread that accepts.
Acceptor == IF program = "peer" THEN "acceptor" ELSE "main"
Accepting == IF program = "peer" THEN acceptor ELSE main = "serving"

-----------------------------------------------------------------------------
(* Start: the constructors and run *)

Usable(addr) == addr # "" /\ addr \notin Refused

\* Peer::update_userlist for every entry of the section "user".
Listed(u) == u # "" /\ Get("user", u) # ""

\* Mutant of ProxyStarts: a default user without an entry will do.
ProxyStartsAnyway(opened, up) ==
  LET default == Get("default", "user")
  IN
    /\ opened => Usable(Get("master", "local"))
    /\ okay' = (up /\ Usable(Get("master", "server")) /\ default # "")
    /\ user' = IF Listed(default) THEN default ELSE ""

\* Peer::Peer.  opened: the server's socket was opened; up: it listens, and
\* the reply that names its address could be assembled.  set_default leaves
\* defuser NULL when the default user is not listed; the flags do not tell.
PeerStarts(opened, up) ==
  LET server == Get("master", "server")
      default == Get("default", "user")
  IN
    /\ opened => Usable(server) /\ default # ""
    /\ okay' = up
    /\ user' = IF server # "" /\ Listed(default) THEN default ELSE ""

\* Proxy::Proxy needs the server's address, a local one it can listen on, and
\* a default user that is listed.
ProxyStarts(opened, up) ==
  LET default == Get("default", "user")
  IN
    /\ opened => Usable(Get("master", "local"))
    /\ okay' = (up /\ Usable(Get("master", "server")) /\ Listed(default))
    /\ user' = IF Listed(default) THEN default ELSE ""

\* main assigns the object to srv or cli; until then a SIGINT is ignored.
Construct ==
  /\ main = "constructing" /\ ~reading
  /\ \E opened, up \in BOOLEAN :
       /\ up => opened
       /\ soc' = opened
       /\ IF program = "peer" THEN PeerStarts(opened, up)
                              ELSE ProxyStarts(opened, up)
  /\ ptr' = TRUE /\ obj' = "alive"
  /\ main' = "run"
  /\ UNCHANGED <<confVars, program, consoleVars, tearVars, lock, signals,
                 ended, serviceVars>>

\* x starts to tear the object down, with n calls of stop before the one that
\* the destructor makes.
TearDown(x, n) ==
  /\ tear' = [tear EXCEPT ![x] = "kill"]
  /\ left' = [left EXCEPT ![x] = n]
  /\ UNCHANGED <<closes, deletes>>

\* run.  A Peer starts the thread that accepts, which may fail, and opens its
\* console all the same; a Proxy accepts on the main thread.  What could not
\* be initialized does not run and main deletes it at once.
Run ==
  /\ main = "run" /\ ended = "no" /\ Free("main")
  /\ IF ~okay
       THEN /\ main' = "deleting" /\ TearDown(Body("main"), 0)
            /\ UNCHANGED <<acceptor, table>>
     ELSE IF program = "peer"
       THEN /\ main' = "console"
            /\ acceptor' \in BOOLEAN
            /\ table' = IF acceptor' THEN {"acceptor"} ELSE {}
            /\ UNCHANGED tearVars
       ELSE /\ main' = "serving"
            /\ UNCHANGED <<acceptor, table, tearVars>>
  /\ UNCHANGED <<confVars, program, startVars, consoleVars, lock, signals,
                 ended, life, held>>

-----------------------------------------------------------------------------
(* Peer::enter_loop *)

\* Somebody types, or closes the input.
Type(words) ==
  /\ main = "console" /\ ended = "no"
  /\ typed + signals < MaxEvents
  /\ typed' = typed + 1
  /\ told' = (told \/ \E i \in 1 .. Len(words) : words[i] = "quit")
  /\ tty' = Append(tty, words)
  /\ UNCHANGED <<confVars, program, main, startVars, buf, deaf, tearVars, lock,
                 signals, ended, serviceVars>>

\* Mutant of ReadCommand: the end of the input is taken for a "quit".
EndIsQuit ==
  /\ main = "console" /\ ended = "no" /\ Free("main")
  /\ tty # <<>>
  /\ LET words == IF buf = <<>> THEN Head(tty) ELSE buf IN
       /\ tty' = IF buf = <<>> THEN Tail(tty) ELSE tty
       /\ buf' = IF words = <<>> THEN <<>> ELSE Tail(words)
       /\ main' = IF words = <<>> \/ Head(words) = "quit" THEN "kill" ELSE main
  /\ UNCHANGED deaf
  /\ UNCHANGED <<confVars, program, startVars, typed, told, tearVars, lock, signals,
                 ended, serviceVars>>

\* select sees input that nobody has read, and "cin >> command" takes the next
\* word, from its own buffer first, which select knows nothing of.  At the end
\* of the input cin fails for good: select goes on to return at once and no
\* command is read any more.
ReadCommand ==
  /\ main = "console" /\ ended = "no" /\ Free("main")
  /\ tty # <<>> /\ ~deaf
  /\ LET words == IF buf = <<>> THEN Head(tty) ELSE buf IN
       /\ tty' = IF buf = <<>> THEN Tail(tty) ELSE tty
       /\ IF words = <<>>
            THEN deaf' = TRUE /\ UNCHANGED <<buf, main>>
            ELSE /\ buf' = Tail(words)
                 /\ main' = IF Head(words) = "quit" THEN "kill" ELSE main
                 /\ UNCHANGED deaf
  /\ UNCHANGED <<confVars, program, startVars, typed, told, tearVars, lock, signals,
                 ended, serviceVars>>

\* Mutant of KillThreads: run waits for the thread that accepts, as the comment
\* in it says.
JoinThreads ==
  /\ main = "kill" /\ ended = "no" /\ Free("main")
  /\ ~acceptor
  /\ table' = {}
  /\ main' = "deleting" /\ TearDown(Body("main"), 0)
  /\ UNCHANGED <<confVars, program, startVars, consoleVars, lock, signals,
                 ended, acceptor, life, held>>

\* The end of Peer::run, and main's "delete srv".  kill_threads sends every
\* thread the signal 0, which does nothing, and erases its entry.
KillThreads ==
  /\ main = "kill" /\ ended = "no" /\ Free("main")
  /\ table' = {}
  /\ main' = "deleting" /\ TearDown(Body("main"), 0)
  /\ UNCHANGED <<confVars, program, startVars, consoleVars, lock, signals,
                 ended, acceptor, life, held>>

-----------------------------------------------------------------------------
(* stop and the destructor, by main or by the handler of a SIGINT *)

At(x, l) == tear[x] = l /\ Runs(x)
GoOn(x, l) == tear' = [tear EXCEPT ![x] = l]

\* stop returns at once, and the destructor leaves it out, when the object is
\* not okay; in an object that was deleted the flag may have any value.
Kill(x) ==
  /\ At(x, "kill")
  /\ \/ /\ ~okay \/ obj = "freed"
        /\ GoOn(x, "free") /\ UNCHANGED table
     \/ okay /\ GoOn(x, "close") /\ table' = {}
  /\ UNCHANGED <<confVars, program, main, startVars, consoleVars, left, closes,
                 deletes, lock, signals, ended, acceptor, life, held>>

\* Mutant of Forget: the descriptor is not set to -1.
NotForgotten(x) ==
  /\ At(x, "forget")
  /\ GoOn(x, "lock")
  /\ UNCHANGED <<confVars, program, main, startVars, consoleVars, left, closes,
                 deletes, lock, signals, ended, serviceVars>>

\* Socks::close: the test for -1 and close(2), and then the assignment of -1.
Close(x) ==
  /\ At(x, "close")
  /\ IF soc THEN GoOn(x, "forget") /\ closes' = closes + 1
            ELSE GoOn(x, "lock") /\ UNCHANGED closes
  /\ UNCHANGED <<confVars, program, main, startVars, consoleVars, left,
                 deletes, lock, signals, ended, serviceVars>>

Forget(x) ==
  /\ At(x, "forget")
  /\ soc' = FALSE
  /\ GoOn(x, "lock")
  /\ UNCHANGED <<confVars, program, main, ptr, obj, okay, user, consoleVars,
                 left, closes, deletes, lock, signals, ended, serviceVars>>

\* The line of the log that stop ends with.
Lock(x) ==
  /\ At(x, "lock")
  /\ lock = {} /\ lock' = {x}
  /\ GoOn(x, "unlock")
  /\ UNCHANGED <<confVars, program, main, startVars, consoleVars, left, closes,
                 deletes, signals, ended, serviceVars>>

\* Mutant of Unlock: the calls of stop are not counted.
StopsForever(x) ==
  /\ At(x, "unlock")
  /\ lock' = {}
  /\ GoOn(x, "kill") /\ left' = [left EXCEPT ![x] = @ - 1]
  /\ UNCHANGED <<confVars, program, main, startVars, consoleVars, closes,
                 deletes, signals, ended, serviceVars>>

\* Mutant of Unlock: the mutex is not unlocked.
StaysLocked(x) ==
  /\ At(x, "unlock")
  /\ IF left[x] > 0
       THEN GoOn(x, "kill") /\ left' = [left EXCEPT ![x] = @ - 1]
       ELSE GoOn(x, "free") /\ UNCHANGED left
  /\ UNCHANGED <<confVars, program, main, startVars, consoleVars, closes,
                 deletes, lock, signals, ended, serviceVars>>

\* The handler calls stop, and the destructor calls it again.
Unlock(x) ==
  /\ At(x, "unlock")
  /\ lock' = {}
  /\ IF left[x] > 0
       THEN GoOn(x, "kill") /\ left' = [left EXCEPT ![x] = @ - 1]
       ELSE GoOn(x, "free") /\ UNCHANGED left
  /\ UNCHANGED <<confVars, program, main, startVars, consoleVars, closes,
                 deletes, signals, ended, serviceVars>>

\* The users and the object are freed.
Delete(x) ==
  /\ At(x, "free")
  /\ obj' = "freed" /\ deletes' = deletes + 1
  /\ GoOn(x, "freed")
  /\ UNCHANGED <<confVars, program, main, ptr, okay, user, soc, consoleVars,
                 left, closes, lock, signals, ended, serviceVars>>

SetNull(x) ==
  /\ x \in Handlers /\ At(x, "freed")
  /\ ptr' = FALSE
  /\ GoOn(x, "exit")
  /\ UNCHANGED <<confVars, program, main, obj, okay, user, soc, consoleVars,
                 left, closes, deletes, lock, signals, ended, serviceVars>>

\* exit in the handler, or the return of main.
Exit(x) ==
  /\ At(x, IF x \in Handlers THEN "exit" ELSE "freed")
  /\ ended' = "exit"
  /\ UNCHANGED <<confVars, program, main, startVars, consoleVars, tearVars,
                 lock, signals, serviceVars>>

\* A SIGINT is delivered to a thread that is not handling one already.  The
\* handler does nothing while the pointer is NULL.
Interrupt(t) ==
  /\ ended = "no" /\ Alive(t) /\ ~InHandler(t)
  /\ typed + signals < MaxEvents
  /\ signals' = signals + 1
  /\ IF ptr THEN TearDown(Handler(t), 1) ELSE UNCHANGED tearVars
  /\ UNCHANGED <<confVars, program, main, startVars, consoleVars, lock, ended,
                 serviceVars>>

-----------------------------------------------------------------------------
(* The threads that serve *)

\* A worker writes a line of the log, or the proxy that of an accept.
LogsOf(t) ==
  \/ t \in Conns /\ Serving(t)
  \/ t = "main" /\ main = "serving"

LogBegins(t) ==
  /\ ended = "no" /\ Free(t) /\ LogsOf(t)
  /\ lock = {} /\ lock' = {Body(t)}
  /\ UNCHANGED <<confVars, program, main, startVars, consoleVars, tearVars,
                 signals, ended, serviceVars>>

LogEnds(t) ==
  /\ ended = "no" /\ ~InHandler(t)
  /\ Body(t) \in lock /\ lock' = {}
  /\ UNCHANGED <<confVars, program, main, startVars, consoleVars, tearVars,
                 signals, ended, serviceVars>>

\* A connection is accepted; Proxy::run enters its worker in the object's own
\* table, Peer::start in one of its own.
Admit(c) ==
  /\ ended = "no" /\ Accepting /\ Free(Acceptor)
  /\ soc /\ (program = "peer" => user # "")
  /\ \/ /\ Service!Admit(c)
        /\ table' = IF program = "peer" THEN table ELSE table \union {c}
     \/ Service!Lose(c) /\ UNCHANGED table
  /\ UNCHANGED <<confVars, program, main, startVars, consoleVars, tearVars,
                 lock, signals, ended, acceptor>>

\* The worker's own steps.
Serve(c) ==
  /\ ended = "no" /\ Free(c)
  /\ Service!Finish(c) \/ Service!Close(c) \/ Service!End(c)
  /\ UNCHANGED <<confVars, program, main, startVars, consoleVars, tearVars,
                 lock, signals, ended, table, acceptor>>

\* The sweep finds only the workers that still have an entry.
Release(c) ==
  /\ ended = "no" /\ Accepting /\ Free(Acceptor)
  /\ program = "proxy" => c \in table
  /\ Service!Release(c)
  /\ table' = table \ {c}
  /\ UNCHANGED <<confVars, program, main, startVars, consoleVars, tearVars,
                 lock, signals, ended, acceptor>>

\* Peer::start copies the default user for every connection, NULL or not.
NoDefaultUser ==
  Accepting /\ Free(Acceptor) /\ program = "peer" /\ soc /\ user = ""

\* Who uses the object, or the arguments on the stack of Peer::run, although
\* it was deleted, or run returned.
UsesFreed(t) ==
  \/ obj = "freed" /\ t \in Conns /\ Serving(t) /\ Free(t)
  \/ obj = "freed" /\ t = Acceptor /\ Accepting /\ Free(t)
  \/ t = "acceptor" /\ acceptor /\ main = "deleting" /\ Free(t)
  \/ obj = "freed" /\ \E x \in {Handler(t), Body(t)} \cap Tearers :
       tear[x] \in {"kill", "close", "forget", "free"} /\ Runs(x)

\* What such a use does is up to the build; it may well end the process.
Crash ==
  /\ ended = "no"
  /\ NoDefaultUser \/ \E t \in Threads : UsesFreed(t)
  /\ ended' = "crash"
  /\ UNCHANGED <<confVars, program, main, startVars, consoleVars, tearVars,
                 lock, signals, serviceVars>>

-----------------------------------------------------------------------------
Reads ==
  /\ OpenConf
  /\ UNCHANGED <<program, main, startVars, consoleVars, tearVars, lock,
                 signals, ended, serviceVars>>

MainStep == Reads \/ Construct \/ Run \/ ReadCommand \/ KillThreads

TearStep(x) ==
  \/ Kill(x) \/ Close(x) \/ Forget(x) \/ Unlock(x) \/ Delete(x)
  \/ SetNull(x) \/ Exit(x)

Connection(c) == Admit(c) \/ Serve(c) \/ Release(c)

Next ==
  \/ MainStep
  \/ \E x \in Tearers : TearStep(x) \/ Lock(x)
  \/ \E t \in Threads : Interrupt(t) \/ LogBegins(t) \/ LogEnds(t)
  \/ \E c \in Conns : Connection(c)
  \/ \E words \in Commands : Type(words)
  \/ Crash

Spec == Init /\ [][Next]_vars

-----------------------------------------------------------------------------
(* Fairness: main and whoever tears the object down go on when they can, a   *)
(* line of the log gets written, and a thread that waits for the mutex gets  *)
(* it if it is unlocked again and again.  Nobody is assumed to type, to      *)
(* connect, to end a session or to send a SIGINT.                            *)

OwnStep(t) ==
  \/ TearStep(Handler(t)) \/ LogEnds(t)
  \/ t = "main" /\ (MainStep \/ TearStep(Body(t)))

FairSpec ==
  /\ Spec
  /\ \A t \in Threads : WF_vars(OwnStep(t))
  /\ \A x \in Tearers : SF_vars(Lock(x))

-----------------------------------------------------------------------------
(* Properties *)

\* The variables of the process have their types.
TypeOK ==
  /\ program \in {"peer", "proxy"}
  /\ main \in {"constructing", "run", "console", "kill", "serving", "deleting"}
  /\ ptr \in BOOLEAN /\ obj \in {"none", "alive", "freed"}
  /\ okay \in BOOLEAN /\ user \in Names \union {""} /\ soc \in BOOLEAN
  /\ table \subseteq Threads /\ acceptor \in BOOLEAN
  /\ tty \in Seq(Commands) /\ typed \in 0 .. MaxEvents /\ told \in BOOLEAN
  /\ buf \in Seq({"quit", "other"}) /\ deaf \in BOOLEAN
  /\ tear \in [Tearers -> {Idle, "kill", "close", "forget", "lock", "unlock",
                           "free", "freed", "exit"}]
  /\ left \in [Tearers -> 0 .. 1]
  /\ lock \subseteq Tearers \union {Body(t) : t \in Threads}
  /\ signals \in 0 .. MaxEvents
  /\ closes \in Nat /\ deletes \in Nat
  /\ ended \in {"no", "exit", "crash"}
  /\ Service!TypeOK

\* What the program starts with is what its file says, read as a whole: a
\* usable address, a default user, and for the proxy the entry of that user;
\* a user it has is the default one and is listed.
StartsAsConfigured ==
  LET Said(s, n) == {v \in Values : Says(file, Key(s, n), v) /\ v # ""}
      addresses == IF program = "peer" THEN {"server"} ELSE {"server", "local"}
  IN
    /\ okay => /\ \A a \in addresses : \E v \in Said("master", a) : Usable(v)
               /\ Said("default", "user") # {}
               /\ program = "proxy" => user # ""
    /\ user # "" => user \in Said("default", "user") /\ Said("user", user) # {}

\* Those who have begun to tear the object down.
Tearing == {x \in Tearers : tear[x] # Idle}

\* stop runs two times in every end by SIGINT, and a close of a descriptor
\* closed before could hit one that a worker was given since.  As long as one
\* thread only tears the object down, the listening socket is closed and the
\* object deleted at most once, in this order, and no process ends by itself
\* with the object alive.
TornDownOnce ==
  /\ (\A x, y \in Tearing : x = y) =>
       /\ closes <= 1 /\ deletes <= 1
       /\ deletes > 0 /\ okay => closes = 1 /\ ~soc
  /\ ended = "exit" => deletes > 0

\* The process ends by itself only when it was told to or has nothing to run,
\* and dies only where the code leaves it no choice: without a default user
\* to copy, or with threads left that nobody waited for.
EndsForAReason ==
  /\ ended = "exit" => signals > 0 \/ told \/ ~okay
  /\ ended = "crash" =>
       \/ program = "peer" /\ user = ""
       \/ Tearing # {}

\* A handler that interrupted its own thread in the middle of a line of the
\* log waits for a mutex that only this thread can unlock.
Stuck(t) == InHandler(t) /\ Body(t) \in lock

\* A SIGINT ends the process, whatever its threads are doing, unless it hits
\* one in the middle of a line of the log.
SigintEnds ==
  (\E t \in Threads : InHandler(t)) ~>
     (ended # "no" \/ \E t \in Threads : Stuck(t))

\* A "quit" that is the first word of what one read gets, with no end of the
\* input in front, is found and ends the server, however many words are left
\* over from earlier reads; but for a SIGINT that gets stuck.
QuitEnds ==
  (/\ main = "console" /\ ~deaf
   /\ \E i \in 1 .. Len(tty) :
        /\ tty[i] # <<>> /\ Head(tty[i]) = "quit"
        /\ \A j \in 1 .. i - 1 : tty[j] # <<>>)
     ~> (ended # "no" \/ \E t \in Threads : Stuck(t))

-----------------------------------------------------------------------------
(* A claim of the source that the code does not keep *)

\* peer.cpp:164: run waits for its child threads.  So when it has returned
\* the thread that accepts is gone and no worker is left.
ChildrenEnded ==
  main = "deleting" => \A t \in Threads \ {"main"} : ~Alive(t)
=============================================================================
