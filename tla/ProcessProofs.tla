--------------------------- MODULE ProcessProofs ---------------------------
(* Proofs about Configuration and Process: what open_conf makes of a file is *)
(* what the file says, both programs start with that, and whoever tears the  *)
(* object down does so once and in order, for every file, every number of    *)
(* connections and every number of SIGINTs.                                  *)
EXTENDS Process, TLAPS

-----------------------------------------------------------------------------
(* What open_conf has read *)

\* The sections and the keys of the map.
AllSections == (Sections \ {""}) \union {DEFSEC}
Keys == AllSections \X Names

\* The lines that open_conf has read and made sense of.
Done == {i \in 1 .. linesread : file[i].kind # "long"}

\* The variables have their types; a line that is too long is the last one
\* that is read, and what is read otherwise is the whole file.
ConfTypeOK ==
  /\ file \in Files
  /\ linesread \in 0 .. Len(file)
  /\ reading \in BOOLEAN
  /\ sec \in Sections \union {DEFSEC}
  /\ DOMAIN sc_map \subseteq Keys
  /\ \A k \in DOMAIN sc_map : sc_map[k] \in Values

LongIsLast ==
  /\ \A i \in 1 .. linesread - 1 : file[i].kind # "long"
  /\ reading /\ linesread > 0 => file[linesread].kind # "long"
  /\ ~reading => \/ linesread = Len(file)
                 \/ linesread > 0 /\ file[linesread].kind = "long"

\* sec is the section of the line that is read next.
SecInv == reading => InSection(file, linesread + 1, SectionOf(sec))

\* The map holds what the lines read so far say.
MapInv ==
  /\ \A k \in DOMAIN sc_map :
       \E i \in Done : /\ Gives(file, i, k) /\ file[i].value = sc_map[k]
                       /\ \A j \in 1 .. i - 1 : ~Gives(file, j, k)
  /\ \A i \in Done :
       file[i].kind = "pair" => \E k \in DOMAIN sc_map : Gives(file, i, k)

ConfInv == ConfTypeOK /\ LongIsLast /\ SecInv /\ MapInv

-----------------------------------------------------------------------------
(* Sections *)

\* A line of a file has the parts of a line.
LEMMA LineTypes ==
  ASSUME NEW f \in Files
  PROVE  /\ Len(f) \in Nat
         /\ \A i \in 1 .. Len(f) :
              /\ f[i].kind \in {"section", "pair", "other", "long"}
              /\ f[i].sec \in Sections /\ f[i].name \in Names
              /\ f[i].value \in Values
<1>1. f \in Seq(LineType)
  BY FilesAssumption
<1>2. \A i \in 1 .. Len(f) : f[i] \in LineType
  BY <1>1
<1> QED
  BY <1>1, <1>2 DEF LineType

\* A line is in one section only.
LEMMA OneSection ==
  ASSUME NEW f, NEW i \in Nat, NEW s, NEW t,
         InSection(f, i, s), InSection(f, i, t)
  PROVE  s = t
<1>1. CASE \A j \in 1 .. i - 1 : f[j].kind # "section"
  BY <1>1 DEF InSection
<1>2. CASE \E j \in 1 .. i - 1 : f[j].kind = "section"
  <2>1. PICK j \in 1 .. i - 1 :
          /\ f[j].kind = "section" /\ SectionOf(f[j].sec) = s
          /\ \A k \in j + 1 .. i - 1 : f[k].kind # "section"
    BY <1>2 DEF InSection
  <2>2. PICK h \in 1 .. i - 1 :
          /\ f[h].kind = "section" /\ SectionOf(f[h].sec) = t
          /\ \A k \in h + 1 .. i - 1 : f[k].kind # "section"
    BY <1>2 DEF InSection
  <2>3. ~(j < h) /\ ~(h < j)
    BY <2>1, <2>2
  <2>4. j = h
    BY <2>3
  <2> QED
    BY <2>1, <2>2, <2>4
<1> QED
  BY <1>1, <1>2

\* The section of a line is that of the one in front of it, unless that one
\* opens a section.
LEMMA NextSection ==
  ASSUME NEW f, NEW i \in Nat \ {0}, NEW s,
         IF f[i].kind = "section" THEN s = SectionOf(f[i].sec)
                                  ELSE InSection(f, i, s)
  PROVE  InSection(f, i + 1, s)
<1>1. CASE f[i].kind = "section"
  BY <1>1 DEF InSection
<1>2. CASE f[i].kind # "section"
  <2>1. InSection(f, i, s)
    BY <1>2
  <2>2. CASE s = DEFSEC /\ \A j \in 1 .. i - 1 : f[j].kind # "section"
    <3>1. \A j \in 1 .. (i + 1) - 1 : f[j].kind # "section"
      BY <1>2, <2>2
    <3> QED
      BY <2>2, <3>1 DEF InSection
  <2>3. CASE \E j \in 1 .. i - 1 :
               /\ f[j].kind = "section" /\ SectionOf(f[j].sec) = s
               /\ \A k \in j + 1 .. i - 1 : f[k].kind # "section"
    <3>1. PICK j \in 1 .. i - 1 :
            /\ f[j].kind = "section" /\ SectionOf(f[j].sec) = s
            /\ \A k \in j + 1 .. i - 1 : f[k].kind # "section"
      BY <2>3
    <3>2. j \in 1 .. (i + 1) - 1 /\ \A k \in j + 1 .. (i + 1) - 1 : f[k].kind # "section"
      BY <1>2, <3>1
    <3> QED
      BY <3>1, <3>2 DEF InSection
  <2> QED
    BY <2>1, <2>2, <2>3 DEF InSection
<1> QED
  BY <1>1, <1>2

-----------------------------------------------------------------------------
(* The invariant *)

LEMMA ConfInit == InitConf => ConfInv
<1> SUFFICES ASSUME InitConf PROVE ConfInv
  OBVIOUS
<1>1. Len(file) \in Nat
  BY LineTypes DEF InitConf
<1>2. DOMAIN sc_map = {} /\ Done = {}
  BY DEF InitConf, Done
<1>3. InSection(file, linesread + 1, SectionOf(sec))
  BY DEF InitConf, InSection, SectionOf, DEFSEC
<1> QED
  BY <1>1, <1>2, <1>3 DEF InitConf, ConfInv, ConfTypeOK, LongIsLast, SecInv, MapInv

\* The end of the file changes nothing but reading.
LEMMA EndOfFileKeeps == ConfInv /\ EndOfFile => ConfInv'
<1> SUFFICES ASSUME ConfInv, EndOfFile PROVE ConfInv'
  OBVIOUS
<1>1. /\ linesread = Len(file) /\ reading' = FALSE
      /\ UNCHANGED <<file, linesread, sec, sc_map>>
  BY DEF EndOfFile
<1>2. ConfTypeOK'
  BY <1>1 DEF ConfInv, ConfTypeOK
<1>3. LongIsLast'
  BY <1>1 DEF ConfInv, LongIsLast
<1>4. SecInv'
  BY <1>1 DEF SecInv
<1>5. MapInv'
  BY <1>1 DEF ConfInv, MapInv, Done
<1> QED
  BY <1>2, <1>3, <1>4, <1>5 DEF ConfInv

\* The key of a pair is one of the map's.
LEMMA KeyTypes ==
  ASSUME NEW s \in Sections \union {DEFSEC}, NEW n \in Names
  PROVE  Key(s, n) \in Keys /\ Key(s, n)[1] = SectionOf(s) /\ Key(s, n)[2] = n
BY DEF Key, Keys, AllSections, SectionOf, DEFSEC

\* One more line.
LEMMA ReadLineKeeps == ConfInv /\ ReadLine => ConfInv'
<1> SUFFICES ASSUME ConfInv, ReadLine PROVE ConfInv'
  OBVIOUS
<1> DEFINE i == linesread + 1
           l == file[i]
<1>1. /\ file \in Files /\ file' = file /\ reading
      /\ linesread \in Nat /\ i \in 1 .. Len(file) /\ Len(file) \in Nat
      /\ linesread' = i
      /\ reading' = (l.kind # "long")
      /\ sec' = IF l.kind = "section" THEN l.sec ELSE sec
      /\ sc_map' = IF l.kind = "pair" THEN Added(sc_map, Key(sec, l.name), l.value)
                                      ELSE sc_map
  BY LineTypes DEF ReadLine, ConfInv, ConfTypeOK
<1>2. /\ l.kind \in {"section", "pair", "other", "long"}
      /\ l.sec \in Sections /\ l.name \in Names /\ l.value \in Values
  BY <1>1, LineTypes
<1>3. \A j \in 1 .. i - 1 : file[j].kind # "long"
  BY <1>1 DEF ConfInv, LongIsLast
<1>4. InSection(file, i, SectionOf(sec))
  BY <1>1 DEF ConfInv, SecInv
<1>5. /\ Done = 1 .. i - 1
      /\ Done' = IF l.kind = "long" THEN Done ELSE Done \union {i}
  BY <1>1, <1>3 DEF Done
<1> DEFINE key == Key(sec, l.name)
<1>6. key \in Keys /\ key[1] = SectionOf(sec) /\ key[2] = l.name
  BY <1>2, KeyTypes DEF ConfInv, ConfTypeOK
<1>7. l.kind = "pair" => Gives(file, i, key)
  BY <1>4, <1>6 DEF Gives
<1>8. \A k \in DOMAIN sc_map, j \in Nat :
        Gives(file, j, k) /\ Gives(file, j, key) => k = key
  <2> SUFFICES ASSUME NEW k \in DOMAIN sc_map, NEW j \in Nat,
                      Gives(file, j, k), Gives(file, j, key)
               PROVE  k = key
    OBVIOUS
  <2>1. k[1] = key[1] /\ k[2] = key[2]
    BY OneSection DEF Gives
  <2>2. k \in Keys
    BY DEF ConfInv, ConfTypeOK
  <2> QED
    BY <1>6, <2>1, <2>2 DEF Keys
<1> HIDE DEF i, l, key
<1>9. ConfTypeOK'
  <2>1. CASE l.kind = "pair"
    <3>1. sc_map' = Added(sc_map, key, l.value)
      BY <1>1, <2>1 DEF key, l
    <3>2. DOMAIN sc_map' = DOMAIN sc_map \union {key}
      BY <3>1 DEF Added
    <3>3. \A k \in DOMAIN sc_map' : sc_map'[k] \in Values
      BY <1>2, <3>1, <3>2 DEF Added, ConfInv, ConfTypeOK
    <3> QED
      BY <1>1, <1>2, <1>6, <3>2, <3>3 DEF ConfInv, ConfTypeOK
  <2>2. CASE l.kind # "pair"
    BY <1>1, <1>2, <2>2 DEF ConfInv, ConfTypeOK
  <2> QED
    BY <2>1, <2>2
<1>10. LongIsLast'
  <2>1. reading' => file[i].kind # "long"
    BY <1>1 DEF l
  <2>2. ~reading' => file[i].kind = "long"
    BY <1>1 DEF l
  <2>3. i \in Nat /\ i > 0 /\ linesread' = i /\ file' = file
    BY <1>1 DEF i
  <2> HIDE DEF i
  <2> QED
    BY <1>3, <2>1, <2>2, <2>3 DEF LongIsLast
<1>11. SecInv'
  <2>1. l.kind # "section" => InSection(file, i, SectionOf(sec'))
    BY <1>1, <1>4
  <2>2. InSection(file, i + 1, SectionOf(sec'))
    BY <1>1, <2>1, NextSection DEF l
  <2> QED
    BY <1>1, <2>2 DEF SecInv
<1>12. MapInv'
  <2>1. CASE l.kind = "pair"
    <3>1. /\ DOMAIN sc_map' = DOMAIN sc_map \union {key}
          /\ \A k \in DOMAIN sc_map : sc_map'[k] = sc_map[k]
          /\ key \notin DOMAIN sc_map => sc_map'[key] = l.value
      BY <1>1, <2>1 DEF Added, key, l
    <3>2. Done' = Done \union {i}
      BY <1>5, <2>1
    <3>3. ASSUME NEW k \in DOMAIN sc_map'
          PROVE  \E n \in Done' : /\ Gives(file, n, k) /\ file[n].value = sc_map'[k]
                                  /\ \A j \in 1 .. n - 1 : ~Gives(file, j, k)
      <4>1. CASE k \in DOMAIN sc_map
        BY <3>1, <3>2, <4>1 DEF ConfInv, MapInv
      <4>2. CASE k \notin DOMAIN sc_map
        <5>1. k = key /\ sc_map'[k] = l.value
          BY <3>1, <4>2
        <5>2. ASSUME NEW j \in 1 .. i - 1, Gives(file, j, key) PROVE FALSE
          <6>1. PICK m \in DOMAIN sc_map : Gives(file, j, m)
            BY <1>5, <5>2 DEF ConfInv, MapInv, Gives
          <6>2. m = key
            BY <1>8, <5>2, <6>1
          <6> QED
            BY <4>2, <5>1, <6>1, <6>2
        <5> QED
          BY <1>7, <2>1, <3>2, <5>1, <5>2 DEF l
      <4> QED
        BY <4>1, <4>2
    <3>4. ASSUME NEW n \in Done', file[n].kind = "pair"
          PROVE  \E k \in DOMAIN sc_map' : Gives(file, n, k)
      <4>1. CASE n = i
        BY <1>7, <2>1, <3>1, <4>1
      <4>2. CASE n \in Done
        BY <3>1, <3>4, <4>2 DEF ConfInv, MapInv
      <4> QED
        BY <3>2, <4>1, <4>2
    <3> QED
      BY <1>1, <3>3, <3>4 DEF MapInv
  <2>2. CASE l.kind # "pair"
    <3>1. sc_map' = sc_map /\ Done \subseteq Done'
          /\ \A n \in Done' : n \in Done \/ file[n].kind # "pair"
      BY <1>1, <1>5, <2>2 DEF l
    <3>2. ASSUME NEW k \in DOMAIN sc_map
          PROVE  \E n \in Done' : /\ Gives(file, n, k) /\ file[n].value = sc_map[k]
                                  /\ \A j \in 1 .. n - 1 : ~Gives(file, j, k)
      BY <3>1 DEF ConfInv, MapInv
    <3>3. ASSUME NEW n \in Done', file[n].kind = "pair"
          PROVE  \E k \in DOMAIN sc_map : Gives(file, n, k)
      BY <3>1, <3>3 DEF ConfInv, MapInv
    <3> QED
      BY <1>1, <3>1, <3>2, <3>3 DEF MapInv
  <2> QED
    BY <2>1, <2>2
<1> QED
  BY <1>9, <1>10, <1>11, <1>12 DEF ConfInv

\* A step of anything else keeps the invariant too.
LEMMA ConfKeeps == ConfInv /\ UNCHANGED confVars => ConfInv'
BY DEF confVars, ConfInv, ConfTypeOK, LongIsLast, SecInv, MapInv, Done

\* Once the file is read, the lines made sense of are the legible ones.
LEMMA ConfInvImplies == ConfInv => MapIsFile
<1> SUFFICES ASSUME ConfInv, ~reading PROVE MapIsFile
  BY DEF MapIsFile
<1>1. file \in Files /\ Len(file) \in Nat /\ linesread \in 0 .. Len(file)
  BY LineTypes DEF ConfInv, ConfTypeOK
<1>2. Done = Legible(file)
  BY <1>1 DEF Done, Legible, ConfInv, LongIsLast
<1> QED
  BY <1>2 DEF MapIsFile, ConfInv, MapInv, Says

-----------------------------------------------------------------------------
(* The configuration of a process *)

\* Everything but the configuration and what was read from the console.
others == <<program, main, startVars, consoleVars, tearVars, lock, signals,
            ended, serviceVars>>

\* Only OpenConf touches the variables of Configuration.
LEMMA ConfSteps == [Next]_vars => (OpenConf /\ UNCHANGED others) \/ UNCHANGED confVars
<1> SUFFICES ASSUME [Next]_vars, ~(OpenConf /\ UNCHANGED others)
             PROVE  UNCHANGED confVars
  OBVIOUS
<1>1. CASE MainStep
  BY <1>1 DEF MainStep, Reads, others, Construct, Run, ReadCommand, KillThreads
<1>2. ASSUME NEW x \in Tearers, TearStep(x) \/ Lock(x) PROVE UNCHANGED confVars
  BY <1>2 DEF TearStep, Kill, Close, Forget, Lock, Unlock, Delete, SetNull, Exit
<1>3. ASSUME NEW t \in Threads, Interrupt(t) \/ LogBegins(t) \/ LogEnds(t)
      PROVE  UNCHANGED confVars
  BY <1>3 DEF Interrupt, LogBegins, LogEnds
<1>4. ASSUME NEW c \in Conns, Connection(c) PROVE UNCHANGED confVars
  BY <1>4 DEF Connection, Admit, Serve, Release
<1>5. ASSUME NEW words \in Commands, Type(words) PROVE UNCHANGED confVars
  BY <1>5 DEF Type
<1>6. CASE Crash
  BY <1>6 DEF Crash
<1>7. CASE UNCHANGED vars
  BY <1>7 DEF vars
<1> QED
  BY <1>1, <1>2, <1>3, <1>4, <1>5, <1>6, <1>7 DEF Next

LEMMA ConfNext == ConfInv /\ [Next]_vars => ConfInv'
BY ConfSteps, ReadLineKeeps, EndOfFileKeeps, ConfKeeps DEF OpenConf

\* open_conf reads every file as the file is meant, whatever sections it
\* leaves and opens again and wherever a line that is too long ends it.
THEOREM ConfigurationIsFile == Spec => []MapIsFile
<1>1. Init => ConfInv
  BY ConfInit DEF Init
<1> QED
  BY <1>1, ConfNext, ConfInvImplies, PTL DEF Spec

-----------------------------------------------------------------------------
(* The start *)

\* The object is made after the file is read, and StartsAsConfigured holds
\* from then on; before, there is nothing to start.
StartInv ==
  /\ ConfInv
  /\ main = "constructing" => ~okay /\ user = ""
  /\ main # "constructing" => ~reading
  /\ StartsAsConfigured

\* A value that get finds is one that the file says, and the other way round.
LEMMA GetSays ==
  ASSUME ConfInv, ~reading, NEW s, NEW n, Get(s, n) # ""
  PROVE  Get(s, n) \in Values /\ Says(file, Key(s, n), Get(s, n))
<1>1. MapIsFile
  BY ConfInvImplies
<1>2. Key(s, n) \in DOMAIN sc_map /\ Get(s, n) = sc_map[Key(s, n)]
  BY DEF Get, GetFrom
<1> QED
  BY <1>1, <1>2 DEF MapIsFile, ConfInv, ConfTypeOK

\* The constructors take what get finds.
LEMMA ConstructAsConfigured ==
  ASSUME StartInv, Construct
  PROVE  StartsAsConfigured'
<1> DEFINE Said(s, n) == {v \in Values : Says(file, Key(s, n), v) /\ v # ""}
           default == Get("default", "user")
<1>1. ConfInv /\ ~reading /\ file' = file /\ program' = program
  BY DEF StartInv, Construct, confVars
<1>2. ASSUME NEW s, NEW n, Get(s, n) # "" PROVE Get(s, n) \in Said(s, n)
  BY <1>1, <1>2, GetSays
<1>3. PICK opened \in BOOLEAN, up \in BOOLEAN :
        /\ up => opened
        /\ IF program = "peer" THEN PeerStarts(opened, up)
                               ELSE ProxyStarts(opened, up)
  BY DEF Construct
<1>4. user' # "" => user' = default /\ Listed(default)
  BY <1>3 DEF PeerStarts, ProxyStarts
<1>5. user' # "" => user' \in Said("default", "user") /\ Said("user", user') # {}
  BY <1>2, <1>4 DEF Listed
<1>6. ASSUME okay'
      PROVE  /\ Usable(Get("master", "server")) /\ default # ""
             /\ program # "peer" => Usable(Get("master", "local")) /\ user' # ""
  BY <1>3, <1>6 DEF PeerStarts, ProxyStarts, Listed
<1>7. ASSUME NEW a, Usable(Get("master", a))
      PROVE  \E v \in Said("master", a) : Usable(v)
  BY <1>2, <1>7 DEF Usable
<1>8. ASSUME okay'
      PROVE  /\ \A a \in IF program = "peer" THEN {"server"} ELSE {"server", "local"} :
                  \E v \in Said("master", a) : Usable(v)
             /\ Said("default", "user") # {}
             /\ program = "proxy" => user' # ""
  <2>1. Said("default", "user") # {}
    BY <1>2, <1>6, <1>8
  <2> HIDE DEF Said
  <2> QED
    BY <1>6, <1>7, <1>8, <2>1
<1> QED
  BY <1>1, <1>5, <1>8 DEF StartsAsConfigured

\* Nothing else touches what the object was made with.
LEMMA StartSteps ==
  ASSUME [Next]_vars
  PROVE  \/ Construct
         \/ /\ UNCHANGED <<program, okay, user, file>>
            /\ main' = "constructing" <=> main = "constructing"
            /\ reading' => reading
<1>1. CASE MainStep
  <2>1. CASE Reads
    BY <2>1 DEF Reads, startVars, OpenConf, ReadLine, EndOfFile
  <2>2. CASE Run \/ ReadCommand \/ KillThreads
    BY <2>2 DEF Run, ReadCommand, KillThreads, startVars, confVars
  <2> QED
    BY <1>1, <2>1, <2>2 DEF MainStep
<1>2. ASSUME NEW x \in Tearers, TearStep(x) \/ Lock(x)
      PROVE  UNCHANGED <<program, okay, user, file, main, reading>>
  BY <1>2 DEF TearStep, Kill, Close, Forget, Lock, Unlock, Delete, SetNull, Exit,
              startVars, confVars
<1>3. ASSUME NEW t \in Threads, Interrupt(t) \/ LogBegins(t) \/ LogEnds(t)
      PROVE  UNCHANGED <<program, okay, user, file, main, reading>>
  BY <1>3 DEF Interrupt, LogBegins, LogEnds, startVars, confVars
<1>4. ASSUME NEW c \in Conns, Connection(c)
      PROVE  UNCHANGED <<program, okay, user, file, main, reading>>
  BY <1>4 DEF Connection, Admit, Serve, Release, startVars, confVars
<1>5. ASSUME NEW words \in Commands, Type(words)
      PROVE  UNCHANGED <<program, okay, user, file, main, reading>>
  BY <1>5 DEF Type, startVars, confVars
<1>6. CASE Crash
  BY <1>6 DEF Crash, startVars, confVars
<1>7. CASE UNCHANGED vars
  BY <1>7 DEF vars, startVars, confVars
<1> QED
  BY <1>1, <1>2, <1>3, <1>4, <1>5, <1>6, <1>7 DEF Next

\* Whatever the file looks like, an object that is okay has a usable address,
\* and a default user of a name that the file gives; the user it holds is that
\* one and is in the section of the users.
THEOREM StartConfigured == Spec => []StartsAsConfigured
<1>1. Init => StartInv
  BY ConfInit DEF Init, StartInv, StartsAsConfigured
<1>2. ASSUME StartInv, [Next]_vars PROVE StartInv'
  <2>1. ConfInv'
    BY <1>2, ConfNext DEF StartInv
  <2>2. CASE Construct
    <3>1. main' # "constructing" /\ ~reading'
      BY <2>2 DEF Construct, confVars
    <3> QED
      BY <1>2, <2>1, <2>2, <3>1, ConstructAsConfigured DEF StartInv
  <2>3. CASE ~Construct
    <3>1. /\ program' = program /\ okay' = okay /\ user' = user /\ file' = file
          /\ main' = "constructing" <=> main = "constructing"
          /\ reading' => reading
      BY <1>2, <2>3, StartSteps
    <3>2. StartsAsConfigured'
      BY <1>2, <3>1 DEF StartInv, StartsAsConfigured
    <3>3. (main = "constructing" => ~okay /\ user = "")'
      BY <1>2, <3>1 DEF StartInv
    <3>4. (main # "constructing" => ~reading)'
      BY <1>2, <3>1 DEF StartInv
    <3> QED
      BY <2>1, <3>2, <3>3, <3>4 DEF StartInv
  <2> QED
    BY <2>2, <2>3
<1>3. StartInv => StartsAsConfigured
  BY DEF StartInv
<1> QED
  BY <1>1, <1>2, <1>3, PTL DEF Spec

-----------------------------------------------------------------------------
(* The end *)

Labels == {Idle, "kill", "close", "forget", "lock", "unlock", "free", "freed", "exit"}

\* What is torn down and how far does not depend on how many do it.
TearTypes ==
  /\ tear \in [Tearers -> Labels]
  /\ closes \in Nat /\ deletes \in Nat
  /\ okay \in BOOLEAN /\ soc \in BOOLEAN

TearFacts ==
  /\ main = "constructing" => ~ptr /\ closes = 0 /\ Tearing = {}
  /\ main # "deleting" => tear[Body("main")] = Idle
  /\ main = "deleting" => Tearing # {}
  /\ deletes > 0 <=> obj = "freed"
  /\ deletes > 0 => Tearing # {}
  /\ \A x \in Tearers : tear[x] \in {"freed", "exit"} => deletes > 0
  /\ ended = "exit" => deletes > 0

\* How far x is with the object, when x is the only one.
Progress(x) ==
  /\ deletes = IF tear[x] \in {"freed", "exit"} THEN 1 ELSE 0
  /\ ~okay => closes = 0 /\ tear[x] \in {"kill", "free", "freed", "exit"}
  /\ okay =>
       \/ closes = 0 /\ soc /\ tear[x] \in {"kill", "close"}
       \/ closes = 1 /\ tear[x] = "forget"
       \/ closes = 1 /\ ~soc /\ tear[x] # "forget"

Alone(x) == \A y \in Tearing : y = x

TearInv ==
  /\ TearTypes /\ TearFacts
  /\ Tearing = {} => closes = 0 /\ deletes = 0 /\ (okay => soc)
  /\ \A x \in Tearing : Alone(x) => Progress(x)

tornVars == <<okay, soc, obj, closes, deletes, tear>>

LEMMA MainTears == Body("main") \in Tearers
BY DEF Tearers

\* x begins: nothing is undone yet, or there is another one.
LEMMA BeginKeeps ==
  ASSUME TearInv, NEW x \in Tearers, NEW n, TearDown(x, n), tear[x] = Idle,
         main # "constructing", main' # "constructing",
         main' # "deleting" => x # Body("main"), main # "deleting" \/ main' = "deleting",
         UNCHANGED <<okay, soc, obj, ended>>
  PROVE  TearInv'
<1>1. /\ tear' = [tear EXCEPT ![x] = "kill"] /\ tear \in [Tearers -> Labels]
      /\ UNCHANGED <<closes, deletes>>
  BY DEF TearDown, TearInv, TearTypes
<1>2. Tearing' = Tearing \union {x} /\ x \notin Tearing
  BY <1>1 DEF Tearing, Idle
<1>3. TearTypes'
  BY <1>1 DEF TearInv, TearTypes, Labels
<1>4. TearFacts'
  BY <1>1, <1>2, MainTears DEF TearInv, TearFacts, Idle
<1>5. ASSUME NEW y \in Tearing', Alone(y)' PROVE Progress(y)'
  <2>1. Tearing = {} /\ y = x
    BY <1>2, <1>5 DEF Alone
  <2> QED
    BY <1>1, <2>1 DEF TearInv, TearTypes, Progress
<1> QED
  BY <1>2, <1>3, <1>4, <1>5 DEF TearInv

\* A step of x that is the only one keeps the books; what it does to others'
\* is nobody's business when it is not.
LEMMA GoOnKeeps ==
  ASSUME TearInv, NEW x \in Tearers, NEW l \in Labels \ {Idle},
         tear[x] # Idle, GoOn(x, l), okay' = okay, soc' \in BOOLEAN,
         closes' \in Nat, deletes' \in Nat, main' = main,
         ended' = ended,
         deletes' > 0 <=> obj' = "freed", deletes' >= deletes,
         l \in {"freed", "exit"} => deletes' > 0,
         Progress(x) => Progress(x)'
  PROVE  TearInv'
<1>1. tear' = [tear EXCEPT ![x] = l] /\ tear \in [Tearers -> Labels]
  BY DEF GoOn, TearInv, TearTypes
<1>2. Tearing' = Tearing /\ x \in Tearing
  BY <1>1 DEF Tearing
<1>3. TearTypes'
  BY <1>1 DEF TearInv, TearTypes
<1>4. TearFacts'
  <2>1. main # "constructing"
    BY <1>2 DEF TearInv, TearFacts
  <2>2. main # "deleting" => tear'[Body("main")] = Idle
    BY <1>1, MainTears DEF TearInv, TearFacts
  <2>3. \A y \in Tearers : tear'[y] \in {"freed", "exit"} => deletes' > 0
    BY <1>1 DEF TearInv, TearFacts, TearTypes
  <2> QED
    BY <1>2, <2>1, <2>2, <2>3 DEF TearInv, TearFacts, TearTypes
<1>5. ASSUME NEW y \in Tearing', Alone(y)' PROVE Progress(y)'
  <2>1. y = x /\ Alone(x)
    BY <1>2, <1>5 DEF Alone
  <2> QED
    BY <1>2, <2>1 DEF TearInv
<1> QED
  BY <1>2, <1>3, <1>4, <1>5 DEF TearInv

\* The steps of stop and of the destructor.
LEMMA TearStepKeeps ==
  ASSUME TearInv, NEW x \in Tearers, TearStep(x) \/ Lock(x)
  PROVE  TearInv'
<1> USE DEF At, startVars, Idle
<1>1. CASE Kill(x)
  <2>1. PICK l \in {"free", "close"} :
          /\ GoOn(x, l)
          /\ l = "close" => okay
          /\ l = "free" => ~okay \/ obj = "freed"
    BY <1>1 DEF Kill
  <2>2. /\ tear[x] = "kill" /\ main' = main /\ ended' = ended
        /\ UNCHANGED <<okay, soc, obj, closes, deletes>>
    BY <1>1 DEF Kill
  <2>3. Progress(x) => Progress(x)'
    BY <2>1, <2>2 DEF Progress, GoOn, TearInv, TearTypes, TearFacts
  <2> QED
    BY <2>1, <2>2, <2>3, GoOnKeeps DEF TearInv, TearTypes, TearFacts, Labels
<1>2. CASE Close(x)
  <2>1. PICK l \in {"forget", "lock"} :
          /\ GoOn(x, l)
          /\ l = "forget" => soc /\ closes' = closes + 1
          /\ l = "lock" => ~soc /\ closes' = closes
    BY <1>2 DEF Close
  <2>2. /\ tear[x] = "close" /\ main' = main /\ ended' = ended
        /\ UNCHANGED <<okay, soc, obj, deletes>>
    BY <1>2 DEF Close
  <2>3. Progress(x) => Progress(x)'
    BY <2>1, <2>2 DEF Progress, GoOn, TearInv, TearTypes
  <2> QED
    BY <2>1, <2>2, <2>3, GoOnKeeps DEF TearInv, TearTypes, TearFacts, Labels
<1>3. CASE Forget(x)
  <2>1. /\ tear[x] = "forget" /\ GoOn(x, "lock") /\ main' = main /\ ended' = ended
        /\ soc' = FALSE /\ UNCHANGED <<okay, obj, closes, deletes>>
    BY <1>3 DEF Forget
  <2>2. Progress(x) => Progress(x)'
    BY <2>1 DEF Progress, GoOn, TearInv, TearTypes
  <2>3. /\ closes' \in Nat /\ deletes' \in Nat /\ deletes' >= deletes
        /\ deletes' > 0 <=> obj' = "freed"
    BY <2>1 DEF TearInv, TearTypes, TearFacts
  <2>5. soc' \in BOOLEAN
    BY <2>1
  <2>4. "lock" \in Labels \ {Idle}
    BY DEF Labels
  <2> QED
    BY <2>1, <2>2, <2>3, <2>4, <2>5, GoOnKeeps DEF Labels
<1>4. CASE Lock(x)
  <2>1. /\ tear[x] = "lock" /\ GoOn(x, "unlock") /\ main' = main /\ ended' = ended
        /\ UNCHANGED <<okay, soc, obj, closes, deletes>>
    BY <1>4 DEF Lock
  <2>2. Progress(x) => Progress(x)'
    BY <2>1 DEF Progress, GoOn, TearInv, TearTypes
  <2> QED
    BY <2>1, <2>2, GoOnKeeps DEF TearInv, TearTypes, TearFacts, Labels
<1>5. CASE Unlock(x)
  <2>1. PICK l \in {"kill", "free"} : GoOn(x, l)
    BY <1>5 DEF Unlock
  <2>2. /\ tear[x] = "unlock" /\ main' = main /\ ended' = ended
        /\ UNCHANGED <<okay, soc, obj, closes, deletes>>
    BY <1>5 DEF Unlock
  <2>3. Progress(x) => Progress(x)'
    BY <2>1, <2>2 DEF Progress, GoOn, TearInv, TearTypes
  <2> QED
    BY <2>1, <2>2, <2>3, GoOnKeeps DEF TearInv, TearTypes, TearFacts, Labels
<1>6. CASE Delete(x)
  <2>1. /\ tear[x] = "free" /\ GoOn(x, "freed") /\ main' = main /\ ended' = ended
        /\ obj' = "freed" /\ deletes' = deletes + 1 /\ UNCHANGED <<okay, soc, closes>>
    BY <1>6 DEF Delete
  <2>2. Progress(x) => Progress(x)'
    BY <2>1 DEF Progress, GoOn, TearInv, TearTypes
  <2> QED
    BY <2>1, <2>2, GoOnKeeps DEF TearInv, TearTypes, TearFacts, Labels
<1>7. CASE SetNull(x)
  <2>1. /\ tear[x] = "freed" /\ GoOn(x, "exit") /\ main' = main /\ ended' = ended
        /\ UNCHANGED <<okay, soc, obj, closes, deletes>>
    BY <1>7 DEF SetNull
  <2>2. Progress(x) => Progress(x)'
    BY <2>1 DEF Progress, GoOn, TearInv, TearTypes
  <2> QED
    BY <2>1, <2>2, GoOnKeeps DEF TearInv, TearTypes, TearFacts, Labels
<1>8. CASE Exit(x)
  <2>1. tear[x] \in {"freed", "exit"}
    BY <1>8 DEF Exit
  <2>2. /\ UNCHANGED <<main, ptr, tornVars>>
    BY <1>8 DEF Exit, tornVars, tearVars
  <2> QED
    BY <2>1, <2>2 DEF tornVars, TearInv, TearTypes, TearFacts, Tearing, Alone, Progress
<1> QED
  BY <1>1, <1>2, <1>3, <1>4, <1>5, <1>6, <1>7, <1>8 DEF TearStep

\* Steps that have nothing to do with the object.
LEMMA AsideKeeps ==
  ASSUME TearInv, UNCHANGED tornVars, UNCHANGED ptr,
         main' = "constructing" <=> main = "constructing",
         main' = "deleting" <=> main = "deleting",
         ended' = ended \/ ended' = "crash"
  PROVE  TearInv'
<1>1. Tearing' = Tearing
  BY DEF tornVars, Tearing
<1>2. TearTypes'
  BY DEF tornVars, TearInv, TearTypes
<1>3. TearFacts'
  BY <1>1 DEF tornVars, TearInv, TearFacts
<1>4. ASSUME NEW x \in Tearing', Alone(x)' PROVE Progress(x)'
  <2>1. Progress(x)
    BY <1>1, <1>4 DEF TearInv, Alone
  <2> QED
    BY <2>1 DEF tornVars, Progress
<1>5. (Tearing = {} => closes = 0 /\ deletes = 0 /\ (okay => soc))'
  BY <1>1 DEF tornVars, TearInv
<1> QED
  BY <1>2, <1>3, <1>4, <1>5 DEF TearInv

\* What main does.
LEMMA MainKeeps == TearInv /\ MainStep => TearInv'
<1> SUFFICES ASSUME TearInv, MainStep PROVE TearInv'
  OBVIOUS
<1> USE DEF startVars, tearVars
<1>1. CASE Reads \/ ReadCommand
  <2>1. UNCHANGED tornVars /\ UNCHANGED ptr /\ ended' = ended
    BY <1>1 DEF Reads, ReadCommand, tornVars
  <2>2. /\ main' = "constructing" <=> main = "constructing"
        /\ main' = "deleting" <=> main = "deleting"
    BY <1>1 DEF Reads, ReadCommand
  <2> QED
    BY <2>1, <2>2, AsideKeeps
<1>2. CASE Construct
  <2>1. /\ main = "constructing" /\ main' = "run" /\ obj' = "alive"
        /\ UNCHANGED <<tear, closes, deletes, ended>>
    BY <1>2 DEF Construct
  <2>2. okay' \in BOOLEAN /\ soc' \in BOOLEAN /\ (okay' => soc')
    <3>1. PICK opened \in BOOLEAN, up \in BOOLEAN :
            /\ up => opened
            /\ soc' = opened
            /\ IF program = "peer" THEN PeerStarts(opened, up)
                                   ELSE ProxyStarts(opened, up)
      BY <1>2 DEF Construct
    <3>2. okay' = up \/ okay' = FALSE
      <4>1. CASE program = "peer"
        BY <3>1, <4>1 DEF PeerStarts
      <4>2. CASE program # "peer"
        <5>1. okay' = (up /\ Usable(Get("master", "server")) /\ Listed(Get("default", "user")))
          BY <3>1, <4>2 DEF ProxyStarts
        <5> QED
          BY <5>1
      <4> QED
        BY <4>1, <4>2
    <3>3. okay' => up
      BY <3>2
    <3> QED
      BY <3>1, <3>2, <3>3
  <2>3. Tearing' = {} /\ Tearing = {}
    BY <2>1 DEF Tearing, TearInv, TearFacts
  <2>4. closes = 0 /\ deletes = 0
    BY <2>1, <2>3 DEF TearInv
  <2>5. tear[Body("main")] = Idle
    BY <2>3, MainTears DEF Tearing
  <2> QED
    BY <2>1, <2>2, <2>3, <2>4, <2>5 DEF TearInv, TearTypes, TearFacts
<1>3. CASE Run
  <2>1. main = "run" /\ UNCHANGED <<okay, soc, obj, ended, ptr>>
    BY <1>3 DEF Run
  <2>2. CASE ~okay
    <3>1. main' = "deleting" /\ TearDown(Body("main"), 0)
      BY <1>3, <2>2 DEF Run
    <3> QED
      BY <2>1, <3>1, MainTears, BeginKeeps DEF TearInv, TearFacts
  <2>3. CASE okay
    <3>1. main' \in {"console", "serving"} /\ UNCHANGED tornVars
      BY <1>3, <2>3 DEF Run, tornVars
    <3> QED
      BY <2>1, <3>1, AsideKeeps
  <2> QED
    BY <2>2, <2>3 DEF TearInv, TearTypes
<1>4. CASE KillThreads
  <2>1. /\ main = "kill" /\ main' = "deleting" /\ TearDown(Body("main"), 0)
        /\ UNCHANGED <<okay, soc, obj, ended, ptr>>
    BY <1>4 DEF KillThreads
  <2> QED
    BY <2>1, MainTears, BeginKeeps DEF TearInv, TearFacts
<1> QED
  BY <1>1, <1>2, <1>3, <1>4 DEF MainStep

\* What SIGINTs, workers and the terminal do.
LEMMA ThreadsKeep ==
  ASSUME TearInv,
         \/ \E t \in Threads : Interrupt(t) \/ LogBegins(t) \/ LogEnds(t)
         \/ \E c \in Conns : Connection(c)
         \/ \E words \in Commands : Type(words)
         \/ Crash
  PROVE  TearInv'
<1> USE DEF startVars, tearVars
<1>1. ASSUME NEW t \in Threads, Interrupt(t) PROVE TearInv'
  <2>1. UNCHANGED <<main, ptr, okay, soc, obj, ended>> /\ tear[Handler(t)] = Idle
    BY <1>1 DEF Interrupt, InHandler
  <2>2. CASE ptr
    <3>1. TearDown(Handler(t), 1)
      BY <1>1, <2>2 DEF Interrupt
    <3>2. Handler(t) \in Tearers /\ Handler(t) # Body("main")
      BY DEF Tearers, Handlers, Handler, Body
    <3> QED
      BY <2>1, <2>2, <3>1, <3>2, BeginKeeps DEF TearInv, TearFacts
  <2>3. CASE ~ptr
    BY <1>1, <2>1, <2>3, AsideKeeps DEF Interrupt, tornVars
  <2> QED
    BY <2>2, <2>3
<1>2. ASSUME NEW t \in Threads, LogBegins(t) \/ LogEnds(t) PROVE TearInv'
  BY <1>2, AsideKeeps DEF LogBegins, LogEnds, tornVars
<1>3. ASSUME NEW c \in Conns, Connection(c) PROVE TearInv'
  BY <1>3, AsideKeeps DEF Connection, Admit, Serve, Release, tornVars
<1>4. ASSUME NEW words \in Commands, Type(words) PROVE TearInv'
  BY <1>4, AsideKeeps DEF Type, tornVars
<1>5. CASE Crash
  BY <1>5, AsideKeeps DEF Crash, tornVars
<1> QED
  BY <1>1, <1>2, <1>3, <1>4, <1>5

LEMMA TearInit == Init => TearInv
<1> SUFFICES ASSUME Init PROVE TearInv
  OBVIOUS
<1>1. tear = [x \in Tearers |-> Idle] /\ Tearing = {}
  BY DEF Init, Tearing
<1>2. TearTypes
  <2>1. okay \in BOOLEAN /\ soc \in BOOLEAN
    BY DEF Init
  <2>2. closes \in Nat /\ deletes \in Nat
    BY DEF Init
  <2> QED
    BY <1>1, <2>1, <2>2 DEF TearTypes, Labels
<1>3. TearFacts
  <2>1. /\ main = "constructing" /\ ~ptr /\ obj = "none" /\ closes = 0
        /\ deletes = 0 /\ ended = "no"
    BY DEF Init
  <2>2. \A x \in Tearers : tear[x] = Idle
    BY <1>1
  <2> QED
    BY <1>1, <2>1, <2>2, MainTears DEF TearFacts, Idle
<1>4. closes = 0 /\ deletes = 0 /\ ~okay
  BY DEF Init
<1> QED
  BY <1>1, <1>2, <1>3, <1>4 DEF TearInv

LEMMA TearNext == TearInv /\ [Next]_vars => TearInv'
<1> SUFFICES ASSUME TearInv, [Next]_vars PROVE TearInv'
  OBVIOUS
<1>1. CASE UNCHANGED vars
  BY <1>1, AsideKeeps DEF vars, startVars, tearVars, tornVars
<1>2. CASE Next
  BY <1>2, MainKeeps, TearStepKeeps, ThreadsKeep DEF Next
<1> QED
  BY <1>1, <1>2

\* Whenever a SIGINT comes and whichever thread it hits, one thread that tears
\* the object down alone closes the listening socket once, then deletes the
\* object once, and nobody ends the process before the object is deleted.
THEOREM TornDown == Spec => []TornDownOnce
<1>1. TearInv => TornDownOnce
  <2> SUFFICES ASSUME TearInv PROVE TornDownOnce
    OBVIOUS
  <2>1. ended = "exit" => deletes > 0
    BY DEF TearInv, TearFacts
  <2>2. ASSUME \A x, y \in Tearing : x = y
        PROVE  /\ closes <= 1 /\ deletes <= 1
               /\ deletes > 0 /\ okay => closes = 1 /\ ~soc
    <3>1. CASE Tearing = {}
      BY <3>1 DEF TearInv
    <3>2. CASE Tearing # {}
      <4>1. PICK x \in Tearing : Alone(x)
        BY <2>2, <3>2 DEF Alone
      <4>2. Progress(x)
        BY <4>1 DEF TearInv
      <4> QED
        BY <4>1, <4>2 DEF Progress, TearInv, TearTypes
    <3> QED
      BY <3>1, <3>2
  <2> QED
    BY <2>1, <2>2 DEF TornDownOnce
<1> QED
  BY <1>1, TearInit, TearNext, PTL DEF Spec

-----------------------------------------------------------------------------
(* Why a process ends *)

Words == Seq({"quit", "other"})

\* A "quit" that is still to be read or to be handed out was typed.
Heard ==
  /\ buf \in Words /\ tty \in Seq(Words) /\ told \in BOOLEAN
  /\ \A i \in 1 .. Len(buf) : buf[i] = "quit" => told
  /\ \A n \in 1 .. Len(tty) : \A i \in 1 .. Len(tty[n]) : tty[n][i] = "quit" => told

\* Whoever tears the object down has a reason.
Reasons ==
  /\ main = "constructing" => ended = "no" /\ acceptor = FALSE
  /\ main = "kill" => told
  /\ main = "deleting" => told \/ ~okay
  /\ signals \in Nat
  /\ \A x \in Handlers : tear[x] # Idle => signals > 0

ReasonInv == TearInv /\ Heard /\ Reasons /\ EndsForAReason

\* How tear moves: somebody goes on, main begins, or a SIGINT does.
LEMMA TearMoves ==
  ASSUME [Next]_vars
  PROVE  \/ tear' = tear /\ signals' = signals
         \/ tear' = tear /\ signals' = signals + 1
         \/ /\ \E x \in Tearers, l \in Labels \ {Idle} : tear[x] # Idle /\ GoOn(x, l)
            /\ signals' = signals
         \/ GoOn(Body("main"), "kill") /\ signals' = signals
         \/ (\E t \in Threads : GoOn(Handler(t), "kill")) /\ signals' = signals + 1
<1>1. CASE MainStep
  BY <1>1 DEF MainStep, Reads, Construct, Run, ReadCommand, KillThreads, TearDown,
              GoOn, tearVars
<1>2. ASSUME NEW x \in Tearers, TearStep(x) \/ Lock(x)
      PROVE  /\ tear' = tear \/ (tear[x] # Idle /\ \E l \in Labels \ {Idle} : GoOn(x, l))
             /\ signals' = signals
  <2> USE DEF At, Idle
  <2>1. {"kill", "close", "forget", "lock", "unlock", "free", "freed", "exit"}
          \subseteq Labels \ {Idle}
    BY DEF Labels
  <2>2. CASE Kill(x) \/ Close(x) \/ Forget(x) \/ Lock(x)
    BY <2>1, <2>2 DEF Kill, Close, Forget, Lock
  <2>3. CASE Unlock(x)
    BY <2>1, <2>3 DEF Unlock
  <2>4. CASE Delete(x) \/ SetNull(x)
    BY <2>1, <2>4 DEF Delete, SetNull
  <2>5. CASE Exit(x)
    BY <2>5 DEF Exit, tearVars
  <2> QED
    BY <1>2, <2>2, <2>3, <2>4, <2>5 DEF TearStep
<1>3. ASSUME NEW t \in Threads, Interrupt(t)
      PROVE  (tear' = tear \/ GoOn(Handler(t), "kill")) /\ signals' = signals + 1
  BY <1>3 DEF Interrupt, TearDown, GoOn, tearVars
<1>4. ASSUME NEW t \in Threads, LogBegins(t) \/ LogEnds(t)
      PROVE  tear' = tear /\ signals' = signals
  BY <1>4 DEF LogBegins, LogEnds, tearVars
<1>5. ASSUME NEW c \in Conns, Connection(c) PROVE tear' = tear /\ signals' = signals
  BY <1>5 DEF Connection, Admit, Serve, Release, tearVars
<1>6. ASSUME NEW words \in Commands, Type(words) PROVE tear' = tear /\ signals' = signals
  BY <1>6 DEF Type, tearVars
<1>7. CASE Crash
  BY <1>7 DEF Crash, tearVars
<1>8. CASE UNCHANGED vars
  BY <1>8 DEF vars, tearVars
<1> QED
  BY <1>1, <1>2, <1>3, <1>4, <1>5, <1>6, <1>7, <1>8 DEF Next

\* Nobody who has begun to tear the object down goes back, and a handler only
\* begins with a SIGINT.
LEMMA TearingGrows ==
  ASSUME TearInv, Reasons, [Next]_vars
  PROVE  /\ Tearing # {} => Tearing' # {}
         /\ signals' \in Nat /\ signals' >= signals
         /\ \A x \in Handlers : tear'[x] # Idle => signals' > 0
<1>1. tear \in [Tearers -> Labels] /\ signals \in Nat
  BY DEF TearInv, TearTypes, Reasons
<1>2. signals' \in Nat /\ signals' >= signals
  BY <1>1, TearMoves
<1>3. ASSUME NEW x, NEW l, l # Idle, GoOn(x, l) PROVE Tearing # {} => Tearing' # {}
  BY <1>1, <1>3 DEF GoOn, Tearing
<1>4. Tearing # {} => Tearing' # {}
  <2>1. CASE tear' = tear
    BY <2>1 DEF Tearing
  <2> QED
    BY <1>3, <2>1, TearMoves DEF Idle
<1>5. ASSUME NEW y \in Handlers, tear'[y] # Idle PROVE signals' > 0
  <2>1. y \in Tearers /\ y # Body("main")
    BY DEF Tearers, Handlers, Handler, Body
  <2>2. CASE tear[y] # Idle
    <3>1. signals > 0
      BY <2>2 DEF Reasons
    <3> QED
      BY <1>1, <1>2, <3>1
  <2>3. CASE tear[y] = Idle
    <3>1. signals' = signals + 1
      BY <1>1, <1>5, <2>1, <2>3, TearMoves DEF GoOn
    <3> QED
      BY <1>1, <3>1
  <2> QED
    BY <2>2, <2>3
<1> QED
  BY <1>2, <1>4, <1>5

\* What is typed, read and handed out.
LEMMA HeardKeeps == Heard /\ [Next]_vars => Heard' /\ (told => told')
<1> SUFFICES ASSUME Heard, [Next]_vars PROVE Heard' /\ (told => told')
  OBVIOUS
<1>1. ASSUME UNCHANGED <<tty, told, buf>> PROVE Heard' /\ (told => told')
  <2>1. tty' = tty /\ told' = told /\ buf' = buf
    BY <1>1
  <2> QED
    BY <2>1 DEF Heard
<1>2. ASSUME NEW words \in Commands, Type(words) PROVE Heard' /\ (told => told')
  <2>1. /\ told' = (told \/ \E i \in 1 .. Len(words) : words[i] = "quit")
        /\ tty' = Append(tty, words) /\ buf' = buf
    BY <1>2 DEF Type
  <2>2. words \in Words
    BY CommandsAssumption DEF Words
  <2>3. (told => told') /\ told' \in BOOLEAN
    BY <2>1 DEF Heard
  <2>4. /\ tty' \in Seq(Words) /\ Len(tty') = Len(tty) + 1
        /\ \A n \in 1 .. Len(tty') : tty'[n] = IF n \in 1 .. Len(tty) THEN tty[n] ELSE words
    BY <2>1, <2>2 DEF Heard
  <2>5. ASSUME NEW n \in 1 .. Len(tty'), NEW i \in 1 .. Len(tty'[n]), tty'[n][i] = "quit"
        PROVE  told'
    <3>1. CASE n \in 1 .. Len(tty)
      BY <2>3, <2>4, <2>5, <3>1 DEF Heard
    <3>2. CASE n \notin 1 .. Len(tty)
      BY <2>1, <2>4, <2>5, <3>2
    <3> QED
      BY <3>1, <3>2
  <2> QED
    BY <2>1, <2>3, <2>4, <2>5 DEF Heard
<1>3. CASE ReadCommand
  <2>1. tty # <<>> /\ told' = told
    BY <1>3 DEF ReadCommand
  <2> DEFINE words == IF buf = <<>> THEN Head(tty) ELSE buf
  <2>2. /\ tty' \in Seq(Words)
        /\ \A n \in 1 .. Len(tty') : \E m \in 1 .. Len(tty) : tty'[n] = tty[m]
    <3>1. tty' = tty \/ tty' = Tail(tty)
      BY <1>3 DEF ReadCommand
    <3> QED
      BY <2>1, <3>1 DEF Heard
  <2>3. words \in Words /\ \A i \in 1 .. Len(words) : words[i] = "quit" => told
    <3>1. CASE buf = <<>>
      <4>1. Head(tty) = tty[1] /\ 1 \in 1 .. Len(tty) /\ tty[1] \in Words
        BY <2>1 DEF Heard
      <4> QED
        BY <3>1, <4>1 DEF Heard
    <3>2. CASE buf # <<>>
      BY <3>2 DEF Heard
    <3> QED
      BY <3>1, <3>2
  <2>4. buf' = buf \/ (words # <<>> /\ buf' = Tail(words))
    BY <1>3 DEF ReadCommand
  <2> HIDE DEF words
  <2>5. buf' \in Words /\ \A i \in 1 .. Len(buf') : buf'[i] = "quit" => told
    <3>1. CASE buf' = buf
      BY <3>1 DEF Heard
    <3>2. CASE words # <<>> /\ buf' = Tail(words)
      BY <2>3, <3>2 DEF Words
    <3> QED
      BY <2>4, <3>1, <3>2
  <2>6. ASSUME NEW n \in 1 .. Len(tty'), NEW i \in 1 .. Len(tty'[n]), tty'[n][i] = "quit"
        PROVE  told
    BY <2>2, <2>6 DEF Heard
  <2> QED
    BY <2>1, <2>2, <2>5, <2>6 DEF Heard
<1>4. \/ UNCHANGED <<tty, told, buf>> \/ ReadCommand
      \/ \E words \in Commands : Type(words)
  <2> USE DEF consoleVars
  <2>1. CASE MainStep
    BY <2>1 DEF MainStep, Reads, Construct, Run, KillThreads
  <2>2. ASSUME NEW x \in Tearers, TearStep(x) \/ Lock(x) PROVE UNCHANGED <<tty, told, buf>>
    BY <2>2 DEF TearStep, Kill, Close, Forget, Lock, Unlock, Delete, SetNull, Exit
  <2>3. ASSUME NEW t \in Threads, Interrupt(t) \/ LogBegins(t) \/ LogEnds(t)
        PROVE  UNCHANGED <<tty, told, buf>>
    BY <2>3 DEF Interrupt, LogBegins, LogEnds
  <2>4. ASSUME NEW c \in Conns, Connection(c) PROVE UNCHANGED <<tty, told, buf>>
    BY <2>4 DEF Connection, Admit, Serve, Release
  <2>5. CASE Crash \/ UNCHANGED vars
    BY <2>5 DEF Crash, vars
  <2> QED
    BY <2>1, <2>2, <2>3, <2>4, <2>5 DEF Next
<1> QED
  BY <1>1, <1>2, <1>3, <1>4

\* The one who ends the process, or ran main to its end, had a reason.
LEMMA ReasonsKeep ==
  ASSUME ReasonInv, [Next]_vars, TearInv'
  PROVE  Reasons' /\ EndsForAReason'
<1>1. /\ Tearing # {} => Tearing' # {}
      /\ signals' \in Nat /\ signals' >= signals /\ signals \in Nat
      /\ \A x \in Handlers : tear'[x] # Idle => signals' > 0
  BY TearingGrows DEF ReasonInv, Reasons
<1>2. told => told'
  BY HeardKeeps DEF ReasonInv
<1> USE DEF startVars, serviceVars, tearVars
<1>3. CASE Construct
  <2>1. main' = "run" /\ ended' = ended /\ main = "constructing" /\ ended = "no"
    BY <1>3 DEF Construct, ReasonInv, Reasons
  <2> QED
    BY <1>1, <2>1 DEF Reasons, EndsForAReason
<1>4. CASE UNCHANGED <<ended, okay, user, program>>
  <2>1. /\ main' = "constructing" => main = "constructing" /\ acceptor' = acceptor
        /\ main' = "kill" => told'
        /\ main' = "deleting" => told' \/ ~okay
    <3>1. CASE main' = main /\ acceptor' = acceptor
      BY <1>2, <3>1 DEF ReasonInv, Reasons
    <3>2. CASE Run
      BY <3>2 DEF Run
    <3>3. CASE ReadCommand
      <4>1. main = "console" /\ (main' = main \/ main' = "kill") /\ told' = told
        BY <3>3 DEF ReadCommand
      <4>2. main' = "kill" => told
        <5> DEFINE words == IF buf = <<>> THEN Head(tty) ELSE buf
        <5> SUFFICES ASSUME main' = "kill" PROVE told
          OBVIOUS
        <5>1. words # <<>> /\ Head(words) = "quit" /\ tty # <<>>
          BY <3>3, <4>1 DEF ReadCommand
        <5>2. CASE buf = <<>>
          <6>1. 1 \in 1 .. Len(tty) /\ tty[1] = words /\ tty[1] \in Words
            BY <5>1, <5>2 DEF ReasonInv, Heard
          <6>2. 1 \in 1 .. Len(tty[1]) /\ tty[1][1] = "quit"
            <7> HIDE DEF words
            <7> QED
              BY <5>1, <6>1 DEF Words
          <6> QED
            BY <6>1, <6>2 DEF ReasonInv, Heard
        <5>3. CASE buf # <<>>
          <6>1. 1 \in 1 .. Len(buf) /\ buf[1] = "quit"
            BY <5>1, <5>3 DEF ReasonInv, Heard, Words
          <6> QED
            BY <6>1 DEF ReasonInv, Heard
        <5> QED
          BY <5>2, <5>3
      <4> QED
        BY <4>1, <4>2
    <3>4. CASE KillThreads
      BY <1>2, <3>4 DEF KillThreads, ReasonInv, Reasons
    <3>5. CASE Construct
      BY <3>5 DEF Construct
    <3>6. (main' = main /\ acceptor' = acceptor) \/ MainStep
      <4>1. ASSUME NEW x \in Tearers, TearStep(x) \/ Lock(x)
            PROVE  main' = main /\ acceptor' = acceptor
        BY <4>1 DEF TearStep, Kill, Close, Forget, Lock, Unlock, Delete, SetNull, Exit
      <4>2. ASSUME NEW t \in Threads, Interrupt(t) \/ LogBegins(t) \/ LogEnds(t)
            PROVE  main' = main /\ acceptor' = acceptor
        BY <4>2 DEF Interrupt, LogBegins, LogEnds
      <4>3. ASSUME NEW c \in Conns, Connection(c) PROVE main' = main /\ acceptor' = acceptor
        BY <4>3 DEF Connection, Admit, Serve, Release
      <4>4. ASSUME NEW words \in Commands, Type(words)
            PROVE  main' = main /\ acceptor' = acceptor
        BY <4>4 DEF Type
      <4>5. CASE Crash \/ UNCHANGED vars
        BY <4>5 DEF Crash, vars
      <4> QED
        BY <4>1, <4>2, <4>3, <4>4, <4>5 DEF Next
    <3>7. CASE Reads
      BY <1>2, <3>7 DEF Reads, ReasonInv, Reasons
    <3> QED
      BY <3>1, <3>2, <3>3, <3>4, <3>5, <3>6, <3>7 DEF MainStep
  <2>2. Reasons'
    BY <1>1, <1>4, <2>1 DEF ReasonInv, Reasons
  <2>3. EndsForAReason'
    <3>1. ended' = ended /\ okay' = okay /\ user' = user /\ program' = program
      BY <1>4
    <3>2. signals > 0 => signals' > 0
      BY <1>1
    <3>3. /\ ended = "exit" => signals > 0 \/ told \/ ~okay
          /\ ended = "crash" => (program = "peer" /\ user = "") \/ Tearing # {}
      BY DEF ReasonInv, EndsForAReason
    <3>4. (ended = "exit" => signals > 0 \/ told \/ ~okay)'
      BY <1>2, <3>1, <3>2, <3>3
    <3>5. (ended = "crash" => (program = "peer" /\ user = "") \/ Tearing # {})'
      BY <1>1, <3>1, <3>3
    <3> QED
      BY <3>4, <3>5 DEF EndsForAReason
  <2> QED
    BY <2>2, <2>3
<1>5. ASSUME NEW x \in Tearers, Exit(x) PROVE Reasons' /\ EndsForAReason'
  <2>1. UNCHANGED <<main, acceptor, okay, user, program, tear>> /\ ended' = "exit"
    BY <1>5 DEF Exit
  <2>2. tear[x] # Idle
    BY <1>5 DEF Exit, At, Idle
  <2>3. CASE x \in Handlers
    <3>1. signals' > 0
      BY <1>1, <2>1, <2>2, <2>3
    <3> QED
      BY <1>1, <1>2, <2>1, <3>1 DEF ReasonInv, Reasons, EndsForAReason, TearInv, TearFacts, Tearing
  <2>4. CASE x = Body("main")
    <3>1. main = "deleting"
      BY <2>2, <2>4 DEF ReasonInv, TearInv, TearFacts
    <3> QED
      BY <1>1, <1>2, <2>1, <3>1 DEF ReasonInv, Reasons, EndsForAReason
  <2> QED
    BY <2>3, <2>4 DEF Tearers
<1>6. CASE Crash
  <2>1. UNCHANGED <<main, acceptor, okay, user, program, tear>> /\ ended' = "crash"
    BY <1>6 DEF Crash
  <2>2. (program = "peer" /\ user = "") \/ Tearing # {}
    BY <1>6 DEF Crash, NoDefaultUser, UsesFreed, ReasonInv, TearInv, TearFacts
  <2>3. main # "constructing"
    BY <1>6 DEF Crash, NoDefaultUser, UsesFreed, Accepting, ReasonInv, Reasons, TearInv, TearFacts
  <2> QED
    BY <1>1, <1>2, <2>1, <2>2, <2>3 DEF ReasonInv, Reasons, EndsForAReason
<1>7. \/ Construct \/ Crash \/ UNCHANGED <<ended, okay, user, program>>
      \/ \E x \in Tearers : Exit(x)
  <2>1. CASE MainStep
    BY <2>1 DEF MainStep, Reads, Run, ReadCommand, KillThreads
  <2>2. ASSUME NEW x \in Tearers, TearStep(x) \/ Lock(x), ~Exit(x)
        PROVE  UNCHANGED <<ended, okay, user, program>>
    BY <2>2 DEF TearStep, Kill, Close, Forget, Lock, Unlock, Delete, SetNull
  <2>3. ASSUME NEW t \in Threads, Interrupt(t) \/ LogBegins(t) \/ LogEnds(t)
        PROVE  UNCHANGED <<ended, okay, user, program>>
    BY <2>3 DEF Interrupt, LogBegins, LogEnds
  <2>4. ASSUME NEW c \in Conns, Connection(c) PROVE UNCHANGED <<ended, okay, user, program>>
    BY <2>4 DEF Connection, Admit, Serve, Release
  <2>5. ASSUME NEW words \in Commands, Type(words)
        PROVE  UNCHANGED <<ended, okay, user, program>>
    BY <2>5 DEF Type
  <2>6. CASE UNCHANGED vars
    BY <2>6 DEF vars
  <2> QED
    BY <2>1, <2>2, <2>3, <2>4, <2>5, <2>6 DEF Next
<1> QED
  BY <1>3, <1>4, <1>5, <1>6, <1>7

\* However often "quit" is typed, read and left over, and wherever SIGINTs
\* hit: a process that ends by itself was asked to or never got going, and one
\* that dies had no default user to copy or was being torn down.
THEOREM EndsWithReason == Spec => []EndsForAReason
<1>1. Init => ReasonInv
  <2> SUFFICES ASSUME Init PROVE ReasonInv
    OBVIOUS
  <2>1. TearInv
    BY TearInit
  <2>2. Heard
    <3>1. buf = <<>> /\ tty = <<>> /\ told = FALSE
      BY DEF Init
    <3> QED
      <4>1. buf \in Words /\ tty \in Seq(Words)
        <5>1. \A S : <<>> \in Seq(S)
          OBVIOUS
        <5> QED
          BY <3>1, <5>1 DEF Words
      <4>3. told \in BOOLEAN
        BY <3>1
      <4>2. Len(buf) = 0 /\ Len(tty) = 0
        BY <3>1
      <4> QED
        BY <4>1, <4>2, <4>3 DEF Heard
  <2>3. Reasons
    <3>1. /\ main = "constructing" /\ ended = "no" /\ acceptor = FALSE /\ signals = 0
          /\ tear = [x \in Tearers |-> Idle] /\ Handlers \subseteq Tearers
      BY DEF Init, Tearers
    <3> QED
      BY <3>1 DEF Reasons
  <2>4. EndsForAReason
    BY DEF Init, EndsForAReason
  <2> QED
    BY <2>1, <2>2, <2>3, <2>4 DEF ReasonInv
<1>2. ReasonInv /\ [Next]_vars => ReasonInv'
  BY TearNext, HeardKeeps, ReasonsKeep DEF ReasonInv
<1>3. ReasonInv => EndsForAReason
  BY DEF ReasonInv
<1> QED
  BY <1>1, <1>2, <1>3, PTL DEF Spec


-----------------------------------------------------------------------------
(* Types *)

\* The default user is listed only by a name that is on the left of an equal
\* sign.
LEMMA ListedTypes ==
  ASSUME ConfInv, NEW u, Listed(u)
  PROVE  u \in Names
BY DEF Listed, Get, GetFrom, Key, ConfInv, ConfTypeOK, Keys

\* TypeOK, by who changes what.
MainTypes ==
  /\ program \in {"peer", "proxy"}
  /\ main \in {"constructing", "run", "console", "kill", "serving", "deleting"}
  /\ ptr \in BOOLEAN /\ obj \in {"none", "alive", "freed"}
  /\ okay \in BOOLEAN /\ user \in Names \union {""} /\ soc \in BOOLEAN
  /\ table \subseteq Threads /\ acceptor \in BOOLEAN
  /\ ended \in {"no", "exit", "crash"}

InputTypes ==
  /\ tty \in Seq(Commands) /\ typed \in 0 .. MaxEvents /\ told \in BOOLEAN
  /\ buf \in Words /\ deaf \in BOOLEAN /\ signals \in 0 .. MaxEvents

TornTypes ==
  /\ tear \in [Tearers -> Labels] /\ left \in [Tearers -> 0 .. 1]
  /\ closes \in Nat /\ deletes \in Nat

LockTypes == lock \subseteq Tearers \union {Body(t) : t \in Threads}

LEMMA TypeParts ==
  TypeOK <=> MainTypes /\ InputTypes /\ TornTypes /\ LockTypes /\ Service!TypeOK
BY DEF TypeOK, MainTypes, InputTypes, TornTypes, LockTypes, Words, Labels

\* A line that is typed is one of the Commands until it is read.
LEMMA InputKept ==
  ASSUME InputTypes, [Next]_vars
  PROVE  InputTypes'
<1>1. MaxEvents \in Nat /\ Commands \subseteq Words
  BY BoundAssumption, CommandsAssumption DEF Words
<1>2. CASE UNCHANGED <<consoleVars, signals>>
  BY <1>2 DEF consoleVars, InputTypes
<1>3. ASSUME NEW words \in Commands, Type(words) PROVE InputTypes'
  <2>1. /\ tty' = Append(tty, words) /\ typed' = typed + 1 /\ typed + signals < MaxEvents
        /\ told' = (told \/ \E i \in 1 .. Len(words) : words[i] = "quit")
        /\ UNCHANGED <<buf, deaf, signals>>
    BY <1>3 DEF Type
  <2>2. tty' \in Seq(Commands)
    BY <2>1 DEF InputTypes
  <2> QED
    BY <1>1, <2>1, <2>2 DEF InputTypes
<1>4. CASE ReadCommand
  <2> DEFINE words == IF buf = <<>> THEN Head(tty) ELSE buf
  <2>1. /\ tty # <<>> /\ UNCHANGED <<typed, told, signals>>
        /\ tty' = tty \/ tty' = Tail(tty)
        /\ buf' = buf \/ (words # <<>> /\ buf' = Tail(words))
        /\ deaf' = TRUE \/ deaf' = deaf
    BY <1>4 DEF ReadCommand
  <2>2. words \in Words
    BY <1>1, <2>1 DEF InputTypes
  <2> HIDE DEF words
  <2>3. buf' \in Words
    <3>1. CASE buf' = buf
      BY <3>1 DEF InputTypes
    <3>2. CASE words # <<>> /\ buf' = Tail(words)
      BY <2>2, <3>2 DEF Words
    <3> QED
      BY <2>1, <3>1, <3>2
  <2>4. tty' \in Seq(Commands)
    BY <2>1 DEF InputTypes
  <2> QED
    BY <2>1, <2>3, <2>4 DEF InputTypes
<1>5. ASSUME NEW t \in Threads, Interrupt(t) PROVE InputTypes'
  <2>1. signals' = signals + 1 /\ typed + signals < MaxEvents /\ UNCHANGED consoleVars
    BY <1>5 DEF Interrupt
  <2> QED
    BY <1>1, <2>1 DEF InputTypes, consoleVars
<1>6. CASE Reads \/ Construct \/ Run \/ KillThreads
  BY <1>2, <1>6 DEF Reads, Construct, Run, KillThreads
<1>7. ASSUME NEW x \in Tearers, TearStep(x) \/ Lock(x) PROVE UNCHANGED <<consoleVars, signals>>
  BY <1>7 DEF TearStep, Kill, Close, Forget, Lock, Unlock, Delete, SetNull, Exit
<1>8. ASSUME NEW t \in Threads, LogBegins(t) \/ LogEnds(t) PROVE UNCHANGED <<consoleVars, signals>>
  BY <1>8 DEF LogBegins, LogEnds
<1>9. ASSUME NEW c \in Conns, Connection(c) PROVE UNCHANGED <<consoleVars, signals>>
  BY <1>9 DEF Connection, Admit, Serve, Release
<1>10. CASE Crash \/ UNCHANGED vars
  BY <1>2, <1>10 DEF Crash, vars
<1> QED
  BY <1>2, <1>3, <1>4, <1>5, <1>6, <1>7, <1>8, <1>9, <1>10 DEF Next, MainStep

LEMMA TornKept ==
  ASSUME TornTypes, [Next]_vars
  PROVE  TornTypes'
<1>1. CASE UNCHANGED tearVars
  BY <1>1 DEF tearVars, TornTypes
<1>2. ASSUME NEW x \in Tearers, NEW n \in 0 .. 1, TearDown(x, n) PROVE TornTypes'
  BY <1>2 DEF TearDown, TornTypes, Labels
<1>3. CASE Run \/ KillThreads
  <2>1. UNCHANGED tearVars \/ TearDown(Body("main"), 0)
    BY <1>3 DEF Run, KillThreads
  <2> QED
    BY <1>1, <1>2, <2>1, MainTears
<1>4. ASSUME NEW t \in Threads, Interrupt(t) PROVE TornTypes'
  <2>1. UNCHANGED tearVars \/ TearDown(Handler(t), 1)
    BY <1>4 DEF Interrupt
  <2>2. Handler(t) \in Tearers
    BY DEF Tearers, Handlers
  <2> QED
    BY <1>1, <1>2, <2>1, <2>2
<1>5. ASSUME NEW x \in Tearers, TearStep(x) \/ Lock(x) PROVE TornTypes'
  <2> USE DEF TornTypes, GoOn, Labels
  <2>1. CASE Kill(x) \/ Close(x) \/ Forget(x) \/ Lock(x)
    BY <2>1 DEF Kill, Close, Forget, Lock
  <2>2. CASE Unlock(x)
    <3>1. /\ tear' = [tear EXCEPT ![x] = "kill"] \/ tear' = [tear EXCEPT ![x] = "free"]
          /\ UNCHANGED <<closes, deletes>>
      BY <2>2 DEF Unlock
    <3>2. left' = left \/ (left[x] > 0 /\ left' = [left EXCEPT ![x] = @ - 1])
      BY <2>2 DEF Unlock
    <3>3. left' \in [Tearers -> 0 .. 1]
      BY <3>2
    <3> QED
      BY <3>1, <3>3
  <2>3. CASE Delete(x) \/ SetNull(x)
    BY <2>3 DEF Delete, SetNull
  <2>4. CASE Exit(x)
    BY <1>1, <2>4 DEF Exit
  <2> QED
    BY <1>5, <2>1, <2>2, <2>3, <2>4 DEF TearStep
<1>6. CASE Reads \/ Construct \/ ReadCommand
  BY <1>1, <1>6 DEF Reads, Construct, ReadCommand
<1>7. ASSUME NEW t \in Threads, LogBegins(t) \/ LogEnds(t) PROVE UNCHANGED tearVars
  BY <1>7 DEF LogBegins, LogEnds
<1>8. ASSUME NEW c \in Conns, Connection(c) PROVE UNCHANGED tearVars
  BY <1>8 DEF Connection, Admit, Serve, Release
<1>9. ASSUME NEW words \in Commands, Type(words) PROVE UNCHANGED tearVars
  BY <1>9 DEF Type
<1>10. CASE Crash \/ UNCHANGED vars
  BY <1>1, <1>10 DEF Crash, vars
<1> QED
  BY <1>1, <1>3, <1>4, <1>5, <1>6, <1>7, <1>8, <1>9, <1>10 DEF Next, MainStep

LEMMA LockKept ==
  ASSUME LockTypes, [Next]_vars
  PROVE  LockTypes'
<1>1. \/ lock' \subseteq lock
      \/ \E x \in Tearers \union {Body(t) : t \in Threads} : lock' = {x}
  <2>1. CASE MainStep
    BY <2>1 DEF MainStep, Reads, Construct, Run, ReadCommand, KillThreads
  <2>2. ASSUME NEW x \in Tearers, TearStep(x) \/ Lock(x) PROVE lock' \subseteq lock \/ lock' = {x}
    BY <2>2 DEF TearStep, Kill, Close, Forget, Lock, Unlock, Delete, SetNull, Exit
  <2>3. ASSUME NEW t \in Threads, Interrupt(t) \/ LogBegins(t) \/ LogEnds(t)
        PROVE  lock' \subseteq lock \/ lock' = {Body(t)}
    BY <2>3 DEF Interrupt, LogBegins, LogEnds
  <2>4. ASSUME NEW c \in Conns, Connection(c) PROVE lock' = lock
    BY <2>4 DEF Connection, Admit, Serve, Release
  <2>5. ASSUME NEW words \in Commands, Type(words) PROVE lock' = lock
    BY <2>5 DEF Type
  <2>6. CASE Crash \/ UNCHANGED vars
    BY <2>6 DEF Crash, vars
  <2> QED
    BY <2>1, <2>2, <2>3, <2>4, <2>5, <2>6 DEF Next
<1> QED
  BY <1>1 DEF LockTypes

LEMMA ServiceKept ==
  ASSUME Service!TypeOK, [Next]_vars
  PROVE  Service!TypeOK'
<1>1. CASE UNCHANGED <<life, held>>
  BY <1>1 DEF Service!TypeOK
<1>2. ASSUME NEW c \in Conns, Connection(c) PROVE Service!TypeOK'
  <2> USE DEF Service!TypeOK, Service!Moves, Service!Keeps, Service!Lives, Service!Resources
  <2>1. CASE Service!Admit(c) \/ Service!Lose(c)
    BY <2>1 DEF Service!Admit, Service!Lose
  <2>2. CASE Service!Finish(c) \/ Service!Close(c) \/ Service!End(c) \/ Service!Release(c)
    BY <2>2 DEF Service!Finish, Service!Close, Service!End, Service!Release
  <2> QED
    BY <1>2, <2>1, <2>2 DEF Connection, Admit, Serve, Release
<1> USE DEF serviceVars
<1>3. CASE MainStep
  BY <1>1, <1>3 DEF MainStep, Reads, Construct, Run, ReadCommand, KillThreads
<1>4. ASSUME NEW x \in Tearers, TearStep(x) \/ Lock(x) PROVE UNCHANGED <<life, held>>
  BY <1>4 DEF TearStep, Kill, Close, Forget, Lock, Unlock, Delete, SetNull, Exit
<1>5. ASSUME NEW t \in Threads, Interrupt(t) \/ LogBegins(t) \/ LogEnds(t)
      PROVE  UNCHANGED <<life, held>>
  BY <1>5 DEF Interrupt, LogBegins, LogEnds
<1>6. ASSUME NEW words \in Commands, Type(words) PROVE UNCHANGED <<life, held>>
  BY <1>6 DEF Type
<1>7. CASE Crash \/ UNCHANGED vars
  BY <1>1, <1>7 DEF Crash, vars
<1> QED
  BY <1>1, <1>2, <1>3, <1>4, <1>5, <1>6, <1>7 DEF Next

LEMMA MainKept ==
  ASSUME ConfInv, MainTypes, [Next]_vars
  PROVE  MainTypes'
<1> USE DEF MainTypes, startVars, serviceVars
<1>1. CASE Construct
  <2>1. user' \in Names \union {""}
    BY <1>1, ListedTypes DEF Construct, PeerStarts, ProxyStarts
  <2>2. okay' \in BOOLEAN
    BY <1>1 DEF Construct, PeerStarts, ProxyStarts
  <2> QED
    BY <1>1, <2>1, <2>2 DEF Construct
<1>2. CASE Reads
  BY <1>2 DEF Reads
<1>3. CASE Run
  <2>1. /\ main' \in {"deleting", "console", "serving"} /\ acceptor' \in BOOLEAN
        /\ table' \subseteq table \union {"acceptor"}
        /\ UNCHANGED <<program, startVars, ended>>
    BY <1>3 DEF Run
  <2> QED
    BY <2>1 DEF Threads
<1>4. CASE ReadCommand
  <2>1. main' \in {main, "kill"} /\ UNCHANGED <<program, startVars, ended, table, acceptor>>
    BY <1>4 DEF ReadCommand
  <2> QED
    BY <2>1
<1>5. CASE KillThreads
  BY <1>5 DEF KillThreads
<1>6. ASSUME NEW x \in Tearers, TearStep(x) \/ Lock(x) PROVE MainTypes'
  <2>1. CASE Kill(x) \/ Close(x) \/ Lock(x) \/ Unlock(x)
    BY <2>1 DEF Kill, Close, Lock, Unlock
  <2>2. CASE Forget(x) \/ Delete(x) \/ SetNull(x) \/ Exit(x)
    BY <2>2 DEF Forget, Delete, SetNull, Exit
  <2> QED
    BY <1>6, <2>1, <2>2 DEF TearStep
<1>7. ASSUME NEW t \in Threads, Interrupt(t) \/ LogBegins(t) \/ LogEnds(t) PROVE MainTypes'
  BY <1>7 DEF Interrupt, LogBegins, LogEnds
<1>8. ASSUME NEW c \in Conns, Connection(c) PROVE MainTypes'
  <2>1. /\ UNCHANGED <<program, main, startVars, acceptor, ended>>
        /\ table' \subseteq table \union {c}
    BY <1>8 DEF Connection, Admit, Serve, Release
  <2> QED
    BY <2>1 DEF Threads
<1>9. ASSUME NEW words \in Commands, Type(words) PROVE MainTypes'
  BY <1>9 DEF Type
<1>10. CASE Crash \/ UNCHANGED vars
  BY <1>10 DEF Crash, vars
<1> QED
  BY <1>1, <1>2, <1>3, <1>4, <1>5, <1>6, <1>7, <1>8, <1>9, <1>10 DEF Next, MainStep

\* The variables of the process have their types, for every file and any
\* number of connections and events.
THEOREM ProcessTypes == Spec => []TypeOK
<1>1. Init => ConfInv /\ TypeOK
  <2> SUFFICES ASSUME Init PROVE TypeOK
    BY ConfInit DEF Init
  <2>1. /\ tty = <<>> /\ buf = <<>> /\ typed = 0 /\ signals = 0
        /\ told = FALSE /\ deaf = FALSE /\ lock = {}
    BY DEF Init
  <2>2. InputTypes
    <3>1. \A S : <<>> \in Seq(S)
      OBVIOUS
    <3>2. tty \in Seq(Commands) /\ buf \in Words
      BY <2>1, <3>1 DEF Words
    <3>3. typed \in 0 .. MaxEvents /\ signals \in 0 .. MaxEvents
      BY <2>1, BoundAssumption
    <3>4. told \in BOOLEAN /\ deaf \in BOOLEAN
      BY <2>1
    <3> QED
      BY <3>2, <3>3, <3>4 DEF InputTypes
  <2>3. MainTypes
    BY DEF Init, MainTypes
  <2>4. TornTypes
    <3>1. /\ tear = [x \in Tearers |-> Idle] /\ left = [x \in Tearers |-> 0]
          /\ closes = 0 /\ deletes = 0
      BY DEF Init
    <3> QED
      BY <3>1 DEF TornTypes, Labels
  <2>5. LockTypes
    BY <2>1 DEF LockTypes
  <2>6. Service!TypeOK
    BY DEF Init, Service!Init, Service!TypeOK, Service!Lives
  <2> QED
    BY <2>2, <2>3, <2>4, <2>5, <2>6, TypeParts
<1>2. ConfInv /\ TypeOK /\ [Next]_vars => ConfInv' /\ TypeOK'
  <2> SUFFICES ASSUME ConfInv, TypeOK, [Next]_vars PROVE ConfInv' /\ TypeOK'
    OBVIOUS
  <2>1. MainTypes' /\ InputTypes' /\ TornTypes' /\ LockTypes' /\ Service!TypeOK'
    BY TypeParts, MainKept, InputKept, TornKept, LockKept, ServiceKept
  <2>2. TypeOK'
    BY <2>1 DEF TypeOK, MainTypes, InputTypes, TornTypes, LockTypes, Words, Labels
  <2> QED
    BY <2>2, ConfNext
<1> QED
  BY <1>1, <1>2, PTL DEF Spec
=============================================================================
