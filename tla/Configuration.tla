--------------------------- MODULE Configuration ---------------------------
(***************************************************************************)
(* The configuration file and what it means: Configuration::open_conf reads *)
(* it line by line into a map of maps, and everything the two programs know *)
(* about their addresses and users they ask of that map.                    *)
(*                                                                          *)
(* A line is what is left of it once the blanks around its parts are gone.  *)
(***************************************************************************)
EXTENDS Integers, Sequences

CONSTANTS
  Files,       \* configuration files: sequences of lines
  Sections,    \* what stands between the brackets of a section line
  Names,       \* left of the equal sign
  Values       \* right of the equal sign

\* other: a comment, a blank line, one without an equal sign; long: one that
\* does not fit into the 1024 bytes of "line".
LineType ==
  [kind : {"section", "pair", "other", "long"},
   sec : Sections, name : Names, value : Values]

\* DEFSEC, conf.h
DEFSEC == "global"

ASSUME FilesAssumption == Files \subseteq Seq(LineType)

VARIABLES
  file,      \* the file that -c names
  linesread, \* the lines of it that were read
  reading,   \* getline still succeeds
  sec,       \* the section of the next pair
  sc_map     \* the values by section and name

confVars == <<file, linesread, reading, sec, sc_map>>

InitConf ==
  /\ file \in Files
  /\ linesread = 0
  /\ reading = TRUE
  /\ sec = DEFSEC
  /\ sc_map = [k \in {} |-> ""]

\* Every operation of Configuration takes the empty section for DEFSEC.
SectionOf(s) == IF s = "" THEN DEFSEC ELSE s

\* The map of maps as one map: a key is a section and a name.
Key(s, n) == <<SectionOf(s), n>>

\* Mutant of Added: a name that is given again takes the new value.
AddedLast(m, k, v) ==
  [q \in DOMAIN m \union {k} |-> IF q = k THEN v ELSE m[q]]

\* Configuration::add: map::insert leaves a name that is there alone.
Added(m, k, v) ==
  [q \in DOMAIN m \union {k} |-> IF q \in DOMAIN m THEN m[q] ELSE v]

\* Configuration::get
GetFrom(m, s, n) == IF Key(s, n) \in DOMAIN m THEN m[Key(s, n)] ELSE ""

Get(s, n) == GetFrom(sc_map, s, n)

\* The end of the file, or a file that cannot be opened and so has no lines.
EndOfFile ==
  /\ reading
  /\ linesread = Len(file)
  /\ reading' = FALSE
  /\ UNCHANGED <<file, linesread, sec, sc_map>>

\* Mutant of ReadLine: a section that is opened again starts empty.
ReadLineAnew ==
  /\ reading
  /\ linesread < Len(file)
  /\ LET l == file[linesread + 1]
         kept == {k \in DOMAIN sc_map : k[1] # SectionOf(l.sec)}
     IN
       /\ linesread' = linesread + 1
       /\ reading' = (l.kind # "long")
       /\ sec' = IF l.kind = "section" THEN l.sec ELSE sec
       /\ sc_map' = CASE l.kind = "pair" ->
                           Added(sc_map, Key(sec, l.name), l.value)
                      [] l.kind = "section" -> [k \in kept |-> sc_map[k]]
                      [] OTHER -> sc_map
  /\ UNCHANGED file

\* One turn of the loop of open_conf.  getline fails on a line that is too
\* long, which ends the loop with what was read so far.
ReadLine ==
  /\ reading
  /\ linesread < Len(file)
  /\ LET l == file[linesread + 1] IN
       /\ linesread' = linesread + 1
       /\ reading' = (l.kind # "long")
       /\ sec' = IF l.kind = "section" THEN l.sec ELSE sec
       /\ sc_map' = IF l.kind = "pair"
                      THEN Added(sc_map, Key(sec, l.name), l.value)
                      ELSE sc_map
  /\ UNCHANGED file

OpenConf == ReadLine \/ EndOfFile

-----------------------------------------------------------------------------
(* What a file says, without reading it line by line *)

\* s is the section of line i of file f: what the last section line before
\* it names, or DEFSEC.
InSection(f, i, s) ==
  \/ \E j \in 1 .. i - 1 :
       /\ f[j].kind = "section" /\ SectionOf(f[j].sec) = s
       /\ \A k \in j + 1 .. i - 1 : f[k].kind # "section"
  \/ s = DEFSEC /\ \A j \in 1 .. i - 1 : f[j].kind # "section"

\* Line i of f gives the key k a value.
Gives(f, i, k) ==
  f[i].kind = "pair" /\ f[i].name = k[2] /\ InSection(f, i, k[1])

\* The lines of f in front of the first that is too long.
Legible(f) == {i \in 1 .. Len(f) : \A j \in 1 .. i : f[j].kind # "long"}

\* f says that k is v: the first legible line that gives k a value gives v.
Says(f, k, v) ==
  \E i \in Legible(f) :
    /\ Gives(f, i, k) /\ f[i].value = v
    /\ \A j \in 1 .. i - 1 : ~Gives(f, j, k)

\* Once the file is read the map holds what the file says and nothing else:
\* the first value of a name counts, a section may be left and opened again,
\* pairs in front of every section belong to DEFSEC, and nothing behind a
\* line that is too long does.
MapIsFile ==
  ~reading =>
    /\ \A k \in DOMAIN sc_map : Says(file, k, sc_map[k])
    /\ \A i \in Legible(file) :
         file[i].kind = "pair" => \E k \in DOMAIN sc_map : Gives(file, i, k)
=============================================================================
