---------------------------- MODULE RelayProofs ----------------------------
(* Proofs about Relay: for links of every capacity and endpoints that send   *)
(* any number of pieces.                                                     *)
EXTENDS Relay, TLAPS

-----------------------------------------------------------------------------
(* Types *)

PcValues == {"select", "midblock", "send", "lastsend", "closing", "ended"}

USE DEF PcValues, Torn

LEMMA LoadTypes ==
  ASSUME load \in Loads
  PROVE  /\ load.pieces \in [Endpoints -> Nat]
         /\ load.endless \in BOOLEAN /\ load.pauses \in BOOLEAN
         /\ Largest \in Nat /\ \A e \in Endpoints : load.pieces[e] <= Largest
<1>1. load \in LoadType
  BY LoadsAssumption
<1>2. load.pieces \in [Endpoints -> Nat] /\ load.endless \in BOOLEAN /\ load.pauses \in BOOLEAN
  BY <1>1 DEF LoadType
<1>3. load.pieces["app"] \in Nat /\ load.pieces["target"] \in Nat
  BY <1>2 DEF Endpoints
<1> QED
  BY <1>2, <1>3 DEF Largest, Endpoints

LEMMA LinkTypes ==
  /\ \A e \in Endpoints : FromEnd(e) \in Links /\ ToEnd(e) \in Links /\ Origin(e) \in Endpoints
  /\ \A s \in Sides : /\ PlainIn(s) \in Links /\ PlainOut(s) \in Links
                      /\ EncIn(s) \in Links /\ EncOut(s) \in Links /\ Out(s) \in Links
BY DEF Endpoints, Links, FromEnd, ToEnd, Origin, Sides, PlainIn, PlainOut, EncIn, EncOut, Out

\* The piece behind n of m pieces.
LEMMA NextTypes ==
  ASSUME NEW n \in Nat, NEW m \in Nat, m > 0
  PROVE  Next1(n, m) \in 1 .. m /\ (n < m => Next1(n, m) = n + 1)
<1>1. n % m \in 0 .. m - 1
  OBVIOUS
<1>2. n < m => n % m = n
  OBVIOUS
<1> QED
  BY <1>1, <1>2 DEF Next1

\* One piece more, or one less.
LEMMA AppendTypes ==
  ASSUME NEW S, NEW x \in Seq(S), NEW y \in S
  PROVE  /\ Append(x, y) \in Seq(S) /\ Len(Append(x, y)) = Len(x) + 1
         /\ \A i \in 1 .. Len(x) : Append(x, y)[i] = x[i]
         /\ Append(x, y)[Len(x) + 1] = y
OBVIOUS

LEMMA TailTypes ==
  ASSUME NEW S, NEW x \in Seq(S), x # <<>>
  PROVE  /\ Tail(x) \in Seq(S) /\ Len(Tail(x)) = Len(x) - 1 /\ Len(x) \in Nat \ {0}
         /\ Head(x) = x[1] /\ Head(x) \in S
         /\ \A i \in 1 .. Len(x) - 1 : Tail(x)[i] = x[i + 1]
OBVIOUS

\* What is left of a link is a prefix of what was there.
LEMMA SurvivingTypes ==
  ASSUME NEW S, q \in [Links -> Seq(S)], NEW l \in Links, NEW in,
         NEW p \in Surviving(l, in)
  PROVE  /\ p \in Seq(S) /\ Len(p) \in 0 .. Len(q[l])
         /\ \A i \in 1 .. Len(p) : p[i] = q[l][i]
BY DEF Surviving

\* What a read inside a block leaves of a link: an end of what was there,
\* perhaps behind the rest of a block.
LEMMA LeftoverTypes ==
  ASSUME TypeOK, NEW l \in Links, NEW x \in Leftover(q[l])
  PROVE  x \in Seq(PieceType) /\ Len(x) \in 0 .. Len(q[l])
<1>1. q[l] \in Seq(PieceType) /\ Len(q[l]) \in Nat
  BY DEF TypeOK
<1>2. Remnant \in PieceType /\ Largest \in Nat
  BY LoadTypes DEF TypeOK, Remnant, Piece, PieceType
<1>3. PICK k \in 1 .. Len(q[l]) :
        \/ x = SubSeq(q[l], k + 1, Len(q[l]))
        \/ x = <<Remnant>> \o SubSeq(q[l], k + 1, Len(q[l]))
  BY DEF Leftover
<1> DEFINE y == SubSeq(q[l], k + 1, Len(q[l]))
<1>4. y \in Seq(PieceType) /\ Len(y) = Len(q[l]) - k
  BY <1>1
<1> HIDE DEF y
<1>5. <<Remnant>> \o y \in Seq(PieceType) /\ Len(<<Remnant>> \o y) = 1 + Len(y)
  BY <1>2, <1>4
<1>6. x = y \/ x = <<Remnant>> \o y
  BY <1>3 DEF y
<1>7. x \in Seq(PieceType) /\ (Len(x) = Len(y) \/ Len(x) = 1 + Len(y))
  BY <1>4, <1>5, <1>6
<1> QED
  BY <1>1, <1>4, <1>7

\* A read inside a block, or behind one.
LEMMA PartTypes ==
  ASSUME TypeOK, NEW s \in Sides, ReadTorn(s) \/ MidBlock(s)
  PROVE  /\ pc[s] \in {"select", "midblock"}
         /\ \/ q' = q
            \/ \E x \in Leftover(q[EncIn(s)]) : q' = [q EXCEPT ![EncIn(s)] = x]
         /\ \/ /\ pc' = [pc EXCEPT ![s] = "send"]
               /\ held' = [held EXCEPT ![s] = Piece(Torn, FALSE)]
            \/ /\ \E p \in {"select", "midblock", "closing"} :
                    pc' = [pc EXCEPT ![s] = p]
               /\ held' = held
         /\ torn' = [torn EXCEPT ![s] = TRUE]
         /\ UNCHANGED <<fin, rst, end, sent, got, wrong, ttl>>
<1>1. CASE ReadTorn(s)
  BY <1>1 DEF ReadTorn, DecodePart, endVars
<1>2. CASE MidBlock(s)
  BY <1>2 DEF MidBlock, DecodePart, endVars
<1> QED
  BY <1>1, <1>2

\* The ends' steps keep the types.
LEMMA EndpointTypes ==
  ASSUME TypeOK, NEW e \in Endpoints, Endpoint(e)
  PROVE  TypeOK'
<1> USE LoadTypes, LinkTypes
<1>1. load' = load /\ Largest' = Largest /\ PieceType' = PieceType
  BY DEF Endpoint, Largest, PieceType
<1>2. CASE EndSends(e)
  <2>1. sent[e] \in Nat /\ load.pieces[e] \in Nat /\ load.pieces[e] > 0
    BY <1>2 DEF EndSends, TypeOK
  <2>2. Next1(sent[e], load.pieces[e]) \in 0 .. Largest
    <3>1. Largest \in Nat /\ load.pieces[e] <= Largest
      BY DEF TypeOK
    <3>2. Next1(sent[e], load.pieces[e]) \in 1 .. load.pieces[e]
      BY <2>1, NextTypes
    <3> QED
      BY <2>1, <3>1, <3>2
  <2> DEFINE n == Next1(sent[e], load.pieces[e])
  <2>6. sent' = [sent EXCEPT ![e] = n]
    BY <1>2 DEF EndSends
  <2> HIDE DEF n
  <2>3. sent' \in [Endpoints -> 0 .. Largest] /\ sent'[e] \in 0 .. Largest
    BY <2>2, <2>6 DEF n, TypeOK
  <2>4. Piece(sent'[e], FALSE) \in PieceType
    BY <2>3 DEF Piece, PieceType
  <2>5. q' \in [Links -> Seq(PieceType)]
    <3>1. q' = [q EXCEPT ![FromEnd(e)] = Append(@, Piece(sent'[e], FALSE))]
      BY <1>2 DEF EndSends
    <3>2. q \in [Links -> Seq(PieceType)] /\ FromEnd(e) \in Links
      BY DEF TypeOK
    <3>3. Append(q[FromEnd(e)], Piece(sent'[e], FALSE)) \in Seq(PieceType)
      BY <2>4, <3>2, AppendTypes
    <3> QED
      BY <3>1, <3>2, <3>3
  <2> QED
    BY <1>1, <1>2, <2>3, <2>5 DEF EndSends, TypeOK, sideVars
<1>3. CASE EndReads(e)
  <2>1. q' \in [Links -> Seq(PieceType)]
    BY <1>3 DEF EndReads, TypeOK
  <2>2. Head(q[ToEnd(e)]) \in PieceType
    BY <1>3 DEF EndReads, TypeOK
  <2>3. got' \in [Endpoints -> 0 .. Largest]
    <3> DEFINE n == Next1(got[e], load.pieces[Origin(e)])
    <3>1. CASE got' = got
      BY <3>1 DEF TypeOK
    <3>2. CASE got' # got
      <4>1. /\ load.pieces[Origin(e)] > 0 /\ Head(q[ToEnd(e)]).num = n
            /\ got' = [got EXCEPT ![e] = Head(q[ToEnd(e)]).num]
        BY <1>3, <3>2 DEF EndReads, Piece
      <4>2. got[e] \in Nat /\ load.pieces[Origin(e)] \in Nat
        BY DEF TypeOK
      <4>3. n \in 1 .. load.pieces[Origin(e)]
        BY <4>1, <4>2, NextTypes
      <4>4. n \in 0 .. Largest
        BY <4>2, <4>3 DEF TypeOK
      <4> HIDE DEF n
      <4> QED
        BY <4>1, <4>4 DEF TypeOK
    <3> QED
      BY <3>1, <3>2
  <2>4. wrong' \in [Endpoints -> BOOLEAN] /\ ttl' \in [Endpoints -> BOOLEAN]
    BY <1>3 DEF EndReads, TypeOK
  <2> QED
    BY <1>1, <1>3, <2>1, <2>3, <2>4 DEF EndReads, TypeOK, sideVars
<1>4. CASE EndCloses(e)
  <2>1. q' \in [Links -> Seq(PieceType)]
    <3>1. CASE q' = q
      BY <3>1 DEF TypeOK
    <3>2. CASE \E p \in Surviving(FromEnd(e), ToEnd(e)) : q' = [q EXCEPT ![FromEnd(e)] = p]
      <4>1. PICK p \in Surviving(FromEnd(e), ToEnd(e)) : q' = [q EXCEPT ![FromEnd(e)] = p]
        BY <3>2
      <4>2. p \in Seq(PieceType)
        BY SurvivingTypes DEF TypeOK
      <4> QED
        BY <4>1, <4>2 DEF TypeOK
    <3> QED
      BY <1>4, <3>1, <3>2 DEF EndCloses
  <2>2. end' \in [Endpoints -> {"open", "shut", "gone"}] /\ fin' \in [Links -> BOOLEAN]
    BY <1>4 DEF EndCloses, TypeOK
  <2> QED
    BY <1>1, <1>4, <2>1, <2>2 DEF EndCloses, TypeOK, sideVars
<1> QED
  BY <1>2, <1>3, <1>4 DEF Endpoint

\* So do the threads'.
LEMMA ThreadTypes ==
  ASSUME TypeOK, NEW s \in Sides, Thread(s) \/ Silence(s)
  PROVE  TypeOK'
<1> USE LoadTypes, LinkTypes
<1>1. load' = load /\ Largest' = Largest /\ PieceType' = PieceType
  BY DEF Thread, Silence, Largest, PieceType
<1>2. CASE ReadPiece(s)
  <2>1. PICK in \in {PlainIn(s), EncIn(s)} :
          /\ q[in] # <<>>
          /\ held' = [held EXCEPT ![s] = Piece(Head(q[in]).num, in = PlainIn(s))]
          /\ q' = [q EXCEPT ![in] = Tail(@)]
    BY <1>2 DEF ReadPiece
  <2>2. Head(q[in]) \in PieceType /\ q' \in [Links -> Seq(PieceType)]
    BY <2>1 DEF TypeOK
  <2>3. Piece(Head(q[in]).num, in = PlainIn(s)) \in PieceType
    BY <2>2 DEF Piece, PieceType
  <2>4. pc' = [pc EXCEPT ![s] = "send"] /\ UNCHANGED <<fin, rst, endVars, torn>>
    BY <1>2 DEF ReadPiece
  <2> QED
    BY <1>1, <2>1, <2>2, <2>3, <2>4 DEF TypeOK, endVars
<1>3. CASE ReadEnd(s)
  BY <1>1, <1>3 DEF ReadEnd, TypeOK, linkVars, endVars
<1>4. CASE SendPiece(s)
  <2>1. q' \in [Links -> Seq(PieceType)]
    BY <1>4 DEF SendPiece, TypeOK
  <2>2. pc' \in [Sides -> PcValues]
    BY <1>4 DEF SendPiece, TypeOK, AfterSend
  <2> QED
    BY <1>1, <1>4, <2>1, <2>2 DEF SendPiece, TypeOK, endVars
<1>5. CASE SendLost(s)
  <2>1. pc' \in [Sides -> PcValues]
    BY <1>5 DEF SendLost, TypeOK, AfterSend, AfterFailedSend
  <2>2. rst' \in [Links -> BOOLEAN]
    BY <1>5 DEF SendLost, TypeOK
  <2> QED
    BY <1>1, <1>5, <2>1, <2>2 DEF SendLost, TypeOK, endVars
<1>6. CASE Close(s)
  <2>1. PICK p \in Surviving(PlainOut(s), PlainIn(s)), x \in Surviving(EncOut(s), EncIn(s)) :
          q' = [q EXCEPT ![PlainOut(s)] = p, ![EncOut(s)] = x]
    BY <1>6 DEF Close
  <2>2. p \in Seq(PieceType) /\ x \in Seq(PieceType)
    BY SurvivingTypes DEF TypeOK
  <2>3. q' \in [Links -> Seq(PieceType)]
    BY <2>1, <2>2 DEF TypeOK
  <2> QED
    BY <1>1, <1>6, <2>3 DEF Close, TypeOK, endVars
<1>7. CASE Timeout(s)
  <2>1. Piece(TtlReply, TRUE) \in PieceType
    BY DEF Piece, TtlReply, PieceType, TypeOK
  <2>2. /\ held' \in [Sides -> PieceType]
        /\ pc' \in [Sides -> PcValues]
    BY <1>7, <2>1 DEF Timeout, TypeOK
  <2>3. UNCHANGED <<q, fin, rst, end, sent, got, wrong, ttl, torn>>
    BY <1>7 DEF Timeout, linkVars, endVars
  <2> QED
    BY <1>1, <2>2, <2>3 DEF TypeOK
<1>8. CASE ReadTorn(s) \/ MidBlock(s)
  <2>1. q' \in [Links -> Seq(PieceType)]
    <3>1. CASE q' = q
      BY <3>1 DEF TypeOK
    <3>2. CASE \E x \in Leftover(q[EncIn(s)]) : q' = [q EXCEPT ![EncIn(s)] = x]
      <4>1. PICK x \in Leftover(q[EncIn(s)]) : q' = [q EXCEPT ![EncIn(s)] = x]
        BY <3>2
      <4>2. x \in Seq(PieceType)
        BY LeftoverTypes
      <4> QED
        BY <4>1, <4>2 DEF TypeOK
    <3> QED
      BY <1>8, <3>1, <3>2, PartTypes
  <2>2. Piece(Torn, FALSE) \in PieceType
    BY DEF TypeOK, Piece, PieceType
  <2>3. pc' \in [Sides -> PcValues] /\ held' \in [Sides -> PieceType]
    <3>1. pc \in [Sides -> PcValues] /\ held \in [Sides -> PieceType]
      BY DEF TypeOK
    <3>2. CASE /\ pc' = [pc EXCEPT ![s] = "send"]
               /\ held' = [held EXCEPT ![s] = Piece(Torn, FALSE)]
      BY <2>2, <3>1, <3>2
    <3>3. CASE /\ \E p \in {"select", "midblock", "closing"} : pc' = [pc EXCEPT ![s] = p]
               /\ held' = held
      BY <3>1, <3>3
    <3> QED
      BY <1>8, <3>2, <3>3, PartTypes
  <2>4. torn' \in [Sides -> BOOLEAN] /\ UNCHANGED <<fin, rst, end, sent, got, wrong, ttl>>
    BY <1>8, PartTypes DEF TypeOK
  <2> QED
    BY <1>1, <2>1, <2>3, <2>4 DEF TypeOK
<1> QED
  BY <1>2, <1>3, <1>4, <1>5, <1>6, <1>7, <1>8 DEF Thread, Silence

LEMMA TypeInit == Init => TypeOK
<1> SUFFICES ASSUME Init PROVE TypeOK
  OBVIOUS
<1>1. load \in Loads
  BY DEF Init
<1>2. 0 \in 0 .. Largest /\ Piece(0, FALSE) \in PieceType
  BY <1>1, LoadTypes DEF Piece, PieceType
<1>3. q \in [Links -> Seq(PieceType)]
  <2>1. q = [l \in Links |-> <<>>]
    BY DEF Init
  <2>2. \A S : <<>> \in Seq(S)
    OBVIOUS
  <2> QED
    BY <2>1, <2>2
<1>4. /\ sent \in [Endpoints -> 0 .. Largest] /\ got \in [Endpoints -> 0 .. Largest]
      /\ held \in [Sides -> PieceType]
  BY <1>2 DEF Init
<1>5. /\ fin \in [Links -> BOOLEAN] /\ rst \in [Links -> BOOLEAN]
      /\ wrong \in [Endpoints -> BOOLEAN] /\ ttl \in [Endpoints -> BOOLEAN]
      /\ torn \in [Sides -> BOOLEAN]
  BY DEF Init
<1>6. /\ end \in [Endpoints -> {"open", "shut", "gone"}]
      /\ pc \in [Sides -> PcValues]
  BY DEF Init
<1> QED
  BY <1>1, <1>3, <1>4, <1>5, <1>6 DEF TypeOK

LEMMA TypeNext == TypeOK /\ [Next]_vars => TypeOK'
<1> SUFFICES ASSUME TypeOK, [Next]_vars PROVE TypeOK'
  OBVIOUS
<1>1. CASE UNCHANGED vars
  BY <1>1 DEF vars, linkVars, endVars, sideVars, TypeOK, PieceType, Largest
<1> QED
  BY <1>1, EndpointTypes, ThreadTypes DEF Next

\* The variables of the relay have their types, whatever the endpoints send.
THEOREM RelayTypes == Spec => []TypeOK
BY TypeInit, TypeNext, PTL DEF Spec

-----------------------------------------------------------------------------
(* How much of what the target sent can be under way *)

PeerHolds == IF pc["peer"] = "send" /\ held["peer"].enc THEN 1 ELSE 0

\* The peer may have put its TTL-expired reply on the link.
Over == IF pc["peer"] \in {"closing", "ended"} THEN 1 ELSE 0

Down1 == Len(q["down1"])
Down2 == Len(q["down2"])

UnderWay == Down1 + Down2 + PeerHolds

CountInv == ~load.endless => UnderWay <= sent["target"] + Over

LEMMA Lengths ==
  ASSUME TypeOK
  PROVE  /\ Down1 \in Nat /\ Down2 \in Nat /\ sent["target"] \in Nat
         /\ PeerHolds \in 0 .. 1 /\ Over \in 0 .. 1
<1>1. q["down1"] \in Seq(PieceType) /\ q["down2"] \in Seq(PieceType)
  BY DEF TypeOK, Links
<1>2. sent["target"] \in Nat
  BY LoadTypes DEF TypeOK, Endpoints
<1>3. Down1 \in Nat /\ Down2 \in Nat
  BY <1>1 DEF Down1, Down2
<1>4. PeerHolds \in 0 .. 1 /\ Over \in 0 .. 1
  BY DEF PeerHolds, Over
<1> QED
  BY <1>2, <1>3, <1>4

LEMMA NextLengths ==
  ASSUME TypeOK'
  PROVE  Down1' \in Nat /\ Down2' \in Nat /\ PeerHolds' \in 0 .. 1 /\ Over' \in 0 .. 1
<1>1. q'["down1"] \in Seq(PieceType') /\ q'["down2"] \in Seq(PieceType')
  BY DEF TypeOK, Links
<1>2. Down1' \in Nat /\ Down2' \in Nat
  BY <1>1 DEF Down1, Down2
<1> QED
  BY <1>2 DEF PeerHolds, Over

\* A link that grows, shrinks or stays.
LEMMA Grown ==
  ASSUME TypeOK, NEW l \in Links, NEW x \in PieceType, q' = [q EXCEPT ![l] = Append(@, x)]
  PROVE  /\ Down1' = Down1 + (IF l = "down1" THEN 1 ELSE 0)
         /\ Down2' = Down2 + (IF l = "down2" THEN 1 ELSE 0)
<1>1. /\ q["down1"] \in Seq(PieceType) /\ q["down2"] \in Seq(PieceType)
      /\ q \in [Links -> Seq(PieceType)]
  BY DEF TypeOK, Links
<1>2. /\ q'["down1"] = IF l = "down1" THEN Append(q["down1"], x) ELSE q["down1"]
      /\ q'["down2"] = IF l = "down2" THEN Append(q["down2"], x) ELSE q["down2"]
  BY <1>1 DEF Links
<1>3. l = "down1" => Down1' = Down1 + 1
  BY <1>1, <1>2, AppendTypes DEF Down1
<1>4. l = "down2" => Down2' = Down2 + 1
  BY <1>1, <1>2, AppendTypes DEF Down2
<1>5. /\ l # "down1" => Down1' = Down1
      /\ l # "down2" => Down2' = Down2
  BY <1>2 DEF Down1, Down2
<1>6. Down1 \in Nat /\ Down2 \in Nat
  BY Lengths
<1> QED
  BY <1>3, <1>4, <1>5, <1>6

LEMMA Shrunk ==
  ASSUME TypeOK, NEW l \in Links, q[l] # <<>>, q' = [q EXCEPT ![l] = Tail(@)]
  PROVE  /\ Down1' = Down1 - (IF l = "down1" THEN 1 ELSE 0)
         /\ Down2' = Down2 - (IF l = "down2" THEN 1 ELSE 0)
<1>1. /\ q["down1"] \in Seq(PieceType) /\ q["down2"] \in Seq(PieceType)
      /\ q \in [Links -> Seq(PieceType)]
  BY DEF TypeOK, Links
<1>2. /\ q'["down1"] = IF l = "down1" THEN Tail(q["down1"]) ELSE q["down1"]
      /\ q'["down2"] = IF l = "down2" THEN Tail(q["down2"]) ELSE q["down2"]
  BY <1>1 DEF Links
<1>3. l = "down1" => Down1' = Down1 - 1
  BY <1>1, <1>2, TailTypes DEF Down1
<1>4. l = "down2" => Down2' = Down2 - 1
  BY <1>1, <1>2, TailTypes DEF Down2
<1>5. /\ l # "down1" => Down1' = Down1
      /\ l # "down2" => Down2' = Down2
  BY <1>2 DEF Down1, Down2
<1>6. Down1 \in Nat /\ Down2 \in Nat
  BY Lengths
<1> QED
  BY <1>3, <1>4, <1>5, <1>6

LEMMA Cut ==
  ASSUME TypeOK, NEW l \in Links, NEW in, NEW x \in Surviving(l, in),
         NEW p, p = [q EXCEPT ![l] = x]
  PROVE  Len(p["down1"]) <= Down1 /\ Len(p["down2"]) <= Down2
<1>1. /\ q["down1"] \in Seq(PieceType) /\ q["down2"] \in Seq(PieceType)
      /\ q \in [Links -> Seq(PieceType)]
  BY DEF TypeOK, Links
<1>2. Len(x) <= Len(q[l])
  BY <1>1, SurvivingTypes
<1>3. /\ p["down1"] = IF l = "down1" THEN x ELSE q["down1"]
      /\ p["down2"] = IF l = "down2" THEN x ELSE q["down2"]
  BY <1>1 DEF Links
<1> QED
  BY <1>1, <1>2, <1>3 DEF Down1, Down2

\* Nothing the ends do brings anything on the way that was not sent.
LEMMA EndpointCounts ==
  ASSUME TypeOK, CountInv, NEW e \in Endpoints, Endpoint(e), TypeOK'
  PROVE  CountInv'
<1> SUFFICES ASSUME ~load.endless PROVE UnderWay' <= sent'["target"] + Over'
  BY DEF CountInv, Endpoint
<1>1. UnderWay <= sent["target"] + Over
  BY DEF CountInv
<1>2. /\ Down1 \in Nat /\ Down2 \in Nat /\ sent["target"] \in Nat
      /\ PeerHolds \in 0 .. 1 /\ Over \in 0 .. 1
  BY Lengths
<1>3. Down1' \in Nat /\ Down2' \in Nat
  BY NextLengths
<1>4. PeerHolds' = PeerHolds /\ Over' = Over
  BY DEF Endpoint, EndSends, EndReads, EndCloses, sideVars, PeerHolds, Over
<1>5. CASE EndSends(e)
  <2>1. /\ Down1' = Down1 + (IF e = "target" THEN 1 ELSE 0)
        /\ Down2' = Down2
    <3>1. sent'[e] \in 0 .. Largest' /\ Largest' = Largest
      BY DEF TypeOK, Endpoint, Largest
    <3>2. Piece(sent'[e], FALSE) \in PieceType
      BY <3>1 DEF Piece, PieceType
    <3>3. q' = [q EXCEPT ![FromEnd(e)] = Append(@, Piece(sent'[e], FALSE))]
      BY <1>5 DEF EndSends
    <3>4. FromEnd(e) \in Links /\ FromEnd(e) # "down2" /\ (FromEnd(e) = "down1" <=> e = "target")
      BY DEF FromEnd, Links, Endpoints
    <3> QED
      <4>1. /\ Down1' = Down1 + (IF FromEnd(e) = "down1" THEN 1 ELSE 0)
            /\ Down2' = Down2 + (IF FromEnd(e) = "down2" THEN 1 ELSE 0)
        BY <3>2, <3>3, <3>4, Grown
      <4> QED
        BY <1>2, <3>4, <4>1
  <2>2. sent'["target"] = sent["target"] + (IF e = "target" THEN 1 ELSE 0)
    <3>1. CASE e = "target"
      <4>1. load.pieces[e] \in Nat /\ load.pieces[e] > 0 /\ sent[e] < load.pieces[e]
        BY <1>5, <3>1, LoadTypes DEF EndSends, TypeOK
      <4>2. Next1(sent[e], load.pieces[e]) = sent[e] + 1
        BY <1>2, <3>1, <4>1, NextTypes
      <4> QED
        BY <1>5, <3>1, <4>2 DEF EndSends, TypeOK
    <3>2. CASE e # "target"
      BY <1>2, <1>5, <3>2 DEF EndSends, TypeOK, Endpoints
    <3> QED
      BY <3>1, <3>2
  <2> QED
    BY <1>1, <1>2, <1>3, <1>4, <2>1, <2>2 DEF UnderWay
<1>6. CASE EndReads(e)
  <2>1. ToEnd(e) \in Links /\ ToEnd(e) \notin {"down1", "down2"}
    BY DEF ToEnd, Links, Endpoints
  <2>2. Down1' = Down1 /\ Down2' = Down2 /\ sent' = sent
    <3>1. q[ToEnd(e)] # <<>> /\ q' = [q EXCEPT ![ToEnd(e)] = Tail(@)] /\ sent' = sent
      BY <1>6 DEF EndReads
    <3>2. /\ Down1' = Down1 - (IF ToEnd(e) = "down1" THEN 1 ELSE 0)
          /\ Down2' = Down2 - (IF ToEnd(e) = "down2" THEN 1 ELSE 0)
      BY <2>1, <3>1, Shrunk
    <3> QED
      BY <1>2, <2>1, <3>1, <3>2
  <2> QED
    BY <1>1, <1>2, <1>3, <1>4, <2>2 DEF UnderWay
<1>7. CASE EndCloses(e)
  <2>1. Down1' <= Down1 /\ Down2' <= Down2 /\ sent' = sent
    <3>1. CASE q' = q
      BY <1>2, <1>7, <3>1 DEF EndCloses, Down1, Down2
    <3>2. CASE \E p \in Surviving(FromEnd(e), ToEnd(e)) : q' = [q EXCEPT ![FromEnd(e)] = p]
      <4>1. PICK p \in Surviving(FromEnd(e), ToEnd(e)) : q' = [q EXCEPT ![FromEnd(e)] = p]
        BY <3>2
      <4>2. Len(q'["down1"]) <= Down1 /\ Len(q'["down2"]) <= Down2
        BY <4>1, LinkTypes, Cut
      <4> QED
        BY <1>7, <4>2 DEF Down1, Down2, EndCloses
    <3> QED
      BY <1>7, <3>1, <3>2 DEF EndCloses
  <2> QED
    BY <1>1, <1>2, <1>3, <1>4, <2>1 DEF UnderWay
<1> QED
  BY <1>5, <1>6, <1>7 DEF Endpoint

\* The proxy takes from the link only, and does nothing to the peer.
LEMMA ProxyCounts ==
  ASSUME TypeOK, NEW s \in Sides, s = "proxy", Thread(s) \/ Silence(s)
  PROVE  PeerHolds' = PeerHolds /\ Over' = Over
<1>1. CASE ReadTorn(s) \/ MidBlock(s)
  BY <1>1, PartTypes DEF TypeOK, PeerHolds, Over, Sides
<1> QED
  BY <1>1 DEF Thread, Silence, ReadPiece, ReadEnd, SendPiece, SendLost, Close, Timeout,
              linkVars, TypeOK, PeerHolds, Over, Sides

\* The peer moves a piece at a time; its reply is the only one it adds.
LEMMA ThreadCounts ==
  ASSUME TypeOK, CountInv, NEW s \in Sides, Thread(s) \/ Silence(s), TypeOK'
  PROVE  CountInv'
<1> SUFFICES ASSUME ~load.endless PROVE UnderWay' <= sent'["target"] + Over'
  BY DEF CountInv, Thread, Silence
<1>1. UnderWay <= sent["target"] + Over
  BY DEF CountInv
<1>2. /\ Down1 \in Nat /\ Down2 \in Nat /\ sent["target"] \in Nat
      /\ PeerHolds \in 0 .. 1 /\ Over \in 0 .. 1
  BY Lengths
<1>3. Down1' \in Nat /\ Down2' \in Nat /\ PeerHolds' \in 0 .. 1 /\ Over' \in 0 .. 1
  BY NextLengths
<1>4. sent' = sent
  BY DEF Thread, Silence, ReadPiece, ReadTorn, MidBlock, ReadEnd, SendPiece, SendLost,
         Close, Timeout, endVars
<1>5. /\ pc \in [Sides -> PcValues]
      /\ held \in [Sides -> PieceType]
  BY DEF TypeOK
<1>6. CASE ReadPiece(s)
  <2>1. PICK in \in {PlainIn(s), EncIn(s)} :
          /\ q[in] # <<>>
          /\ held' = [held EXCEPT ![s] = Piece(Head(q[in]).num, in = PlainIn(s))]
          /\ q' = [q EXCEPT ![in] = Tail(@)]
    BY <1>6 DEF ReadPiece
  <2>2. pc[s] = "select" /\ pc' = [pc EXCEPT ![s] = "send"]
    BY <1>6 DEF ReadPiece
  <2>3. /\ Down1' = Down1 - (IF in = "down1" THEN 1 ELSE 0)
        /\ Down2' = Down2 - (IF in = "down2" THEN 1 ELSE 0)
    BY <2>1, LinkTypes, Shrunk
  <2>4. CASE s = "proxy"
    <3>1. PeerHolds' = PeerHolds /\ Over' = Over
      BY <2>4, ProxyCounts
    <3> QED
      BY <1>1, <1>2, <1>3, <1>4, <2>3, <3>1 DEF UnderWay
  <2>5. CASE s = "peer"
    <3>1. in = "down1" \/ in = "up2"
      BY <2>1, <2>5 DEF PlainIn, EncIn
    <3>2. PeerHolds = 0 /\ Over = 0 /\ Over' = 0
      BY <1>5, <2>2, <2>5 DEF PeerHolds, Over
    <3>3. held'["peer"].enc = (in = "down1")
      BY <1>5, <2>1, <2>5 DEF Piece, PlainIn
    <3>4. PeerHolds' = IF in = "down1" THEN 1 ELSE 0
      BY <1>5, <2>2, <2>5, <3>3 DEF PeerHolds
    <3> QED
      BY <1>1, <1>2, <1>3, <1>4, <2>3, <3>1, <3>2, <3>4 DEF UnderWay
  <2> QED
    BY <2>4, <2>5 DEF Sides
<1>7. CASE SendPiece(s)
  <2>1. /\ q' = [q EXCEPT ![Out(s)] = Append(@, held[s])]
        /\ pc[s] \in {"send", "lastsend"} /\ held' = held
        /\ pc' = [pc EXCEPT ![s] = AfterSend(s)]
    BY <1>7 DEF SendPiece, Sending
  <2>2. /\ Down1' = Down1 + (IF Out(s) = "down1" THEN 1 ELSE 0)
        /\ Down2' = Down2 + (IF Out(s) = "down2" THEN 1 ELSE 0)
    BY <1>5, <2>1, LinkTypes, Grown
  <2>3. CASE s = "proxy"
    <3>1. Out(s) \notin {"down1", "down2"}
      BY <2>3 DEF Out, EncOut, PlainOut
    <3>2. PeerHolds' = PeerHolds /\ Over' = Over
      BY <2>3, ProxyCounts
    <3> QED
      BY <1>1, <1>2, <1>3, <1>4, <2>2, <3>1, <3>2 DEF UnderWay
  <2>4. CASE s = "peer"
    <3>1. Out(s) # "down1" /\ (Out(s) = "down2" => held["peer"].enc)
      BY <2>4 DEF Out, EncOut, PlainOut
    <3>2. Over = 0 /\ PeerHolds' = 0
      BY <1>5, <2>1, <2>4 DEF Over, PeerHolds, AfterSend
    <3>3. pc["peer"] = "send" /\ held["peer"].enc => PeerHolds = 1
      BY DEF PeerHolds
    <3>4. pc["peer"] = "lastsend" => Over' = 1
      BY <1>5, <2>1, <2>4 DEF Over, AfterSend
    <3> QED
      BY <1>1, <1>2, <1>3, <1>4, <2>1, <2>2, <2>4, <3>1, <3>2, <3>3, <3>4 DEF UnderWay
  <2> QED
    BY <2>3, <2>4 DEF Sides
<1>8. CASE Close(s)
  <2>1. PICK p \in Surviving(PlainOut(s), PlainIn(s)), x \in Surviving(EncOut(s), EncIn(s)) :
          q' = [q EXCEPT ![PlainOut(s)] = p, ![EncOut(s)] = x]
    BY <1>8 DEF Close
  <2>2. q \in [Links -> Seq(PieceType)] /\ EncOut(s) \in Links
        /\ PlainOut(s) \in {"down3", "up3"}
    BY LinkTypes DEF TypeOK, PlainOut
  <2>3. LET r == [q EXCEPT ![EncOut(s)] = x]
        IN  /\ q'["down1"] = r["down1"] /\ q'["down2"] = r["down2"]
            /\ Len(r["down1"]) <= Down1 /\ Len(r["down2"]) <= Down2
    <3> DEFINE r == [q EXCEPT ![EncOut(s)] = x]
    <3>1. q'["down1"] = r["down1"] /\ q'["down2"] = r["down2"]
      BY <2>1, <2>2 DEF Links
    <3>2. Len(r["down1"]) <= Down1 /\ Len(r["down2"]) <= Down2
      BY <2>2, Cut
    <3> QED
      BY <3>1, <3>2
  <2>4. Down1' <= Down1 /\ Down2' <= Down2
    BY <2>3 DEF Down1, Down2
  <2>5. Over' = Over /\ PeerHolds' = PeerHolds
    BY <1>5, <1>8 DEF Close, Over, PeerHolds, Sides
  <2> QED
    BY <1>1, <1>2, <1>3, <1>4, <2>4, <2>5 DEF UnderWay
<1>9. CASE ReadEnd(s) \/ SendLost(s) \/ Timeout(s)
  <2>1. Down1' = Down1 /\ Down2' = Down2
    BY <1>9 DEF ReadEnd, SendLost, Timeout, linkVars, Down1, Down2
  <2>2. PeerHolds' <= PeerHolds /\ Over' >= Over
    <3>1. CASE s = "proxy"
      BY <1>2, <3>1, ProxyCounts
    <3>2. CASE s = "peer"
      <4>1. pc["peer"] \in {"select", "send", "lastsend"}
        BY <1>9, <3>2 DEF ReadEnd, SendLost, Timeout, Sending
      <4>2. pc'["peer"] = "send" => pc["peer"] = "send" /\ held' = held
        BY <1>5, <1>9, <3>2 DEF ReadEnd, SendLost, Timeout, Sending, AfterSend, AfterFailedSend
      <4>3. Over = 0
        BY <4>1 DEF Over
      <4>4. PeerHolds' = 1 => PeerHolds = 1
        BY <4>2 DEF PeerHolds
      <4> QED
        BY <1>2, <1>3, <4>3, <4>4
    <3> QED
      BY <3>1, <3>2 DEF Sides
  <2> QED
    BY <1>1, <1>2, <1>3, <1>4, <2>1, <2>2 DEF UnderWay
<1>10. CASE ReadTorn(s) \/ MidBlock(s)
  <2>1. Down1' <= Down1 /\ Down2' <= Down2
    <3>1. CASE q' = q
      BY <1>2, <3>1 DEF Down1, Down2
    <3>2. CASE \E x \in Leftover(q[EncIn(s)]) : q' = [q EXCEPT ![EncIn(s)] = x]
      <4>1. PICK x \in Leftover(q[EncIn(s)]) : q' = [q EXCEPT ![EncIn(s)] = x]
        BY <3>2
      <4>2. /\ EncIn(s) \in Links /\ EncIn(s) \in {"down2", "up2"}
            /\ q \in [Links -> Seq(PieceType)]
        BY LinkTypes DEF EncIn, TypeOK
      <4>3. Len(x) <= Len(q[EncIn(s)])
        BY <4>2, LeftoverTypes DEF TypeOK
      <4>4. q'["down1"] = q["down1"] /\ Down1' = Down1
        BY <4>1, <4>2 DEF Down1, Links
      <4>5. q'["down2"] = IF EncIn(s) = "down2" THEN x ELSE q["down2"]
        BY <4>1, <4>2 DEF Links
      <4>6. Down2' <= Down2
        BY <1>2, <4>3, <4>5 DEF Down2
      <4> QED
        BY <1>2, <4>4, <4>6
    <3> QED
      BY <1>10, <3>1, <3>2, PartTypes
  <2>2. PeerHolds' <= PeerHolds /\ Over' >= Over
    <3>1. CASE s = "proxy"
      BY <1>2, <3>1, ProxyCounts
    <3>2. CASE s = "peer"
      <4>1. PeerHolds' = 0 /\ Over = 0
        BY <1>5, <1>10, <3>2, PartTypes DEF PeerHolds, Over, Piece
      <4> QED
        BY <1>2, <1>3, <4>1
    <3> QED
      BY <3>1, <3>2 DEF Sides
  <2> QED
    BY <1>1, <1>2, <1>3, <1>4, <2>1, <2>2 DEF UnderWay
<1> QED
  BY <1>6, <1>7, <1>8, <1>9, <1>10 DEF Thread, Silence

\* However long the links are and however much the application sends, the two
\* threads never wait for each other to read before the target has sent as
\* much as one link holds: what blocks the peer was sent by the target.
THEOREM NoBlock == Spec => []NoMutualBlock
<1>1. Init => CountInv
  <2> SUFFICES ASSUME Init PROVE CountInv
    OBVIOUS
  <2>1. /\ q["down1"] = <<>> /\ q["down2"] = <<>> /\ sent["target"] = 0
        /\ pc["peer"] = "select"
    BY DEF Init, Links, Endpoints, Sides
  <2>2. Down1 = 0 /\ Down2 = 0 /\ PeerHolds = 0 /\ Over = 0
    BY <2>1 DEF Down1, Down2, PeerHolds, Over
  <2> QED
    BY <2>1, <2>2 DEF CountInv, UnderWay
<1>2. TypeOK /\ CountInv /\ [Next]_vars => CountInv'
  <2> SUFFICES ASSUME TypeOK, CountInv, [Next]_vars PROVE CountInv'
    OBVIOUS
  <2>1. CASE UNCHANGED vars
    BY <2>1 DEF vars, linkVars, endVars, sideVars, CountInv, UnderWay, Down1, Down2,
                PeerHolds, Over
  <2> QED
    BY <2>1, TypeNext, EndpointCounts, ThreadCounts DEF Next
<1>3. TypeOK /\ CountInv => NoMutualBlock
  <2> SUFFICES ASSUME TypeOK, CountInv, ~load.endless, sent["target"] < LinkCap,
                      Blocked("peer"), Out("peer") = "down2"
               PROVE  FALSE
    BY DEF NoMutualBlock
  <2>1. /\ Down1 \in Nat /\ Down2 \in Nat /\ sent["target"] \in Nat
        /\ PeerHolds \in 0 .. 1 /\ LinkCap \in Nat
    BY Lengths, LinkCapAssumption
  <2>2. ~(Down2 < LinkCap) /\ Over = 0
    BY DEF Blocked, Room, Sending, Over, Down2
  <2> QED
    BY <2>1, <2>2 DEF CountInv, UnderWay
<1> QED
  BY <1>1, <1>2, <1>3, TypeInit, TypeNext, PTL DEF Spec
=============================================================================
