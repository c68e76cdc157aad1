-------------------------- MODULE RelayOrderProofs --------------------------
(* The proof that the relay keeps the pieces in order, for links of every    *)
(* capacity and any number of pieces: until the thread in front of it tears  *)
(* a block, what an endpoint will still read is consecutive on the link to   *)
(* it, through that thread, on the link between the threads, and so on as    *)
(* far back as the threads still read.                                       *)
EXTENDS RelayProofs, SequenceTheorems

USE DEF PcValues, Torn

\* Numbers of pieces are compared from one piece to the next; base is the
\* number of the piece in front of the first.
Joins(k, n, m) == k # TtlReply => m > 0 /\ k = Next1(n, m)

Chain(x, base, m) ==
  \A i \in 1 .. Len(x) :
    Joins(x[i].num, IF i = 1 THEN base ELSE x[i - 1].num, m)

LastOf(x, base) == IF x = <<>> THEN base ELSE x[Len(x)].num

\* The two threads and the link between them on the way to e.
Near(e) == IF e = "app" THEN "peer" ELSE "proxy"
Far(e)  == IF e = "app" THEN "proxy" ELSE "peer"
Mid(e)  == IF e = "app" THEN "down2" ELSE "up2"
First(e) == FromEnd(Origin(e))

M(e) == load.pieces[Origin(e)]
Reading(s) == pc[s] \in {"select", "midblock", "send"}
FarHolds(e)  == pc[Far(e)] = "send" /\ ~held[Far(e)].enc
NearHolds(e) == pc[Near(e)] = "send" /\ held[Near(e)].enc

\* The number of the last piece that is past the far thread, the link, the
\* near thread, and everything.
Last3(e) == LastOf(q[ToEnd(e)], got[e])
Base2(e) == IF FarHolds(e) THEN held[Far(e)].num ELSE Last3(e)
Last2(e) == LastOf(q[Mid(e)], Base2(e))
Base1(e) == IF NearHolds(e) THEN held[Near(e)].num ELSE Last2(e)
Last1(e) == LastOf(q[First(e)], Base1(e))

\* What e will still read is consecutive: on the last link, and as far back
\* as the threads still read.
Begun(e) ==
  /\ Chain(q[ToEnd(e)], got[e], M(e))
  /\ FarHolds(e) => Joins(held[Far(e)].num, Last3(e), M(e))
Middle(e) ==
  /\ Chain(q[Mid(e)], Base2(e), M(e))
  /\ NearHolds(e) => Joins(held[Near(e)].num, Last2(e), M(e))
Rest(e) ==
  /\ Chain(q[First(e)], Base1(e), M(e))
  /\ end[Origin(e)] = "open" => Last1(e) = sent[Origin(e)]

Stream(e) ==
  end[e] # "gone" /\ ~torn[Far(e)] =>
    /\ Begun(e)
    /\ Reading(Far(e)) => Middle(e)
    /\ Reading(Far(e)) /\ Reading(Near(e)) => Rest(e)

\* The reply is the last thing the peer sends, and nothing else is one.
Done == pc["peer"] \in {"closing", "ended"}
Data(x) == \A i \in 1 .. Len(x) : x[i].num # TtlReply
TtlLast(x) == \A i \in 1 .. Len(x) : x[i].num = TtlReply => i = Len(x)
Plain(x) == \A i \in 1 .. Len(x) : x[i].enc = FALSE

HeldKinds ==
  /\ \A s \in Sides : pc[s] = "send" /\ held[s].enc => held[s].num # TtlReply
  /\ pc["peer"] = "send" => held["peer"].num # TtlReply
  /\ pc["proxy"] # "lastsend"
  /\ pc["peer"] = "lastsend" => held["peer"] = Piece(TtlReply, TRUE)

LinkKinds ==
  /\ \A l \in {"up1", "up2", "up3", "down1"} : Data(q[l])
  /\ TtlLast(q["down2"]) /\ TtlLast(q["down3"])
  /\ Plain(q["up3"]) /\ Plain(q["down3"])

\* Behind the reply there is nothing.
Behind ==
  /\ ~Data(q["down2"]) => Done
  /\ FarHolds("app") /\ held["proxy"].num = TtlReply => Done /\ q["down2"] = <<>>
  /\ ~Data(q["down3"]) => Done /\ q["down2"] = <<>> /\ ~FarHolds("app")
  /\ ttl["app"] => Done /\ q["down2"] = <<>> /\ ~FarHolds("app") /\ q["down3"] = <<>>

OrderInv ==
  /\ HeldKinds /\ LinkKinds /\ Behind
  /\ \A e \in Endpoints : Stream(e)
  /\ InOrder

-----------------------------------------------------------------------------
(* Sequences of pieces *)

LEMMA Emptiness ==
  ASSUME NEW S, NEW x \in Seq(S)
  PROVE  Len(x) \in Nat /\ (x = <<>> <=> Len(x) = 0)
OBVIOUS

LEMMA TailOfOne ==
  ASSUME NEW S, NEW x \in Seq(S), Len(x) = 1
  PROVE  Tail(x) = <<>>
<1>1. x # <<>>
  OBVIOUS
<1>2. Tail(x) \in Seq(S) /\ Len(Tail(x)) = Len(x) - 1
  BY <1>1, TailTypes
<1> DEFINE t == Tail(x)
<1> HIDE DEF t
<1>3. t \in Seq(S) /\ Len(t) = 0
  BY <1>2 DEF t
<1>4. t = <<>>
  BY <1>3, Emptiness
<1> QED
  BY <1>4 DEF t

LEMMA ChainAppend ==
  ASSUME NEW S, NEW x \in Seq(S), NEW y \in S, NEW n, NEW m,
         Chain(x, n, m), Joins(y.num, LastOf(x, n), m)
  PROVE  Chain(Append(x, y), n, m) /\ LastOf(Append(x, y), n) = y.num
<1>1. /\ Append(x, y) \in Seq(S) /\ Len(Append(x, y)) = Len(x) + 1 /\ Len(x) \in Nat
      /\ \A i \in 1 .. Len(x) : Append(x, y)[i] = x[i]
      /\ Append(x, y)[Len(x) + 1] = y
  BY AppendTypes
<1>2. LastOf(Append(x, y), n) = y.num
  BY <1>1 DEF LastOf
<1>3. ASSUME NEW i \in 1 .. Len(Append(x, y))
      PROVE  Joins(Append(x, y)[i].num, IF i = 1 THEN n ELSE Append(x, y)[i - 1].num, m)
  <2>1. CASE i \in 1 .. Len(x)
    <3>1. Joins(x[i].num, IF i = 1 THEN n ELSE x[i - 1].num, m)
      BY <2>1 DEF Chain
    <3>2. Append(x, y)[i] = x[i] /\ (i # 1 => Append(x, y)[i - 1] = x[i - 1])
      BY <1>1, <2>1
    <3> QED
      BY <3>1, <3>2
  <2>2. CASE i = Len(x) + 1
    <3>1. x = <<>> <=> i = 1
      BY <1>1, <2>2
    <3>2. LastOf(x, n) = IF i = 1 THEN n ELSE x[Len(x)].num
      BY <3>1 DEF LastOf
    <3>3. i # 1 => Append(x, y)[i - 1] = x[Len(x)]
      BY <1>1, <2>2
    <3> QED
      BY <1>1, <2>2, <3>2, <3>3
  <2> QED
    BY <1>1, <2>1, <2>2
<1> QED
  BY <1>2, <1>3 DEF Chain

LEMMA ChainTail ==
  ASSUME NEW S, NEW x \in Seq(S), x # <<>>, NEW n, NEW m, Chain(x, n, m)
  PROVE  /\ Joins(Head(x).num, n, m)
         /\ Chain(Tail(x), Head(x).num, m)
         /\ LastOf(Tail(x), Head(x).num) = LastOf(x, n)
<1>1. /\ Tail(x) \in Seq(S) /\ Len(Tail(x)) = Len(x) - 1 /\ Len(x) \in Nat \ {0}
      /\ Head(x) = x[1] /\ \A i \in 1 .. Len(x) - 1 : Tail(x)[i] = x[i + 1]
  BY TailTypes
<1>2. Joins(Head(x).num, n, m)
  <2>1. Joins(x[1].num, IF 1 = 1 THEN n ELSE x[1 - 1].num, m)
    BY <1>1 DEF Chain
  <2> QED
    BY <1>1, <2>1
<1>3. ASSUME NEW i \in 1 .. Len(Tail(x))
      PROVE  Joins(Tail(x)[i].num, IF i = 1 THEN Head(x).num ELSE Tail(x)[i - 1].num, m)
  <2>1. i + 1 \in 1 .. Len(x) /\ i + 1 # 1 /\ (i + 1) - 1 = i
    BY <1>1
  <2>2. Joins(x[i + 1].num, x[i].num, m)
    <3>1. Joins(x[i + 1].num, IF i + 1 = 1 THEN n ELSE x[(i + 1) - 1].num, m)
      BY <2>1 DEF Chain
    <3> QED
      BY <2>1, <3>1
  <2>3. Tail(x)[i] = x[i + 1] /\ (i # 1 => Tail(x)[i - 1] = x[i])
    BY <1>1
  <2> QED
    BY <1>1, <2>2, <2>3
<1>4. LastOf(Tail(x), Head(x).num) = LastOf(x, n)
  <2>1. LastOf(x, n) = x[Len(x)].num
    BY <1>1 DEF LastOf
  <2>2. CASE Len(x) = 1
    <3>1. Tail(x) = <<>>
      BY <2>2, TailOfOne
    <3> QED
      BY <1>1, <2>1, <2>2, <3>1 DEF LastOf
  <2>3. CASE Len(x) # 1
    <3>1. Len(x) - 1 \in 1 .. Len(x) - 1 /\ (Len(x) - 1) + 1 = Len(x)
      BY <1>1, <2>3
    <3>2. Tail(x)[Len(x) - 1] = x[Len(x)]
      BY <1>1, <3>1
    <3>3. Tail(x) # <<>>
      BY <1>1, <2>3, Emptiness
    <3> QED
      BY <1>1, <2>1, <3>2, <3>3 DEF LastOf
  <2> QED
    BY <2>2, <2>3
<1> QED
  BY <1>2, <1>3, <1>4 DEF Chain

LEMMA ChainPrefix ==
  ASSUME NEW S, NEW x \in Seq(S), NEW p \in Seq(S), Len(p) <= Len(x),
         \A i \in 1 .. Len(p) : p[i] = x[i], NEW n, NEW m, Chain(x, n, m)
  PROVE  Chain(p, n, m)
<1>1. Len(p) \in Nat /\ Len(x) \in Nat
  OBVIOUS
<1>2. ASSUME NEW i \in 1 .. Len(p)
      PROVE  Joins(p[i].num, IF i = 1 THEN n ELSE p[i - 1].num, m)
  <2>1. Joins(x[i].num, IF i = 1 THEN n ELSE x[i - 1].num, m)
    BY <1>1 DEF Chain
  <2>2. p[i] = x[i] /\ (i # 1 => p[i - 1] = x[i - 1])
    BY <1>1
  <2> QED
    BY <2>1, <2>2
<1> QED
  BY <1>2 DEF Chain

\* The same for the kinds of the pieces.
LEMMA KindsAppend ==
  ASSUME NEW S, NEW x \in Seq(S), NEW y \in S
  PROVE  /\ Data(x) => TtlLast(Append(x, y))
         /\ Data(x) /\ y.num # TtlReply => Data(Append(x, y))
<1>1. /\ Len(Append(x, y)) = Len(x) + 1 /\ Len(x) \in Nat
      /\ \A i \in 1 .. Len(x) : Append(x, y)[i] = x[i]
      /\ Append(x, y)[Len(x) + 1] = y
  BY AppendTypes
<1> QED
  BY <1>1 DEF Data, TtlLast

LEMMA KindsTail ==
  ASSUME NEW S, NEW x \in Seq(S), x # <<>>
  PROVE  /\ Data(x) => Data(Tail(x)) /\ Head(x).num # TtlReply
         /\ TtlLast(x) => TtlLast(Tail(x)) /\ (Head(x).num = TtlReply => Tail(x) = <<>>)
<1>1. /\ Tail(x) \in Seq(S) /\ Len(Tail(x)) = Len(x) - 1 /\ Len(x) \in Nat \ {0}
      /\ Head(x) = x[1] /\ \A i \in 1 .. Len(x) - 1 : Tail(x)[i] = x[i + 1]
  BY TailTypes
<1>2. 1 \in 1 .. Len(x) /\ \A i \in 1 .. Len(Tail(x)) : i + 1 \in 1 .. Len(x)
  BY <1>1
<1>3. Data(x) => Data(Tail(x)) /\ Head(x).num # TtlReply
  BY <1>1, <1>2 DEF Data
<1>4. TtlLast(x) => TtlLast(Tail(x))
  <2> SUFFICES ASSUME TtlLast(x), NEW i \in 1 .. Len(Tail(x)), Tail(x)[i].num = TtlReply
               PROVE  i = Len(Tail(x))
    BY DEF TtlLast
  <2>1. i + 1 \in 1 .. Len(x) /\ x[i + 1].num = TtlReply
    BY <1>1, <1>2
  <2>2. i + 1 = Len(x)
    BY <2>1 DEF TtlLast
  <2>3. Len(x) \in Nat /\ Len(Tail(x)) = Len(x) - 1 /\ i \in Int
    BY <1>1
  <2> QED
    BY <2>2, <2>3
<1>5. TtlLast(x) /\ Head(x).num = TtlReply => Tail(x) = <<>>
  <2>1. TtlLast(x) /\ Head(x).num = TtlReply => 1 = Len(x)
    BY <1>1, <1>2 DEF TtlLast
  <2> QED
    BY <2>1, TailOfOne
<1> QED
  BY <1>3, <1>4, <1>5

LEMMA KindsPrefix ==
  ASSUME NEW S, NEW x \in Seq(S), NEW p \in Seq(S), Len(p) <= Len(x),
         \A i \in 1 .. Len(p) : p[i] = x[i]
  PROVE  (Data(x) => Data(p)) /\ (TtlLast(x) => TtlLast(p))
<1>1. Len(p) \in Nat /\ Len(x) \in Nat
  OBVIOUS
<1> QED
  BY <1>1 DEF Data, TtlLast

-----------------------------------------------------------------------------
(* The way to e *)

LEMMA Ways ==
  ASSUME NEW e \in Endpoints
  PROVE  /\ Origin(e) \in Endpoints /\ Origin(e) # e
         /\ Near(e) \in Sides /\ Far(e) \in Sides /\ Near(e) # Far(e)
         /\ \A s \in Sides : s = Near(e) \/ s = Far(e)
         /\ First(e) \in Links /\ Mid(e) \in Links /\ ToEnd(e) \in Links
         /\ First(e) # Mid(e) /\ First(e) # ToEnd(e) /\ Mid(e) # ToEnd(e)
         /\ PlainIn(Near(e)) = First(e) /\ EncOut(Near(e)) = Mid(e)
         /\ EncIn(Far(e)) = Mid(e) /\ PlainOut(Far(e)) = ToEnd(e)
         /\ {EncIn(Near(e)), PlainOut(Near(e)), PlainIn(Far(e)), EncOut(Far(e)), FromEnd(e),
             ToEnd(Origin(e))} \cap {First(e), Mid(e), ToEnd(e)} = {}
         /\ \A o \in Endpoints : o = e \/ o = Origin(e)
BY DEF Endpoints, Sides, Links, Origin, Near, Far, First, Mid, ToEnd, FromEnd, PlainIn,
       PlainOut, EncIn, EncOut

LEMMA WayTypes ==
  ASSUME TypeOK, NEW e \in Endpoints
  PROVE  /\ q[First(e)] \in Seq(PieceType) /\ q[Mid(e)] \in Seq(PieceType)
         /\ q[ToEnd(e)] \in Seq(PieceType)
BY Ways DEF TypeOK

\* Nothing on the way to e changes, or no more than is not read any more.
Far3Same(e) ==
  /\ load' = load /\ got'[e] = got[e] /\ q'[ToEnd(e)] = q[ToEnd(e)]
  /\ FarHolds(e)' <=> FarHolds(e)
  /\ FarHolds(e) => held'[Far(e)].num = held[Far(e)].num

Mid2Same(e) ==
  /\ q'[Mid(e)] = q[Mid(e)]
  /\ NearHolds(e)' <=> NearHolds(e)
  /\ NearHolds(e) => held'[Near(e)].num = held[Near(e)].num

First1Same(e) ==
  /\ q'[First(e)] = q[First(e)]
  /\ end'[Origin(e)] = "open" =>
       end[Origin(e)] = "open" /\ sent'[Origin(e)] = sent[Origin(e)]

LEMMA BegunSame ==
  ASSUME NEW e \in Endpoints, Far3Same(e)
  PROVE  M(e)' = M(e) /\ Last3(e)' = Last3(e) /\ Base2(e)' = Base2(e) /\ (Begun(e) => Begun(e)')
<1>1. M(e)' = M(e) /\ Last3(e)' = Last3(e)
  BY DEF Far3Same, M, Last3
<1>2. Base2(e)' = Base2(e)
  BY <1>1 DEF Far3Same, Base2
<1>3. Begun(e) => Begun(e)'
  BY <1>1 DEF Far3Same, Begun
<1> QED
  BY <1>1, <1>2, <1>3

LEMMA MiddleSame ==
  ASSUME NEW e \in Endpoints, Base2(e)' = Base2(e), M(e)' = M(e), Mid2Same(e)
  PROVE  Last2(e)' = Last2(e) /\ Base1(e)' = Base1(e) /\ (Middle(e) => Middle(e)')
<1>1. Last2(e)' = Last2(e)
  BY DEF Mid2Same, Last2
<1>2. Base1(e)' = Base1(e)
  BY <1>1 DEF Mid2Same, Base1
<1>3. Middle(e) => Middle(e)'
  BY <1>1 DEF Mid2Same, Middle
<1> QED
  BY <1>1, <1>2, <1>3

LEMMA RestSame ==
  ASSUME NEW e \in Endpoints, Base1(e)' = Base1(e), M(e)' = M(e), First1Same(e)
  PROVE  Rest(e) => Rest(e)'
<1>1. Last1(e)' = Last1(e)
  BY DEF First1Same, Last1
<1> QED
  BY <1>1 DEF First1Same, Rest

\* Whoever still reads finds what was there.
LEMMA StreamSame ==
  ASSUME NEW e \in Endpoints, Stream(e), end'[e] # "gone" => end[e] # "gone",
         torn'[Far(e)] = torn[Far(e)], Far3Same(e),
         Reading(Far(e))' => Reading(Far(e)) /\ Mid2Same(e),
         Reading(Far(e))' /\ Reading(Near(e))' => Reading(Near(e)) /\ First1Same(e)
  PROVE  Stream(e)'
<1> SUFFICES ASSUME end'[e] # "gone", ~torn'[Far(e)] PROVE Stream(e)'
  BY DEF Stream
<1>1. Begun(e)' /\ M(e)' = M(e) /\ Base2(e)' = Base2(e)
  BY BegunSame DEF Stream
<1>2. Reading(Far(e))' => Middle(e)' /\ Base1(e)' = Base1(e)
  BY <1>1, MiddleSame DEF Stream
<1>3. Reading(Far(e))' /\ Reading(Near(e))' => Rest(e)'
  BY <1>1, <1>2, RestSame DEF Stream
<1> QED
  BY <1>1, <1>2, <1>3 DEF Stream

-----------------------------------------------------------------------------
(* Whoever closes leaves a prefix *)

Prefix(p, x) == p \in Seq(PieceType) /\ Len(p) <= Len(x) /\ \A i \in 1 .. Len(p) : p[i] = x[i]

LEMMA SurvivingPrefix ==
  ASSUME TypeOK, NEW l \in Links, NEW in, NEW p \in Surviving(l, in)
  PROVE  Prefix(p, q[l])
<1>1. q \in [Links -> Seq(PieceType)]
  BY DEF TypeOK
<1> QED
  BY <1>1, SurvivingTypes DEF Prefix

LEMMA CutChain ==
  ASSUME NEW l \in Links, TypeOK, Prefix(q'[l], q[l]), NEW n, NEW m, Chain(q[l], n, m)
  PROVE  Chain(q'[l], n, m)
<1>1. q[l] \in Seq(PieceType)
  BY DEF TypeOK
<1> QED
  BY <1>1, ChainPrefix DEF Prefix

LEMMA FarCloses ==
  ASSUME TypeOK, NEW e \in Endpoints, Stream(e), UNCHANGED <<end, torn>>, load' = load, got' = got,
         Prefix(q'[ToEnd(e)], q[ToEnd(e)]), ~FarHolds(e)', ~Reading(Far(e))'
  PROVE  Stream(e)'
<1> SUFFICES ASSUME end[e] # "gone", ~torn[Far(e)] PROVE Begun(e)'
  BY DEF Stream
<1>1. Chain(q[ToEnd(e)], got[e], M(e)) /\ M(e)' = M(e)
  BY DEF Stream, Begun, M
<1>2. ToEnd(e) \in Links
  BY Ways
<1>3. Chain(q'[ToEnd(e)], got[e], M(e))
  BY <1>1, <1>2, CutChain
<1> QED
  BY <1>1, <1>3 DEF Begun

LEMMA NearCloses ==
  ASSUME TypeOK, NEW e \in Endpoints, Stream(e), UNCHANGED <<end, torn>>, Far3Same(e),
         Reading(Far(e))' => Reading(Far(e)),
         Prefix(q'[Mid(e)], q[Mid(e)]), ~NearHolds(e)', ~Reading(Near(e))'
  PROVE  Stream(e)'
<1> SUFFICES ASSUME end[e] # "gone", ~torn[Far(e)]
              PROVE  Begun(e)' /\ (Reading(Far(e))' => Middle(e)')
  BY DEF Stream
<1>1. Begun(e)' /\ M(e)' = M(e) /\ Base2(e)' = Base2(e)
  BY BegunSame DEF Stream
<1>2. ASSUME Reading(Far(e))' PROVE Middle(e)'
  <2>1. Chain(q[Mid(e)], Base2(e), M(e))
    BY <1>2 DEF Stream, Middle
  <2>2. Mid(e) \in Links
    BY Ways
  <2>3. Chain(q'[Mid(e)], Base2(e), M(e))
    BY <2>1, <2>2, CutChain
  <2> QED
    BY <1>1, <2>3 DEF Middle
<1> QED
  BY <1>1, <1>2

LEMMA OriginCloses ==
  ASSUME TypeOK, NEW e \in Endpoints, Stream(e), end'[e] = end[e],
         torn' = torn, Far3Same(e), Mid2Same(e),
         Reading(Far(e))' => Reading(Far(e)), Reading(Near(e))' => Reading(Near(e)),
         Prefix(q'[First(e)], q[First(e)]), end'[Origin(e)] # "open"
  PROVE  Stream(e)'
<1> SUFFICES ASSUME end[e] # "gone", ~torn[Far(e)] PROVE Stream(e)'
  BY DEF Stream
<1>1. Begun(e)' /\ M(e)' = M(e) /\ Base2(e)' = Base2(e)
  BY BegunSame DEF Stream
<1>2. Reading(Far(e))' => Middle(e)' /\ Base1(e)' = Base1(e)
  BY <1>1, MiddleSame DEF Stream
<1>3. ASSUME Reading(Far(e))', Reading(Near(e))' PROVE Rest(e)'
  <2>1. Chain(q[First(e)], Base1(e), M(e))
    BY <1>3 DEF Stream, Rest
  <2>2. First(e) \in Links
    BY Ways
  <2>3. Chain(q'[First(e)], Base1(e), M(e))
    BY <2>1, <2>2, CutChain
  <2> QED
    BY <1>1, <1>2, <1>3, <2>3 DEF Rest
<1> QED
  BY <1>1, <1>2, <1>3 DEF Stream

-----------------------------------------------------------------------------
(* Whoever moves a piece *)

\* e reads a piece of data.
LEMMA DataRead ==
  ASSUME TypeOK, NEW e \in Endpoints, Stream(e), UNCHANGED <<end, torn>>, load' = load,
         q[ToEnd(e)] # <<>>, q'[ToEnd(e)] = Tail(q[ToEnd(e)]),
         end[e] # "gone", ~torn[Far(e)], got'[e] = Head(q[ToEnd(e)]).num,
         pc' = pc, held' = held, Mid2Same(e), First1Same(e)
  PROVE  Stream(e)'
<1>1. q[ToEnd(e)] \in Seq(PieceType)
  BY WayTypes
<1>2. Begun(e) /\ M(e)' = M(e)
  BY DEF Stream, M
<1>3. /\ Chain(q'[ToEnd(e)], got'[e], M(e))
      /\ LastOf(q'[ToEnd(e)], got'[e]) = LastOf(q[ToEnd(e)], got[e])
  BY <1>1, <1>2, ChainTail DEF Begun
<1>4. Last3(e)' = Last3(e) /\ FarHolds(e)' = FarHolds(e)
  BY <1>3 DEF Last3, FarHolds
<1>5. Base2(e)' = Base2(e)
  BY <1>4 DEF Base2
<1>6. Begun(e)'
  BY <1>2, <1>3, <1>4 DEF Begun
<1>7. Reading(Far(e))' => Middle(e)' /\ Base1(e)' = Base1(e)
  BY <1>2, <1>5, MiddleSame DEF Stream, Reading
<1>8. Reading(Far(e))' /\ Reading(Near(e))' => Rest(e)'
  BY <1>2, <1>7, RestSame DEF Stream, Reading
<1> QED
  BY <1>6, <1>7, <1>8 DEF Stream

\* e reads the reply; there is nothing behind it.
LEMMA ReplyRead ==
  ASSUME NEW e \in Endpoints, load' = load,
         q'[ToEnd(e)] = <<>>, q'[Mid(e)] = <<>>, ~FarHolds(e)', ~NearHolds(e)',
         ~Reading(Near(e))'
  PROVE  Stream(e)'
<1>1. \A n, m : Chain(<<>>, n, m)
  BY DEF Chain
<1> QED
  BY <1>1 DEF Stream, Begun, Middle

\* The thread in front of e reads a piece from the other one.
LEMMA FarTakes ==
  ASSUME TypeOK, NEW e \in Endpoints, Stream(e), UNCHANGED <<end, torn>>, load' = load, got' = got,
         Reading(Far(e)), ~FarHolds(e), FarHolds(e)',
         q[Mid(e)] # <<>>, q'[Mid(e)] = Tail(q[Mid(e)]), q'[ToEnd(e)] = q[ToEnd(e)],
         held'[Far(e)].num = Head(q[Mid(e)]).num,
         NearHolds(e)' <=> NearHolds(e), held'[Near(e)] = held[Near(e)],
         Reading(Near(e))' => Reading(Near(e)), First1Same(e)
  PROVE  Stream(e)'
<1> SUFFICES ASSUME end[e] # "gone", ~torn[Far(e)] PROVE Stream(e)'
  BY DEF Stream
<1>1. q[Mid(e)] \in Seq(PieceType)
  BY WayTypes
<1>2. M(e)' = M(e) /\ Last3(e)' = Last3(e) /\ Base2(e) = Last3(e)
  BY DEF M, Last3, Base2
<1>3. Base2(e)' = Head(q[Mid(e)]).num
  BY DEF Base2
<1>4. Chain(q[Mid(e)], Last3(e), M(e))
  BY <1>2 DEF Stream, Middle
<1>5. /\ Joins(Head(q[Mid(e)]).num, Last3(e), M(e))
      /\ Chain(q'[Mid(e)], Base2(e)', M(e))
      /\ LastOf(q'[Mid(e)], Base2(e)') = LastOf(q[Mid(e)], Base2(e))
  BY <1>1, <1>2, <1>3, <1>4, ChainTail
<1>6. Last2(e)' = Last2(e)
  BY <1>5 DEF Last2
<1>7. Base1(e)' = Base1(e)
  BY <1>6 DEF Base1
<1>8. Begun(e)'
  BY <1>2, <1>5 DEF Stream, Begun
<1>9. Middle(e)'
  BY <1>2, <1>5, <1>6 DEF Stream, Middle
<1>10. Reading(Near(e))' => Rest(e)'
  BY <1>2, <1>7, RestSame DEF Stream
<1> QED
  BY <1>8, <1>9, <1>10 DEF Stream

\* It sends it on.
LEMMA FarGives ==
  ASSUME TypeOK, NEW e \in Endpoints, Stream(e), UNCHANGED <<end, torn>>, load' = load, got' = got,
         FarHolds(e), ~FarHolds(e)', Reading(Far(e)),
         q'[ToEnd(e)] = Append(q[ToEnd(e)], held[Far(e)]),
         Mid2Same(e), First1Same(e), Reading(Near(e))' => Reading(Near(e))
  PROVE  Stream(e)'
<1> SUFFICES ASSUME end[e] # "gone", ~torn[Far(e)] PROVE Stream(e)'
  BY DEF Stream
<1>1. q[ToEnd(e)] \in Seq(PieceType) /\ held[Far(e)] \in PieceType
  BY Ways, WayTypes DEF TypeOK
<1>2. /\ Chain(q[ToEnd(e)], got[e], M(e)) /\ M(e)' = M(e)
      /\ Joins(held[Far(e)].num, LastOf(q[ToEnd(e)], got[e]), M(e))
  BY DEF Stream, Begun, M, Last3
<1>3. /\ Chain(q'[ToEnd(e)], got[e], M(e))
      /\ LastOf(q'[ToEnd(e)], got[e]) = held[Far(e)].num
  BY <1>1, <1>2, ChainAppend
<1>4. Begun(e)'
  BY <1>2, <1>3 DEF Begun
<1>5. Base2(e)' = Base2(e)
  BY <1>3 DEF Base2, Last3
<1>6. Middle(e)' /\ Base1(e)' = Base1(e)
  BY <1>2, <1>5, MiddleSame DEF Stream
<1>7. Reading(Near(e))' => Rest(e)'
  BY <1>2, <1>6, RestSame DEF Stream
<1> QED
  BY <1>4, <1>6, <1>7 DEF Stream

\* The thread behind the origin reads a piece from it.
LEMMA NearTakes ==
  ASSUME TypeOK, NEW e \in Endpoints, Stream(e), UNCHANGED <<end, torn>>, Far3Same(e),
         Reading(Far(e))' => Reading(Far(e)), Reading(Near(e)),
         ~NearHolds(e), NearHolds(e)', q'[Mid(e)] = q[Mid(e)],
         q[First(e)] # <<>>, q'[First(e)] = Tail(q[First(e)]),
         held'[Near(e)].num = Head(q[First(e)]).num, sent' = sent
  PROVE  Stream(e)'
<1> SUFFICES ASSUME end[e] # "gone", ~torn[Far(e)] PROVE Stream(e)'
  BY DEF Stream
<1>1. q[First(e)] \in Seq(PieceType)
  BY WayTypes
<1>2. Begun(e)' /\ M(e)' = M(e) /\ Base2(e)' = Base2(e)
  BY BegunSame DEF Stream
<1>3. ASSUME Reading(Far(e))' PROVE Middle(e)' /\ Rest(e)'
  <2>1. Last2(e)' = Last2(e) /\ Base1(e) = Last2(e)
    BY <1>2 DEF Last2, Base1
  <2>2. Base1(e)' = Head(q[First(e)]).num
    BY DEF Base1
  <2>3. Chain(q[First(e)], Last2(e), M(e))
    BY <1>3, <2>1 DEF Stream, Rest
  <2>4. /\ Joins(Head(q[First(e)]).num, Last2(e), M(e))
        /\ Chain(q'[First(e)], Base1(e)', M(e))
        /\ LastOf(q'[First(e)], Base1(e)') = LastOf(q[First(e)], Base1(e))
    BY <1>1, <2>1, <2>2, <2>3, ChainTail
  <2>5. Middle(e)'
    BY <1>2, <1>3, <2>1, <2>4 DEF Stream, Middle
  <2>6. Last1(e)' = Last1(e)
    BY <2>4 DEF Last1
  <2>7. Rest(e)'
    BY <1>2, <1>3, <2>4, <2>6 DEF Stream, Rest
  <2> QED
    BY <2>5, <2>7
<1> QED
  BY <1>2, <1>3 DEF Stream

\* It sends it to the other one; if it is the reply it reads no more.
LEMMA NearGives ==
  ASSUME TypeOK, NEW e \in Endpoints, Stream(e), UNCHANGED <<end, torn>>, Far3Same(e),
         Reading(Far(e))' => Reading(Far(e)), ~NearHolds(e)',
         q'[Mid(e)] = Append(q[Mid(e)], held[Near(e)]),
         NearHolds(e) \/ held[Near(e)].num = TtlReply,
         Reading(Near(e))' => Reading(Near(e)) /\ NearHolds(e), First1Same(e)
  PROVE  Stream(e)'
<1> SUFFICES ASSUME end[e] # "gone", ~torn[Far(e)] PROVE Stream(e)'
  BY DEF Stream
<1>1. q[Mid(e)] \in Seq(PieceType) /\ held[Near(e)] \in PieceType
  BY Ways, WayTypes DEF TypeOK
<1>2. Begun(e)' /\ M(e)' = M(e) /\ Base2(e)' = Base2(e)
  BY BegunSame DEF Stream
<1>3. ASSUME Reading(Far(e))' PROVE Middle(e)' /\ (Reading(Near(e))' => Rest(e)')
  <2>1. /\ Chain(q[Mid(e)], Base2(e), M(e))
        /\ Joins(held[Near(e)].num, LastOf(q[Mid(e)], Base2(e)), M(e))
    BY <1>3 DEF Stream, Middle, Last2, Joins
  <2>2. /\ Chain(q'[Mid(e)], Base2(e), M(e))
        /\ LastOf(q'[Mid(e)], Base2(e)) = held[Near(e)].num
    BY <1>1, <2>1, ChainAppend
  <2>3. Middle(e)'
    BY <1>2, <2>2 DEF Middle
  <2>4. NearHolds(e) => Base1(e)' = Base1(e)
    BY <1>2, <2>2 DEF Base1, Last2
  <2>5. Reading(Near(e))' => Rest(e)'
    BY <1>2, <1>3, <2>4, RestSame DEF Stream
  <2> QED
    BY <2>3, <2>5
<1> QED
  BY <1>2, <1>3 DEF Stream

\* The origin sends a piece.
LEMMA OriginSends ==
  ASSUME TypeOK, NEW e \in Endpoints, Stream(e), UNCHANGED <<end, torn>>, Far3Same(e), Mid2Same(e),
         pc' = pc, end[Origin(e)] = "open", NEW x \in PieceType,
         q'[First(e)] = Append(q[First(e)], x), x.num = sent'[Origin(e)],
         Joins(x.num, sent[Origin(e)], M(e))
  PROVE  Stream(e)'
<1> SUFFICES ASSUME end[e] # "gone", ~torn[Far(e)] PROVE Stream(e)'
  BY DEF Stream
<1>1. q[First(e)] \in Seq(PieceType)
  BY WayTypes
<1>2. Begun(e)' /\ M(e)' = M(e) /\ Base2(e)' = Base2(e)
  BY BegunSame DEF Stream
<1>3. Reading(Far(e))' => Middle(e)' /\ Base1(e)' = Base1(e) /\ Reading(Far(e))
  BY <1>2, MiddleSame DEF Stream, Reading
<1>4. ASSUME Reading(Far(e))', Reading(Near(e))' PROVE Rest(e)'
  <2>1. /\ Chain(q[First(e)], Base1(e), M(e))
        /\ LastOf(q[First(e)], Base1(e)) = sent[Origin(e)]
    BY <1>3, <1>4 DEF Stream, Rest, Last1, Reading
  <2>2. /\ Chain(q'[First(e)], Base1(e), M(e))
        /\ LastOf(q'[First(e)], Base1(e)) = x.num
    BY <1>1, <2>1, ChainAppend
  <2> QED
    BY <1>2, <1>3, <1>4, <2>2 DEF Rest, Last1
<1> QED
  BY <1>2, <1>3, <1>4 DEF Stream

-----------------------------------------------------------------------------
(* What each action does to the way to e *)

LEMMA ReadPieceStream ==
  ASSUME TypeOK, NEW s \in Sides, ReadPiece(s), load' = load, NEW e \in Endpoints, Stream(e)
  PROVE  Stream(e)'
<1> USE Ways
<1>1. PICK in \in {PlainIn(s), EncIn(s)} :
        /\ q[in] # <<>>
        /\ held' = [held EXCEPT ![s] = Piece(Head(q[in]).num, in = PlainIn(s))]
        /\ q' = [q EXCEPT ![in] = Tail(@)]
  BY DEF ReadPiece
<1>2. /\ pc[s] = "select" /\ pc' = [pc EXCEPT ![s] = "send"]
      /\ UNCHANGED <<end, got, sent, torn>>
  BY DEF ReadPiece, endVars
<1>3. /\ pc'[s] = "send" /\ held'[s].num = Head(q[in]).num /\ held'[s].enc = (in = PlainIn(s))
      /\ \A t \in Sides \ {s} : pc'[t] = pc[t] /\ held'[t] = held[t]
  BY <1>1, <1>2 DEF TypeOK, Piece
<1>4. /\ in \in Links /\ q'[in] = Tail(q[in]) /\ \A l \in Links \ {in} : q'[l] = q[l]
      /\ PlainIn(s) # EncIn(s)
  BY <1>1, LinkTypes DEF TypeOK, PlainIn, EncIn
<1>5. CASE s = Far(e) /\ in = Mid(e)
  <2>1. /\ ~FarHolds(e) /\ FarHolds(e)' /\ Reading(Far(e)) /\ (NearHolds(e)' <=> NearHolds(e))
        /\ Reading(Near(e))' => Reading(Near(e))
    BY <1>2, <1>3, <1>4, <1>5 DEF FarHolds, NearHolds, Reading
  <2>2. First1Same(e)
    BY <1>2, <1>4, <1>5 DEF First1Same
  <2> QED
    BY <1>1, <1>2, <1>3, <1>4, <1>5, <2>1, <2>2, FarTakes
<1>6. CASE s = Far(e) /\ in # Mid(e)
  <2>1. in = PlainIn(Far(e))
    BY <1>1, <1>6
  <2>2. Far3Same(e)
    BY <1>2, <1>3, <1>4, <1>6, <2>1 DEF Far3Same, FarHolds
  <2>3. Mid2Same(e) /\ First1Same(e)
    BY <1>2, <1>3, <1>4, <1>6, <2>1 DEF Mid2Same, First1Same, NearHolds
  <2>4. Reading(Far(e)) /\ (Reading(Near(e))' => Reading(Near(e)))
    BY <1>2, <1>3, <1>6 DEF Reading
  <2> QED
    BY <1>2, <2>2, <2>3, <2>4, StreamSame
<1>7. CASE s = Near(e) /\ in = First(e)
  <2>1. /\ ~NearHolds(e) /\ NearHolds(e)' /\ Reading(Near(e))
        /\ Reading(Far(e))' => Reading(Far(e))
    BY <1>2, <1>3, <1>4, <1>7 DEF NearHolds, Reading
  <2>2. Far3Same(e)
    BY <1>2, <1>3, <1>4, <1>7 DEF Far3Same, FarHolds
  <2> QED
    BY <1>1, <1>2, <1>3, <1>4, <1>7, <2>1, <2>2, NearTakes
<1>8. CASE s = Near(e) /\ in # First(e)
  <2>1. in = EncIn(Near(e))
    BY <1>1, <1>8
  <2>2. Far3Same(e)
    BY <1>2, <1>3, <1>4, <1>8, <2>1 DEF Far3Same, FarHolds
  <2>3. Mid2Same(e) /\ First1Same(e)
    BY <1>2, <1>3, <1>4, <1>8, <2>1 DEF Mid2Same, First1Same, NearHolds
  <2>4. (Reading(Far(e))' => Reading(Far(e))) /\ Reading(Near(e))
    BY <1>2, <1>3, <1>8 DEF Reading
  <2> QED
    BY <1>2, <2>2, <2>3, <2>4, StreamSame
<1> QED
  BY <1>5, <1>6, <1>7, <1>8

\* A read inside a block, one variable at a time.
LEMMA PartSteps ==
  ASSUME TypeOK, NEW s \in Sides, ReadTorn(s) \/ MidBlock(s)
  PROVE  /\ \A l \in Links \ {EncIn(s)} : q'[l] = q[l]
         /\ q'[EncIn(s)] = q[EncIn(s)] \/ q'[EncIn(s)] \in Leftover(q[EncIn(s)])
         /\ torn'[s] /\ \A t \in Sides \ {s} : torn'[t] = torn[t]
         /\ \A t \in Sides \ {s} : pc'[t] = pc[t] /\ held'[t] = held[t]
         /\ \/ pc'[s] = "send" /\ held'[s] = Piece(Torn, FALSE)
            \/ pc'[s] \in {"select", "midblock", "closing"} /\ held'[s] = held[s]
<1>1. /\ q \in [Links -> Seq(PieceType)] /\ pc \in [Sides -> PcValues]
      /\ held \in [Sides -> PieceType] /\ torn \in [Sides -> BOOLEAN]
      /\ EncIn(s) \in Links
  BY LinkTypes DEF TypeOK
<1>2. /\ \A l \in Links \ {EncIn(s)} : q'[l] = q[l]
      /\ q'[EncIn(s)] = q[EncIn(s)] \/ q'[EncIn(s)] \in Leftover(q[EncIn(s)])
  <2>1. CASE q' = q
    BY <2>1
  <2>2. CASE \E x \in Leftover(q[EncIn(s)]) : q' = [q EXCEPT ![EncIn(s)] = x]
    <3>1. PICK x \in Leftover(q[EncIn(s)]) : q' = [q EXCEPT ![EncIn(s)] = x]
      BY <2>2
    <3> QED
      BY <1>1, <3>1
  <2> QED
    BY <2>1, <2>2, PartTypes
<1>3. torn'[s] /\ \A t \in Sides \ {s} : torn'[t] = torn[t]
  BY <1>1, PartTypes
<1>4. CASE /\ pc' = [pc EXCEPT ![s] = "send"]
           /\ held' = [held EXCEPT ![s] = Piece(Torn, FALSE)]
  BY <1>1, <1>2, <1>3, <1>4
<1>5. CASE /\ \E p \in {"select", "midblock", "closing"} : pc' = [pc EXCEPT ![s] = p]
           /\ held' = held
  BY <1>1, <1>2, <1>3, <1>5
<1> QED
  BY <1>4, <1>5, PartTypes

\* A read inside a block: nothing of what the reader decodes counts any more,
\* and it leaves the other way alone.
LEMMA PartStream ==
  ASSUME TypeOK, NEW s \in Sides, ReadTorn(s) \/ MidBlock(s), load' = load,
         NEW e \in Endpoints, Stream(e)
  PROVE  Stream(e)'
<1> USE Ways
<1>1. pc[s] \in {"select", "midblock"} /\ UNCHANGED <<end, got, sent>>
  BY PartTypes
<1>2. CASE s = Far(e)
  <2>1. torn'[Far(e)]
    BY <1>2, PartSteps
  <2> QED
    BY <2>1 DEF Stream
<1>3. CASE s = Near(e)
  <2>1. \A l \in Links \ {EncIn(s)} : q'[l] = q[l]
    BY PartSteps
  <2>2. torn'[Far(e)] = torn[Far(e)]
    BY <1>3, PartSteps
  <2>3. /\ \A t \in Sides \ {s} : pc'[t] = pc[t] /\ held'[t] = held[t]
        /\ \/ pc'[s] = "send" /\ held'[s] = Piece(Torn, FALSE)
           \/ pc'[s] # "send"
    BY PartSteps
  <2>4. Far3Same(e)
    BY <1>1, <1>3, <2>1, <2>3 DEF Far3Same, FarHolds
  <2>5. ~NearHolds(e) /\ ~NearHolds(e)'
    BY <1>1, <1>3, <2>3 DEF NearHolds, Piece
  <2>6. Mid2Same(e) /\ First1Same(e)
    BY <1>1, <1>3, <2>1, <2>5 DEF Mid2Same, First1Same
  <2>7. (Reading(Far(e))' => Reading(Far(e))) /\ Reading(Near(e))
    BY <1>1, <1>3, <2>3 DEF Reading
  <2> QED
    BY <1>1, <2>2, <2>4, <2>6, <2>7, StreamSame
<1> QED
  BY <1>2, <1>3

\* Whoever stops reading without holding anything.
LEMMA StopStream ==
  ASSUME TypeOK, NEW s \in Sides, ReadEnd(s) \/ Timeout(s), load' = load,
         NEW e \in Endpoints, Stream(e)
  PROVE  Stream(e)'
<1> USE Ways
<1>1. /\ pc[s] = "select" /\ pc'[s] \in {"closing", "lastsend"}
      /\ \A t \in Sides \ {s} : pc'[t] = pc[t] /\ held'[t] = held[t]
      /\ UNCHANGED <<q, end, got, sent, torn>>
  <2>1. CASE ReadEnd(s)
    BY <2>1 DEF ReadEnd, linkVars, endVars, TypeOK
  <2>2. CASE Timeout(s)
    <3>1. pc[s] = "select" /\ UNCHANGED <<linkVars, endVars, torn>>
      BY <2>2 DEF Timeout
    <3>2. CASE s = "peer"
      <4>1. /\ held' = [held EXCEPT ![s] = Piece(TtlReply, TRUE)]
            /\ pc' = [pc EXCEPT ![s] = "lastsend"]
        BY <2>2, <3>2 DEF Timeout
      <4> QED
        BY <3>1, <4>1 DEF linkVars, endVars, TypeOK
    <3>3. CASE s # "peer"
      <4>1. held' = held /\ pc' = [pc EXCEPT ![s] = "closing"]
        BY <2>2, <3>3 DEF Timeout
      <4> QED
        BY <3>1, <4>1 DEF linkVars, endVars, TypeOK
    <3> QED
      BY <3>2, <3>3
  <2> QED
    BY <2>1, <2>2
<1>2. Far3Same(e)
  BY <1>1 DEF Far3Same, FarHolds
<1>3. Mid2Same(e) /\ First1Same(e)
  BY <1>1 DEF Mid2Same, First1Same, NearHolds
<1>4. (Reading(Far(e))' => Reading(Far(e))) /\ (Reading(Near(e))' => Reading(Near(e)))
  BY <1>1 DEF Reading
<1> QED
  BY <1>1, <1>2, <1>3, <1>4, StreamSame

LEMMA SendPieceStream ==
  ASSUME TypeOK, HeldKinds, NEW s \in Sides, SendPiece(s), load' = load,
         NEW e \in Endpoints, Stream(e)
  PROVE  Stream(e)'
<1> USE Ways
<1>1. /\ pc[s] \in {"send", "lastsend"} /\ held' = held
      /\ pc'[s] = IF pc[s] = "lastsend" THEN "closing" ELSE "select"
      /\ \A t \in Sides \ {s} : pc'[t] = pc[t]
      /\ UNCHANGED <<end, got, sent, torn>>
  BY DEF SendPiece, Sending, AfterSend, endVars, TypeOK
<1>2. /\ Out(s) \in Links /\ q'[Out(s)] = Append(q[Out(s)], held[s])
      /\ \A l \in Links \ {Out(s)} : q'[l] = q[l]
  BY LinkTypes DEF SendPiece, TypeOK
<1>3. /\ Out(s) = IF held[s].enc THEN EncOut(s) ELSE PlainOut(s)
      /\ held[s] \in PieceType
  BY DEF Out, TypeOK
<1>4. pc[s] = "lastsend" => s = "peer" /\ held[s].enc /\ held[s].num = TtlReply
  BY DEF HeldKinds, Sides, Piece
<1>5. (Reading(Far(e))' => Reading(Far(e))) /\ (Reading(Near(e))' => Reading(Near(e)))
  BY <1>1 DEF Reading
<1>6. CASE s = Far(e) /\ ~held[s].enc
  <2>1. FarHolds(e) /\ ~FarHolds(e)' /\ Reading(Far(e)) /\ Out(s) = ToEnd(e)
    BY <1>1, <1>3, <1>4, <1>6 DEF FarHolds, Reading
  <2>2. Mid2Same(e) /\ First1Same(e)
    BY <1>1, <1>2, <1>6, <2>1 DEF Mid2Same, First1Same, NearHolds
  <2> QED
    BY <1>1, <1>2, <1>5, <1>6, <2>1, <2>2, FarGives
<1>7. CASE s = Far(e) /\ held[s].enc
  <2>1. Out(s) \notin {First(e), Mid(e), ToEnd(e)}
    BY <1>3, <1>7
  <2>2. Far3Same(e) /\ Mid2Same(e) /\ First1Same(e)
    BY <1>1, <1>2, <1>7, <2>1 DEF Far3Same, Mid2Same, First1Same, FarHolds, NearHolds
  <2> QED
    BY <1>1, <1>5, <2>2, StreamSame
<1>8. CASE s = Near(e) /\ held[s].enc
  <2>1. /\ ~NearHolds(e)' /\ Out(s) = Mid(e)
        /\ NearHolds(e) \/ held[Near(e)].num = TtlReply
        /\ Reading(Near(e))' => Reading(Near(e)) /\ NearHolds(e)
    BY <1>1, <1>3, <1>4, <1>8 DEF NearHolds, Reading
  <2>2. Far3Same(e) /\ First1Same(e)
    BY <1>1, <1>2, <1>8, <2>1 DEF Far3Same, First1Same, FarHolds
  <2> QED
    BY <1>1, <1>2, <1>5, <1>8, <2>1, <2>2, NearGives
<1>9. CASE s = Near(e) /\ ~held[s].enc
  <2>1. Out(s) \notin {First(e), Mid(e), ToEnd(e)}
    BY <1>3, <1>9
  <2>2. Far3Same(e) /\ Mid2Same(e) /\ First1Same(e)
    BY <1>1, <1>2, <1>9, <2>1 DEF Far3Same, Mid2Same, First1Same, FarHolds, NearHolds
  <2> QED
    BY <1>1, <1>5, <2>2, StreamSame
<1> QED
  BY <1>6, <1>7, <1>8, <1>9

\* Who reads the links on the way to e.
LEMMA Readers ==
  ASSUME NEW e \in Endpoints
  PROVE  /\ \A o \in Endpoints : (ToEnd(o) = ToEnd(e) => o = e) /\ ToEnd(o) # Mid(e)
         /\ \A s \in Sides : /\ ToEnd(e) \notin {PlainIn(s), EncIn(s)}
                             /\ Mid(e) \in {PlainIn(s), EncIn(s)} => s = Far(e)
BY DEF Endpoints, Sides, ToEnd, Mid, PlainIn, EncIn, Far

\* What is lost would have reached nobody.
LEMMA SendLostStream ==
  ASSUME TypeOK, HeldKinds, NEW s \in Sides, SendLost(s), load' = load,
         NEW e \in Endpoints, Stream(e)
  PROVE  Stream(e)'
<1> USE Ways
<1>1. /\ pc[s] \in {"send", "lastsend"} /\ held' = held /\ q' = q
      /\ pc'[s] \in {"select", "closing"} /\ (pc'[s] = "select" => pc[s] = "send")
      /\ \A t \in Sides \ {s} : pc'[t] = pc[t]
      /\ UNCHANGED <<end, got, sent, torn>>
  <2>1. UNCHANGED <<q, held, end, got, sent, torn>> /\ pc[s] \in {"send", "lastsend"}
    BY DEF SendLost, Sending, endVars
  <2>2. pc' = [pc EXCEPT ![s] = AfterSend(s)] \/ pc' = [pc EXCEPT ![s] = AfterFailedSend(s)]
    BY DEF SendLost
  <2>3. s = "proxy" => pc[s] = "send"
    BY <2>1 DEF HeldKinds
  <2> QED
    BY <2>1, <2>2, <2>3 DEF AfterSend, AfterFailedSend, TypeOK
<1>2. Out(s) = IF held[s].enc THEN EncOut(s) ELSE PlainOut(s)
  BY DEF Out
<1>3. ReaderGone(Out(s))
  BY DEF SendLost
<1>4. (Reading(Far(e))' => Reading(Far(e))) /\ (Reading(Near(e))' => Reading(Near(e)))
  BY <1>1 DEF Reading
<1>5. First1Same(e)
  BY <1>1 DEF First1Same
<1>6. CASE s = Far(e) /\ ~held[s].enc
  <2>1. Out(s) = ToEnd(e)
    BY <1>2, <1>6
  <2>2. end[e] = "gone"
    BY <1>3, <2>1, Readers DEF ReaderGone
  <2> QED
    BY <1>1, <2>2 DEF Stream
<1>7. CASE held[s].enc = (s = Far(e))
  <2>1. Far3Same(e) /\ Mid2Same(e)
    BY <1>1, <1>7 DEF Far3Same, Mid2Same, FarHolds, NearHolds
  <2> QED
    BY <1>1, <1>4, <1>5, <2>1, StreamSame
<1>8. CASE s = Near(e) /\ held[s].enc
  <2>1. Out(s) = Mid(e)
    BY <1>2, <1>8
  <2>2. pc[Far(e)] = "ended"
    BY <1>3, <2>1, Readers DEF ReaderGone
  <2>3. ~Reading(Far(e))'
    BY <1>1, <1>8, <2>2 DEF Reading
  <2>4. Far3Same(e)
    BY <1>1, <1>8 DEF Far3Same, FarHolds
  <2> QED
    BY <1>1, <2>3, <2>4, StreamSame
<1>9. held[s].enc \in BOOLEAN
  BY DEF TypeOK, PieceType
<1> QED
  BY <1>6, <1>7, <1>8, <1>9

LEMMA CloseStream ==
  ASSUME TypeOK, NEW s \in Sides, Close(s), load' = load, NEW e \in Endpoints, Stream(e)
  PROVE  Stream(e)'
<1> USE Ways
<1>1. PICK p \in Surviving(PlainOut(s), PlainIn(s)), x \in Surviving(EncOut(s), EncIn(s)) :
        q' = [q EXCEPT ![PlainOut(s)] = p, ![EncOut(s)] = x]
  BY DEF Close
<1>2. /\ PlainOut(s) \in Links /\ EncOut(s) \in Links /\ PlainOut(s) # EncOut(s)
      /\ q \in [Links -> Seq(PieceType)]
  BY LinkTypes DEF PlainOut, EncOut, TypeOK
<1>3. /\ q'[PlainOut(s)] = p /\ q'[EncOut(s)] = x
      /\ \A l \in Links \ {PlainOut(s), EncOut(s)} : q'[l] = q[l]
  BY <1>1, <1>2
<1>4. Prefix(p, q[PlainOut(s)]) /\ Prefix(x, q[EncOut(s)])
  BY <1>2, SurvivingTypes DEF Prefix
<1>5. /\ pc'[s] = "ended" /\ \A t \in Sides \ {s} : pc'[t] = pc[t]
      /\ UNCHANGED <<held, end, got, sent, torn>>
  BY DEF Close, endVars, TypeOK
<1>6. CASE s = Far(e)
  <2>1. ~FarHolds(e)' /\ ~Reading(Far(e))'
    BY <1>5, <1>6 DEF FarHolds, Reading
  <2> QED
    BY <1>3, <1>4, <1>5, <1>6, <2>1, FarCloses
<1>7. CASE s = Near(e)
  <2>1. ~NearHolds(e)' /\ ~Reading(Near(e))' /\ (Reading(Far(e))' => Reading(Far(e)))
    BY <1>5, <1>7 DEF NearHolds, Reading
  <2>2. Far3Same(e)
    BY <1>3, <1>5, <1>7 DEF Far3Same, FarHolds
  <2> QED
    BY <1>3, <1>4, <1>5, <1>7, <2>1, <2>2, NearCloses
<1> QED
  BY <1>6, <1>7

LEMMA EndSendsStream ==
  ASSUME TypeOK, TypeOK', NEW o \in Endpoints, EndSends(o), load' = load,
         NEW e \in Endpoints, Stream(e)
  PROVE  Stream(e)'
<1> USE Ways
<1> DEFINE x == Piece(sent'[o], FALSE)
<1>1. /\ FromEnd(o) \in Links /\ q \in [Links -> Seq(PieceType)]
      /\ q' = [q EXCEPT ![FromEnd(o)] = Append(@, x)]
      /\ end[o] = "open" /\ load.pieces[o] > 0
      /\ sent' = [sent EXCEPT ![o] = Next1(@, load.pieces[o])]
      /\ UNCHANGED <<end, got, pc, held, torn>>
  BY LinkTypes DEF EndSends, TypeOK, sideVars
<1>2. /\ q'[FromEnd(o)] = Append(q[FromEnd(o)], x)
      /\ \A l \in Links \ {FromEnd(o)} : q'[l] = q[l]
  BY <1>1
<1>3. sent'[o] = Next1(sent[o], load.pieces[o]) /\ \A t \in Endpoints \ {o} : sent'[t] = sent[t]
  BY <1>1 DEF TypeOK
<1>4. x \in PieceType /\ x.num = sent'[o]
  <2>1. sent'[o] \in 0 .. Largest' /\ Largest' = Largest
    BY DEF TypeOK, Largest
  <2> QED
    BY <2>1 DEF Piece, PieceType
<1> HIDE DEF x
<1>5. CASE o = Origin(e)
  <2>1. First(e) = FromEnd(o) /\ M(e) = load.pieces[o]
    BY <1>5 DEF First, M
  <2>2. Joins(x.num, sent[Origin(e)], M(e))
    BY <1>1, <1>3, <1>4, <1>5, <2>1 DEF Joins
  <2>3. Far3Same(e) /\ Mid2Same(e)
    BY <1>1, <1>2, <2>1 DEF Far3Same, Mid2Same, FarHolds, NearHolds
  <2> QED
    BY <1>1, <1>2, <1>4, <1>5, <2>1, <2>2, <2>3, OriginSends
<1>6. CASE o = e
  <2>1. Far3Same(e) /\ Mid2Same(e) /\ First1Same(e)
    BY <1>1, <1>2, <1>3, <1>6 DEF Far3Same, Mid2Same, First1Same, FarHolds, NearHolds
  <2>2. (Reading(Far(e))' => Reading(Far(e))) /\ (Reading(Near(e))' => Reading(Near(e)))
    BY <1>1 DEF Reading
  <2> QED
    BY <1>1, <2>1, <2>2, StreamSame
<1> QED
  BY <1>5, <1>6

LEMMA EndClosesStream ==
  ASSUME TypeOK, NEW o \in Endpoints, EndCloses(o), load' = load, NEW e \in Endpoints, Stream(e)
  PROVE  Stream(e)'
<1> USE Ways
<1>1. /\ end[o] # "gone" /\ end'[o] # "open" /\ \A t \in Endpoints \ {o} : end'[t] = end[t]
      /\ UNCHANGED <<got, sent, pc, held, torn>>
  BY DEF EndCloses, sideVars, TypeOK
<1>2. FromEnd(o) \in Links /\ q \in [Links -> Seq(PieceType)]
  BY LinkTypes DEF TypeOK
<1>3. /\ Prefix(q'[FromEnd(o)], q[FromEnd(o)])
      /\ \A l \in Links \ {FromEnd(o)} : q'[l] = q[l]
  <2>1. CASE q' = q
    <3>1. q[FromEnd(o)] \in Seq(PieceType)
      BY <1>2
    <3> QED
      BY <2>1, <3>1 DEF Prefix
  <2>2. CASE \E p \in Surviving(FromEnd(o), ToEnd(o)) : q' = [q EXCEPT ![FromEnd(o)] = p]
    <3>1. PICK p \in Surviving(FromEnd(o), ToEnd(o)) : q' = [q EXCEPT ![FromEnd(o)] = p]
      BY <2>2
    <3>3. Prefix(p, q[FromEnd(o)])
      BY <1>2, SurvivingPrefix
    <3> QED
      BY <1>2, <3>1, <3>3
  <2> QED
    BY <2>1, <2>2 DEF EndCloses
<1>4. (Reading(Far(e))' => Reading(Far(e))) /\ (Reading(Near(e))' => Reading(Near(e)))
  BY <1>1 DEF Reading
<1>5. CASE o = Origin(e)
  <2>1. First(e) = FromEnd(o)
    BY <1>5 DEF First
  <2>2. Far3Same(e) /\ Mid2Same(e)
    BY <1>1, <1>3, <2>1 DEF Far3Same, Mid2Same, FarHolds, NearHolds
  <2> QED
    BY <1>1, <1>3, <1>4, <1>5, <2>1, <2>2, OriginCloses
<1>6. CASE o = e
  <2>1. Far3Same(e) /\ Mid2Same(e) /\ First1Same(e)
    BY <1>1, <1>3, <1>6 DEF Far3Same, Mid2Same, First1Same, FarHolds, NearHolds
  <2> QED
    BY <1>1, <1>4, <1>6, <2>1, StreamSame
<1> QED
  BY <1>5, <1>6


\* What is not the next piece is the reply, for the application, or comes
\* behind a torn block.
LEMMA EndReadsWhat ==
  ASSUME TypeOK, OrderInv, NEW o \in Endpoints, EndReads(o)
  PROVE  LET p == Head(q[ToEnd(o)])
         IN  /\ wrong' = wrong \/ (torn[Far(o)] /\ wrong' = [wrong EXCEPT ![o] = TRUE])
             /\ \/ /\ p.num = TtlReply /\ o = "app" /\ got' = got
                   /\ ttl' = [ttl EXCEPT ![o] = TRUE]
                \/ /\ p.num # TtlReply /\ ttl' = ttl
                   /\ \/ got' = [got EXCEPT ![o] = p.num]
                      \/ torn[Far(o)] /\ got' = got
<1> DEFINE p == Head(q[ToEnd(o)])
<1>1. /\ end[o] # "gone" /\ q[ToEnd(o)] # <<>> /\ q[ToEnd(o)] \in Seq(PieceType)
      /\ p = q[ToEnd(o)][1] /\ p \in PieceType /\ Len(q[ToEnd(o)]) \in Nat \ {0}
  BY WayTypes, TailTypes DEF EndReads
<1> HIDE DEF p
<1>2. Plain(q[ToEnd(o)]) /\ (o = "target" => Data(q[ToEnd(o)]))
  BY DEF OrderInv, LinkKinds, ToEnd, Endpoints
<1>3. p.enc = FALSE /\ (o = "target" => p.num # TtlReply)
  BY <1>1, <1>2 DEF Plain, Data
<1>4. p = Piece(p.num, FALSE)
  BY <1>1, <1>3 DEF PieceType, Piece
<1>5. p.num = TtlReply <=> p = Piece(TtlReply, FALSE)
  BY <1>4 DEF Piece
<1>6. ASSUME ~torn[Far(o)] PROVE Joins(p.num, got[o], M(o))
  <2>1. Chain(q[ToEnd(o)], got[o], M(o))
    BY <1>1, <1>6 DEF OrderInv, Stream, Begun
  <2> QED
    BY <1>1, <2>1, ChainTail DEF p
<1>7. ~ttl[o]
  <2>1. o = "app" => ~ttl[o]
    BY <1>1 DEF OrderInv, Behind, ToEnd
  <2> QED
    BY <2>1 DEF OrderInv, InOrder, Endpoints
<1>8. CASE p.num = TtlReply
  BY <1>3, <1>5, <1>8 DEF EndReads, Endpoints, p
<1>9. CASE p.num # TtlReply /\ ~torn[Far(o)]
  <2>1. load.pieces[Origin(o)] > 0 /\ p.num = Next1(got[o], load.pieces[Origin(o)])
    BY <1>6, <1>9 DEF Joins, M
  <2> QED
    <3>1. p = Piece(Next1(got[o], load.pieces[Origin(o)]), FALSE)
      BY <1>4, <2>1
    <3> QED
      BY <1>5, <1>7, <1>9, <2>1, <3>1 DEF EndReads, p
<1>10. CASE p.num # TtlReply /\ torn[Far(o)]
  BY <1>5, <1>10 DEF EndReads, p
<1> QED
  BY <1>8, <1>9, <1>10 DEF p

LEMMA EndReadsStream ==
  ASSUME TypeOK, OrderInv, NEW o \in Endpoints, EndReads(o), load' = load, NEW e \in Endpoints
  PROVE  Stream(e)'
<1> USE Ways
<1> DEFINE p == Head(q[ToEnd(o)])
<1>1. /\ end[o] # "gone" /\ q[ToEnd(o)] # <<>>
      /\ q' = [q EXCEPT ![ToEnd(o)] = Tail(@)]
      /\ UNCHANGED <<end, sent, pc, held, torn>>
  BY DEF EndReads, sideVars
<1>2. ToEnd(o) \in Links /\ q \in [Links -> Seq(PieceType)]
  BY LinkTypes DEF TypeOK
<1>3. q'[ToEnd(o)] = Tail(q[ToEnd(o)]) /\ \A l \in Links \ {ToEnd(o)} : q'[l] = q[l]
  BY <1>1, <1>2
<1>4. \/ p.num = TtlReply /\ o = "app" /\ got' = got
      \/ p.num # TtlReply /\ got' = [got EXCEPT ![o] = p.num]
      \/ p.num # TtlReply /\ torn[Far(o)] /\ got' = got
  BY EndReadsWhat
<1>5. Stream(e)
  BY DEF OrderInv
<1> HIDE DEF p
<1>6. CASE o = e /\ p.num = TtlReply
  <2>1. o = "app" /\ q[ToEnd(o)] \in Seq(PieceType)
    BY <1>2, <1>4, <1>6
  <2>2. TtlLast(q[ToEnd(o)])
    BY <2>1 DEF OrderInv, LinkKinds, ToEnd
  <2>3. Tail(q[ToEnd(o)]) = <<>> /\ ~Data(q[ToEnd(o)])
    BY <1>1, <1>6, <2>1, <2>2, KindsTail DEF p
  <2>4. Done /\ q["down2"] = <<>> /\ ~FarHolds("app")
    BY <2>1, <2>3 DEF OrderInv, Behind, ToEnd
  <2>5. Mid(e) = "down2" /\ Near(e) = "peer"
    BY <1>6, <2>1 DEF Mid, Near
  <2>6. q'[Mid(e)] = <<>> /\ q'[ToEnd(e)] = <<>>
    BY <1>3, <1>6, <2>3, <2>4, <2>5
  <2>7. ~FarHolds(e)' /\ ~NearHolds(e)' /\ ~Reading(Near(e))'
    BY <1>1, <1>6, <2>1, <2>4, <2>5 DEF FarHolds, NearHolds, Reading, Done
  <2> QED
    BY <2>6, <2>7, ReplyRead
<1>7. CASE o = e /\ p.num # TtlReply /\ ~torn[Far(e)]
  <2>1. got'[e] = p.num
    BY <1>4, <1>7 DEF TypeOK
  <2>2. Mid2Same(e) /\ First1Same(e)
    BY <1>1, <1>3, <1>7 DEF Mid2Same, First1Same, NearHolds
  <2> QED
    BY <1>1, <1>3, <1>5, <1>7, <2>1, <2>2, DataRead DEF p
<1>8. CASE o = Origin(e)
  <2>1. got'[e] = got[e]
    BY <1>4, <1>8 DEF TypeOK
  <2>2. Far3Same(e) /\ Mid2Same(e) /\ First1Same(e)
    BY <1>1, <1>3, <1>8, <2>1 DEF Far3Same, Mid2Same, First1Same, FarHolds, NearHolds
  <2>3. (Reading(Far(e))' => Reading(Far(e))) /\ (Reading(Near(e))' => Reading(Near(e)))
    BY <1>1 DEF Reading
  <2> QED
    BY <1>1, <1>5, <2>2, <2>3, StreamSame
<1>9. CASE torn[Far(e)]
  BY <1>1, <1>9 DEF Stream
<1> QED
  BY <1>6, <1>7, <1>8, <1>9

-----------------------------------------------------------------------------
(* The reply stays behind the data *)

\* A link nobody sends on.
Kept(x, y) ==
  /\ Data(x) => Data(y)
  /\ TtlLast(x) => TtlLast(y)
  /\ Plain(x) => Plain(y)
  /\ x = <<>> => y = <<>>

LEMMA KeptTail ==
  ASSUME NEW S, NEW x \in Seq(S), x # <<>>
  PROVE  Kept(x, Tail(x))
<1>1. /\ Len(Tail(x)) = Len(x) - 1 /\ Len(x) \in Nat \ {0}
      /\ \A i \in 1 .. Len(x) - 1 : Tail(x)[i] = x[i + 1]
  BY TailTypes
<1>2. \A i \in 1 .. Len(Tail(x)) : i + 1 \in 1 .. Len(x)
  BY <1>1
<1>3. Plain(x) => Plain(Tail(x))
  BY <1>1, <1>2 DEF Plain
<1> QED
  BY <1>3, KindsTail DEF Kept

LEMMA KeptPrefix ==
  ASSUME NEW x \in Seq(PieceType), NEW y, Prefix(y, x)
  PROVE  Kept(x, y)
<1>1. /\ y \in Seq(PieceType) /\ Len(y) <= Len(x) /\ \A i \in 1 .. Len(y) : y[i] = x[i]
      /\ Len(y) \in Nat /\ Len(x) \in Nat
  BY DEF Prefix
<1>2. (Data(x) => Data(y)) /\ (TtlLast(x) => TtlLast(y))
  BY <1>1, KindsPrefix
<1>3. Plain(x) => Plain(y)
  BY <1>1 DEF Plain
<1>4. x = <<>> => y = <<>>
  BY <1>1, Emptiness
<1> QED
  BY <1>2, <1>3, <1>4 DEF Kept

LEMMA LinksKept ==
  ASSUME LinkKinds, \A l \in Links : Kept(q[l], q'[l])
  PROVE  LinkKinds'
BY DEF LinkKinds, Kept, Links

LEMMA BehindKept ==
  ASSUME Behind, Done => Done',
         FarHolds("app")' => FarHolds("app") /\ held'["proxy"] = held["proxy"],
         Kept(q["down2"], q'["down2"]), Kept(q["down3"], q'["down3"]), ttl'["app"] => ttl["app"]
  PROVE  Behind'
BY DEF Behind, Kept


KindsInv == HeldKinds /\ LinkKinds /\ Behind

LEMMA EndSendsKinds ==
  ASSUME TypeOK, TypeOK', KindsInv, NEW o \in Endpoints, EndSends(o), load' = load
  PROVE  KindsInv'
<1> DEFINE x == Piece(sent'[o], FALSE)
<1>1. /\ FromEnd(o) \in {"up1", "down1"} /\ q \in [Links -> Seq(PieceType)]
      /\ FromEnd(o) \in Links
      /\ q' = [q EXCEPT ![FromEnd(o)] = Append(@, x)]
      /\ UNCHANGED <<ttl, pc, held>>
  BY DEF EndSends, TypeOK, sideVars, FromEnd, Links
<1>2. x \in PieceType /\ x.num # TtlReply
  <2>1. sent' = [sent EXCEPT ![o] = Next1(@, load.pieces[o])] /\ load.pieces[o] > 0
    BY DEF EndSends
  <2>2. sent[o] \in Nat /\ load.pieces[o] \in Nat /\ sent'[o] = Next1(sent[o], load.pieces[o])
    BY <2>1, LoadTypes DEF TypeOK
  <2>3. sent'[o] \in 1 .. load.pieces[o] /\ load.pieces[o] <= Largest /\ Largest \in Nat
    BY <2>1, <2>2, NextTypes, LoadTypes DEF TypeOK
  <2>4. sent'[o] \in 0 .. Largest /\ sent'[o] # 0
    BY <2>2, <2>3
  <2> QED
    BY <2>4 DEF Piece, PieceType, TtlReply
<1> HIDE DEF x
<1>3. /\ q'[FromEnd(o)] = Append(q[FromEnd(o)], x)
      /\ \A l \in Links \ {FromEnd(o)} : q'[l] = q[l]
  BY <1>1
<1>4. Data(q[FromEnd(o)])
  BY <1>1 DEF KindsInv, LinkKinds
<1>5. Data(q'[FromEnd(o)])
  BY <1>1, <1>2, <1>3, <1>4, KindsAppend
<1>6. LinkKinds'
  BY <1>1, <1>3, <1>5 DEF KindsInv, LinkKinds, Links
<1>7. q'["down2"] = q["down2"] /\ q'["down3"] = q["down3"]
  BY <1>1, <1>3 DEF Links
<1>8. Behind'
  BY <1>1, <1>7 DEF KindsInv, Behind, Done, FarHolds
<1>9. HeldKinds'
  BY <1>1 DEF KindsInv, HeldKinds
<1> QED
  BY <1>6, <1>8, <1>9 DEF KindsInv

LEMMA EndReadsKinds ==
  ASSUME TypeOK, OrderInv, NEW o \in Endpoints, EndReads(o)
  PROVE  KindsInv'
<1> DEFINE p == Head(q[ToEnd(o)])
<1>1. /\ ToEnd(o) \in Links /\ q \in [Links -> Seq(PieceType)] /\ q[ToEnd(o)] # <<>>
      /\ q' = [q EXCEPT ![ToEnd(o)] = Tail(@)] /\ UNCHANGED <<pc, held>>
  BY LinkTypes DEF EndReads, sideVars, TypeOK
<1>2. q'[ToEnd(o)] = Tail(q[ToEnd(o)]) /\ \A l \in Links \ {ToEnd(o)} : q'[l] = q[l]
  BY <1>1
<1>3. \A l \in Links : Kept(q[l], q'[l])
  <2>1. Kept(q[ToEnd(o)], q'[ToEnd(o)])
    BY <1>1, <1>2, KeptTail
  <2> QED
    BY <1>2, <2>1 DEF Kept
<1>4. HeldKinds /\ LinkKinds /\ Behind
  BY DEF OrderInv
<1>5. HeldKinds' /\ LinkKinds'
  BY <1>1, <1>3, <1>4, LinksKept DEF HeldKinds
<1>6. /\ Done' = Done /\ FarHolds("app")' = FarHolds("app") /\ held' = held
      /\ Kept(q["down2"], q'["down2"]) /\ Kept(q["down3"], q'["down3"])
  BY <1>1, <1>3 DEF Done, FarHolds, Links
<1>7. \/ p.num = TtlReply /\ o = "app" /\ ttl' = [ttl EXCEPT ![o] = TRUE]
      \/ ttl' = ttl
  BY EndReadsWhat
<1>8. CASE ttl' = ttl
  BY <1>4, <1>5, <1>6, <1>8, BehindKept DEF KindsInv
<1>9. CASE p.num = TtlReply /\ o = "app"
  <2>1. ToEnd(o) = "down3" /\ q["down3"] \in Seq(PieceType) /\ TtlLast(q["down3"])
    BY <1>1, <1>4, <1>9 DEF ToEnd, LinkKinds
  <2>2. ~Data(q["down3"]) /\ q'["down3"] = <<>>
    BY <1>1, <1>2, <1>9, <2>1, KindsTail
  <2>3. Done /\ q["down2"] = <<>> /\ ~FarHolds("app")
    BY <1>4, <2>2 DEF Behind
  <2>4. q'["down2"] = <<>> /\ Done' /\ ~FarHolds("app")'
    BY <1>6, <2>3 DEF Kept
  <2> QED
    BY <1>5, <2>2, <2>4 DEF KindsInv, Behind
<1> QED
  BY <1>7, <1>8, <1>9

LEMMA EndClosesKinds ==
  ASSUME TypeOK, KindsInv, NEW o \in Endpoints, EndCloses(o)
  PROVE  KindsInv'
<1>1. FromEnd(o) \in Links /\ q \in [Links -> Seq(PieceType)] /\ UNCHANGED <<pc, held, ttl>>
  BY LinkTypes DEF TypeOK, EndCloses, sideVars
<1>2. \A l \in Links : Kept(q[l], q'[l])
  <2>1. CASE q' = q
    BY <2>1 DEF Kept
  <2>2. CASE \E p \in Surviving(FromEnd(o), ToEnd(o)) : q' = [q EXCEPT ![FromEnd(o)] = p]
    <3>1. PICK p \in Surviving(FromEnd(o), ToEnd(o)) : q' = [q EXCEPT ![FromEnd(o)] = p]
      BY <2>2
    <3>2. Kept(q[FromEnd(o)], p)
      BY <1>1, SurvivingPrefix, KeptPrefix
    <3>3. q'[FromEnd(o)] = p /\ \A l \in Links \ {FromEnd(o)} : q'[l] = q[l]
      BY <1>1, <3>1
    <3> QED
      BY <3>2, <3>3 DEF Kept
  <2> QED
    BY <2>1, <2>2 DEF EndCloses
<1>3. HeldKinds' /\ LinkKinds'
  BY <1>1, <1>2, LinksKept DEF KindsInv, HeldKinds
<1>4. Done' = Done /\ FarHolds("app")' = FarHolds("app")
  BY <1>1 DEF Done, FarHolds
<1>5. Behind'
  BY <1>1, <1>2, <1>4, BehindKept DEF KindsInv, Links
<1> QED
  BY <1>3, <1>5 DEF KindsInv

LEMMA CloseKinds ==
  ASSUME TypeOK, KindsInv, NEW s \in Sides, Close(s)
  PROVE  KindsInv'
<1>1. PICK p \in Surviving(PlainOut(s), PlainIn(s)), x \in Surviving(EncOut(s), EncIn(s)) :
        q' = [q EXCEPT ![PlainOut(s)] = p, ![EncOut(s)] = x]
  BY DEF Close
<1>2. /\ PlainOut(s) \in Links /\ EncOut(s) \in Links /\ PlainOut(s) # EncOut(s)
      /\ q \in [Links -> Seq(PieceType)]
  BY LinkTypes DEF PlainOut, EncOut, TypeOK
<1>3. /\ q'[PlainOut(s)] = p /\ q'[EncOut(s)] = x
      /\ \A l \in Links \ {PlainOut(s), EncOut(s)} : q'[l] = q[l]
  BY <1>1, <1>2
<1>4. Kept(q[PlainOut(s)], p) /\ Kept(q[EncOut(s)], x)
  BY <1>2, SurvivingPrefix, KeptPrefix
<1>5. \A l \in Links : Kept(q[l], q'[l])
  BY <1>3, <1>4 DEF Kept
<1>6. /\ pc[s] = "closing" /\ pc'[s] = "ended" /\ \A t \in Sides \ {s} : pc'[t] = pc[t]
      /\ UNCHANGED <<held, ttl>>
  BY DEF Close, endVars, TypeOK
<1>7. HeldKinds' /\ LinkKinds'
  BY <1>5, <1>6, LinksKept DEF KindsInv, HeldKinds, Sides
<1>8. (Done => Done') /\ (FarHolds("app")' => FarHolds("app"))
  BY <1>6 DEF Done, FarHolds, Far, Sides
<1>9. Behind'
  BY <1>5, <1>6, <1>8, BehindKept DEF KindsInv, Links
<1> QED
  BY <1>7, <1>9 DEF KindsInv

\* Whoever stops reading, or sends what nobody receives.
LEMMA StopKinds ==
  ASSUME TypeOK, KindsInv, NEW s \in Sides, ReadEnd(s) \/ Timeout(s) \/ SendLost(s)
  PROVE  KindsInv'
<1>1. q' = q /\ ttl' = ttl /\ pc[s] \in {"select", "send", "lastsend"}
  BY DEF ReadEnd, Timeout, SendLost, Sending, linkVars, endVars
<1>2. /\ \A t \in Sides \ {s} : pc'[t] = pc[t] /\ held'[t] = held[t]
      /\ \/ pc'[s] \in {"select", "closing"} /\ held'[s] = held[s]
         \/ s = "peer" /\ pc'[s] = "lastsend" /\ held'[s] = Piece(TtlReply, TRUE)
  <2>1. CASE ReadEnd(s)
    BY <2>1 DEF ReadEnd, TypeOK
  <2>2. CASE SendLost(s)
    <3>1. held' = held /\ \/ pc' = [pc EXCEPT ![s] = AfterSend(s)]
                          \/ pc' = [pc EXCEPT ![s] = AfterFailedSend(s)]
      BY <2>2 DEF SendLost
    <3> QED
      BY <3>1 DEF TypeOK, AfterSend, AfterFailedSend
  <2>3. CASE Timeout(s) /\ s = "peer"
    <3>1. held' = [held EXCEPT ![s] = Piece(TtlReply, TRUE)] /\ pc' = [pc EXCEPT ![s] = "lastsend"]
      BY <2>3 DEF Timeout
    <3> QED
      BY <2>3, <3>1 DEF TypeOK
  <2>4. CASE Timeout(s) /\ s # "peer"
    BY <2>4 DEF Timeout, TypeOK
  <2> QED
    BY <2>1, <2>2, <2>3, <2>4
<1>3. HeldKinds'
  BY <1>2 DEF KindsInv, HeldKinds, Sides
<1>4. LinkKinds' /\ Kept(q["down2"], q'["down2"]) /\ Kept(q["down3"], q'["down3"])
  BY <1>1 DEF KindsInv, LinkKinds, Kept
<1>5. Done => Done'
  BY <1>1, <1>2 DEF Done, Sides
<1>6. FarHolds("app")' => FarHolds("app") /\ held'["proxy"] = held["proxy"]
  BY <1>2 DEF FarHolds, Far, Sides
<1>7. Behind'
  BY <1>1, <1>4, <1>5, <1>6, BehindKept DEF KindsInv
<1> QED
  BY <1>3, <1>4, <1>7 DEF KindsInv

\* What a read inside a block leaves of a link.
LEMMA KindsLeftover ==
  ASSUME TypeOK, NEW l \in Links, NEW x \in Leftover(q[l])
  PROVE  /\ q[l] # <<>> /\ x \in Seq(PieceType)
         /\ Data(q[l]) => Data(x)
         /\ TtlLast(q[l]) => TtlLast(x)
<1>1. q[l] \in Seq(PieceType) /\ Len(q[l]) \in Nat
  BY DEF TypeOK
<1>2. PICK k \in 1 .. Len(q[l]) :
        \/ x = SubSeq(q[l], k + 1, Len(q[l]))
        \/ x = <<Remnant>> \o SubSeq(q[l], k + 1, Len(q[l]))
  BY DEF Leftover
<1>3. q[l] # <<>> /\ x \in Seq(PieceType)
  BY <1>1, <1>2, LeftoverTypes
<1> DEFINE y == SubSeq(q[l], k + 1, Len(q[l]))
<1>4. /\ y \in Seq(PieceType) /\ Len(y) = Len(q[l]) - k
      /\ \A i \in 1 .. Len(y) : i + k \in 1 .. Len(q[l]) /\ y[i] = q[l][i + k]
  BY <1>1
<1> HIDE DEF y
<1>5. (Data(q[l]) => Data(y)) /\ (TtlLast(q[l]) => TtlLast(y))
  <2>1. Data(q[l]) => Data(y)
    BY <1>4 DEF Data
  <2>2. ASSUME TtlLast(q[l]), NEW i \in 1 .. Len(y), y[i].num = TtlReply
        PROVE  i = Len(y)
    <3>1. i + k = Len(q[l])
      BY <1>4, <2>2 DEF TtlLast
    <3> QED
      BY <1>1, <1>4, <3>1
  <2> QED
    BY <2>1, <2>2 DEF TtlLast
<1> DEFINE z == <<Remnant>> \o y
<1>6. /\ Len(z) = Len(y) + 1 /\ Len(y) \in Nat /\ z[1] = Remnant
      /\ \A i \in 1 .. Len(z) : i # 1 => i - 1 \in 1 .. Len(y) /\ z[i] = y[i - 1]
  <2>1. Remnant \in PieceType
    BY LoadTypes DEF TypeOK, Remnant, Piece, PieceType
  <2>2. <<Remnant>> \in Seq(PieceType) /\ Len(<<Remnant>>) = 1 /\ <<Remnant>>[1] = Remnant
    BY <2>1
  <2>3. /\ Len(z) = 1 + Len(y)
        /\ \A i \in 1 .. 1 + Len(y) : z[i] = IF i <= 1 THEN <<Remnant>>[i] ELSE y[i - 1]
    BY <1>4, <2>2, ConcatProperties
  <2>4. Len(y) \in Nat
    BY <1>4
  <2> HIDE DEF z
  <2> QED
    BY <2>2, <2>3, <2>4
<1> HIDE DEF z
<1>7. Remnant.num # TtlReply
  BY DEF Remnant, Piece, TtlReply
<1>8. (Data(y) => Data(z)) /\ (TtlLast(y) => TtlLast(z))
  <2>1. Data(y) => Data(z)
    BY <1>6, <1>7 DEF Data
  <2>2. ASSUME TtlLast(y), NEW i \in 1 .. Len(z), z[i].num = TtlReply
        PROVE  i = Len(z)
    <3>1. i # 1 /\ i - 1 \in 1 .. Len(y) /\ y[i - 1].num = TtlReply
      BY <1>6, <1>7, <2>2
    <3>2. i - 1 = Len(y)
      BY <2>2, <3>1 DEF TtlLast
    <3> QED
      BY <1>6, <3>2
  <2> QED
    BY <2>1, <2>2 DEF TtlLast
<1>9. x = y \/ x = z
  BY <1>2 DEF y, z
<1> QED
  BY <1>3, <1>5, <1>8, <1>9

\* What a torn block decodes to is no reply, and behind the reply there is no
\* block to tear.
LEMMA PartKinds ==
  ASSUME TypeOK, KindsInv, NEW s \in Sides, ReadTorn(s) \/ MidBlock(s)
  PROVE  KindsInv'
<1>1. /\ pc[s] \in {"select", "midblock"} /\ ttl' = ttl
      /\ \A t \in Sides \ {s} : pc'[t] = pc[t] /\ held'[t] = held[t]
      /\ \/ pc'[s] = "send" /\ held'[s] = Piece(Torn, FALSE)
         \/ pc'[s] \in {"select", "midblock", "closing"} /\ held'[s] = held[s]
  BY PartTypes, PartSteps
<1>2. HeldKinds'
  BY <1>1 DEF KindsInv, HeldKinds, Sides, Piece, TtlReply
<1>3. /\ EncIn(s) \in {"up2", "down2"} /\ EncIn(s) \in Links
      /\ EncIn(s) = "down2" <=> s = "proxy"
  BY DEF EncIn, Links, Sides
<1>4. \A l \in Links \ {EncIn(s)} : q'[l] = q[l]
  BY PartSteps
<1>5. /\ Data(q[EncIn(s)]) => Data(q'[EncIn(s)])
      /\ TtlLast(q[EncIn(s)]) => TtlLast(q'[EncIn(s)])
      /\ q[EncIn(s)] = <<>> => q'[EncIn(s)] = <<>>
  BY <1>3, PartSteps, KindsLeftover
<1>6. LinkKinds'
  BY <1>3, <1>4, <1>5 DEF KindsInv, LinkKinds, Links
<1>7. Done => Done'
  BY <1>1 DEF Done, Sides
<1>8. CASE s = "peer"
  <2>1. q'["down2"] = q["down2"] /\ q'["down3"] = q["down3"]
    BY <1>3, <1>4, <1>8 DEF Links
  <2>2. FarHolds("app")' = FarHolds("app") /\ held'["proxy"] = held["proxy"]
    BY <1>1, <1>8 DEF FarHolds, Far, Sides
  <2> QED
    BY <1>1, <1>2, <1>6, <1>7, <2>1, <2>2 DEF KindsInv, Behind
<1>9. CASE s = "proxy"
  <2>1. /\ Data(q["down2"]) => Data(q'["down2"])
        /\ q["down2"] = <<>> => q'["down2"] = <<>>
        /\ q'["down3"] = q["down3"]
    BY <1>3, <1>4, <1>5, <1>9 DEF Links
  <2>2. ~FarHolds("app")
    BY <1>1, <1>9 DEF FarHolds, Far
  <2>3. FarHolds("app")' => q["down2"] # <<>> /\ held'["proxy"].num # TtlReply
    <3>1. FarHolds("app")' => held'["proxy"] = Piece(Torn, FALSE) /\ pc'["proxy"] = "send"
      BY <1>1, <1>9 DEF FarHolds, Far
    <3>2. pc'["proxy"] = "send" => q["down2"] # <<>>
      <4>1. CASE ReadTorn(s)
        BY <1>3, <1>9, <4>1 DEF ReadTorn
      <4>2. CASE /\ MidBlock(s)
                 /\ \E x \in Leftover(q[EncIn(s)]) : q' = [q EXCEPT ![EncIn(s)] = x]
        BY <1>3, <1>9, <4>2, KindsLeftover
      <4>3. CASE pc' = [pc EXCEPT ![s] = "closing"]
        BY <1>9, <4>3 DEF TypeOK
      <4> QED
        BY <4>1, <4>2, <4>3 DEF MidBlock
    <3> QED
      BY <3>1, <3>2 DEF Piece, TtlReply
  <2> QED
    BY <1>1, <1>2, <1>6, <1>7, <2>1, <2>2, <2>3 DEF KindsInv, Behind
<1> QED
  BY <1>8, <1>9 DEF Sides

LEMMA ReadPieceKinds ==
  ASSUME TypeOK, KindsInv, NEW s \in Sides, ReadPiece(s)
  PROVE  KindsInv'
<1>1. PICK in \in {PlainIn(s), EncIn(s)} :
        /\ q[in] # <<>>
        /\ held' = [held EXCEPT ![s] = Piece(Head(q[in]).num, in = PlainIn(s))]
        /\ q' = [q EXCEPT ![in] = Tail(@)]
  BY DEF ReadPiece
<1>2. pc[s] = "select" /\ pc' = [pc EXCEPT ![s] = "send"] /\ ttl' = ttl
  BY DEF ReadPiece, endVars
<1>3. /\ pc'[s] = "send" /\ held'[s].num = Head(q[in]).num /\ held'[s].enc = (in = PlainIn(s))
      /\ \A t \in Sides \ {s} : pc'[t] = pc[t] /\ held'[t] = held[t]
  BY <1>1, <1>2 DEF TypeOK, Piece
<1>4. /\ in \in Links /\ q'[in] = Tail(q[in]) /\ \A l \in Links \ {in} : q'[l] = q[l]
      /\ q[in] \in Seq(PieceType)
  BY <1>1, LinkTypes DEF TypeOK
<1>5. \A l \in Links : Kept(q[l], q'[l])
  <2>1. Kept(q[in], q'[in])
    BY <1>1, <1>4, KeptTail
  <2> QED
    BY <1>4, <2>1 DEF Kept
<1>6. LinkKinds' /\ Kept(q["down2"], q'["down2"]) /\ Kept(q["down3"], q'["down3"])
  BY <1>5, LinksKept DEF KindsInv, Links
<1>7. CASE in # "down2"
  <2>1. in \in {"up1", "up2", "down1"}
    BY <1>1, <1>7 DEF Sides, PlainIn, EncIn
  <2>2. Data(q[in])
    BY <2>1 DEF KindsInv, LinkKinds
  <2>3. held'[s].num # TtlReply
    BY <1>1, <1>3, <1>4, <2>2, KindsTail
  <2>4. HeldKinds'
    BY <1>3, <2>3 DEF KindsInv, HeldKinds, Sides
  <2>5. CASE s = "peer"
    <3>1. /\ Done => Done'
          /\ FarHolds("app")' => FarHolds("app") /\ held'["proxy"] = held["proxy"]
      BY <1>2, <1>3, <2>5 DEF Done, FarHolds, Far, Sides
    <3>2. held'["proxy"] = held["proxy"]
      BY <1>3, <2>5 DEF Sides
    <3> QED
      BY <1>2, <1>6, <2>4, <3>1, <3>2, BehindKept DEF KindsInv
  <2>6. CASE s = "proxy"
    <3>1. in = PlainIn(s)
      BY <1>1, <1>7, <2>6 DEF PlainIn, EncIn
    <3>2. (Done => Done') /\ ~FarHolds("app")'
      BY <1>3, <2>6, <3>1 DEF Done, FarHolds, Far, Sides
    <3> QED
      BY <1>2, <1>6, <2>4, <3>2 DEF KindsInv, Behind, Kept
  <2> QED
    BY <2>5, <2>6 DEF Sides
<1>8. CASE in = "down2"
  <2>1. s = "proxy" /\ in # PlainIn(s)
    BY <1>1, <1>8 DEF Sides, PlainIn, EncIn
  <2>2. HeldKinds'
    BY <1>3, <2>1 DEF KindsInv, HeldKinds, Sides
  <2>3. Data(q["down3"]) /\ ~ttl["app"]
    BY <1>1, <1>8 DEF KindsInv, Behind
  <2>4. held'["proxy"].num = TtlReply => ~Data(q["down2"]) /\ q'["down2"] = <<>>
    <3>1. /\ TtlLast(q["down2"]) /\ q["down2"] # <<>> /\ q["down2"] \in Seq(PieceType)
          /\ held'["proxy"].num = Head(q["down2"]).num /\ q'["down2"] = Tail(q["down2"])
      BY <1>1, <1>3, <1>4, <1>8, <2>1 DEF KindsInv, LinkKinds
    <3>2. /\ Data(q["down2"]) => Head(q["down2"]).num # TtlReply
          /\ Head(q["down2"]).num = TtlReply => Tail(q["down2"]) = <<>>
      BY <3>1, KindsTail
    <3> QED
      BY <3>1, <3>2
  <2>5. Done' = Done
    BY <1>3, <2>1 DEF Done, Sides
  <2>6. ~Data(q["down2"]) => Done
    BY DEF KindsInv, Behind
  <2>7. /\ Data(q["down2"]) => Data(q'["down2"])
        /\ Data(q'["down3"])
    BY <1>6, <2>3 DEF Kept
  <2> QED
    BY <1>2, <1>6, <2>2, <2>3, <2>4, <2>5, <2>6, <2>7 DEF KindsInv, Behind
<1> QED
  BY <1>7, <1>8

LEMMA SendPieceKinds ==
  ASSUME TypeOK, KindsInv, NEW s \in Sides, SendPiece(s)
  PROVE  KindsInv'
<1>1. /\ pc[s] \in {"send", "lastsend"} /\ held' = held /\ ttl' = ttl
      /\ pc'[s] = IF pc[s] = "lastsend" THEN "closing" ELSE "select"
      /\ \A t \in Sides \ {s} : pc'[t] = pc[t]
  BY DEF SendPiece, Sending, AfterSend, endVars, TypeOK
<1>2. /\ Out(s) \in Links /\ q'[Out(s)] = Append(q[Out(s)], held[s])
      /\ \A l \in Links \ {Out(s)} : q'[l] = q[l]
      /\ q[Out(s)] \in Seq(PieceType) /\ held[s] \in PieceType
  BY LinkTypes DEF SendPiece, TypeOK
<1>3. Out(s) = IF held[s].enc THEN EncOut(s) ELSE PlainOut(s)
  BY DEF Out
<1>4. /\ Data(q[Out(s)]) => TtlLast(Append(q[Out(s)], held[s]))
      /\ Data(q[Out(s)]) /\ held[s].num # TtlReply => Data(Append(q[Out(s)], held[s]))
  BY <1>2, KindsAppend
<1>5. HeldKinds'
  BY <1>1 DEF KindsInv, HeldKinds, Sides
<1>6. CASE s = "proxy" /\ held[s].enc
  <2>1. Out(s) = "up2" /\ held[s].num # TtlReply
    BY <1>1, <1>3, <1>6 DEF EncOut, KindsInv, HeldKinds
  <2>2. Data(q'["up2"])
    BY <1>2, <1>4, <2>1 DEF KindsInv, LinkKinds
  <2>3. q'["down2"] = q["down2"] /\ q'["down3"] = q["down3"]
    BY <1>2, <2>1 DEF Links
  <2>4. LinkKinds'
    BY <1>2, <2>1, <2>2 DEF KindsInv, LinkKinds, Links
  <2>5. Done' = Done /\ ~FarHolds("app")'
    BY <1>1, <1>6 DEF Done, FarHolds, Far, Sides
  <2> QED
    BY <1>1, <1>5, <2>3, <2>4, <2>5 DEF KindsInv, Behind
<1>7. CASE s = "proxy" /\ ~held[s].enc
  <2>1. Out(s) = "down3" /\ FarHolds("app")
    BY <1>1, <1>3, <1>7 DEF PlainOut, FarHolds, Far, KindsInv, HeldKinds
  <2>2. Data(q["down3"]) /\ ~ttl["app"]
    BY <2>1 DEF KindsInv, Behind
  <2>3. /\ TtlLast(q'["down3"])
        /\ held["proxy"].num # TtlReply => Data(q'["down3"])
    BY <1>2, <1>4, <1>7, <2>1, <2>2
  <2>4. Plain(q'["down3"])
    <3>1. Plain(q["down3"])
      BY DEF KindsInv, LinkKinds
    <3>2. Plain(Append(q["down3"], held["proxy"]))
      <4>1. q["down3"] \in Seq(PieceType) /\ held["proxy"].enc = FALSE
        BY <1>2, <1>7, <2>1 DEF PieceType
      <4> QED
        BY <1>2, <1>7, <3>1, <4>1, AppendTypes DEF Plain
    <3> QED
      BY <1>2, <1>7, <2>1, <3>2
  <2>5. q'["down2"] = q["down2"]
    BY <1>2, <2>1 DEF Links
  <2>6. LinkKinds'
    BY <1>2, <2>1, <2>3, <2>4 DEF KindsInv, LinkKinds, Links
  <2>7. Done' = Done /\ ~FarHolds("app")'
    BY <1>1, <1>7 DEF Done, FarHolds, Far, Sides
  <2> QED
    BY <1>1, <1>5, <2>1, <2>2, <2>3, <2>5, <2>6, <2>7 DEF KindsInv, Behind
<1>8. CASE s = "peer"
  <2>1. ~Done
    BY <1>1, <1>8 DEF Done
  <2>2. /\ Data(q["down2"]) /\ Data(q["down3"]) /\ ~ttl["app"]
        /\ ~(FarHolds("app") /\ held["proxy"].num = TtlReply)
    BY <2>1 DEF KindsInv, Behind
  <2>3. FarHolds("app")' = FarHolds("app")
    BY <1>1, <1>8 DEF FarHolds, Far, Sides
  <2>4. CASE held[s].enc
    <3>1. Out(s) = "down2"
      BY <1>3, <1>8, <2>4 DEF EncOut
    <3>2. /\ TtlLast(q'["down2"])
          /\ held[s].num # TtlReply => Data(q'["down2"])
      BY <1>2, <1>4, <2>2, <3>1
    <3>3. Done' \/ Data(q'["down2"])
      BY <1>1, <1>8, <3>2 DEF Done, KindsInv, HeldKinds
    <3>4. q'["down3"] = q["down3"]
      BY <1>2, <3>1 DEF Links
    <3>5. LinkKinds'
      BY <1>2, <3>1, <3>2 DEF KindsInv, LinkKinds, Links
    <3> QED
      BY <1>1, <1>5, <2>2, <2>3, <3>3, <3>4, <3>5 DEF KindsInv, Behind
  <2>5. CASE ~held[s].enc
    <3>1. Out(s) = "up3" /\ held[s].num # TtlReply
      BY <1>1, <1>3, <1>8, <2>5 DEF PlainOut, KindsInv, HeldKinds, Piece
    <3>2. Data(q'["up3"])
      BY <1>2, <1>4, <3>1 DEF KindsInv, LinkKinds
    <3>3. Plain(q'["up3"])
      <4>1. q["up3"] \in Seq(PieceType) /\ held[s].enc = FALSE /\ Plain(q["up3"])
        BY <1>2, <2>5, <3>1 DEF PieceType, KindsInv, LinkKinds
      <4>2. Plain(Append(q["up3"], held[s]))
        BY <1>2, <4>1, AppendTypes DEF Plain
      <4> QED
        BY <1>2, <3>1, <4>2
    <3>4. q'["down2"] = q["down2"] /\ q'["down3"] = q["down3"]
      BY <1>2, <3>1 DEF Links
    <3>5. LinkKinds'
      BY <1>2, <3>1, <3>2, <3>3 DEF KindsInv, LinkKinds, Links
    <3> QED
      BY <1>1, <1>5, <2>2, <2>3, <3>4, <3>5 DEF KindsInv, Behind
  <2> QED
    BY <2>4, <2>5
<1> QED
  BY <1>6, <1>7, <1>8 DEF Sides

-----------------------------------------------------------------------------
(* In order *)

LEMMA OrderInit == Init => OrderInv
<1> SUFFICES ASSUME Init PROVE OrderInv
  OBVIOUS
<1>1. /\ \A l \in Links : q[l] = <<>>
      /\ \A s \in Sides : pc[s] = "select"
      /\ \A e \in Endpoints : got[e] = 0 /\ sent[e] = 0 /\ ~wrong[e] /\ ~ttl[e]
  BY DEF Init
<1>2. Data(<<>>) /\ TtlLast(<<>>) /\ Plain(<<>>) /\ \A n, m : Chain(<<>>, n, m)
  BY DEF Data, TtlLast, Plain, Chain
<1>3. HeldKinds
  BY <1>1 DEF HeldKinds, Sides
<1>4. LinkKinds
  BY <1>1, <1>2 DEF LinkKinds, Links
<1>5. Behind
  BY <1>1, <1>2 DEF Behind, FarHolds, Far, Links, Sides, Endpoints
<1>6. ASSUME NEW e \in Endpoints PROVE Stream(e)
  <2>1. ~FarHolds(e) /\ ~NearHolds(e)
    BY <1>1, Ways DEF FarHolds, NearHolds
  <2>2. q[ToEnd(e)] = <<>> /\ q[Mid(e)] = <<>> /\ q[First(e)] = <<>>
    BY <1>1, Ways
  <2>3. Last1(e) = 0
    BY <1>1, <2>1, <2>2 DEF Last1, Base1, Last2, Base2, Last3, LastOf
  <2>4. sent[Origin(e)] = 0
    BY <1>1, Ways
  <2> QED
    BY <1>2, <2>1, <2>2, <2>3, <2>4 DEF Stream, Begun, Middle, Rest
<1>7. InOrder
  BY <1>1 DEF InOrder, Endpoints
<1> QED
  BY <1>3, <1>4, <1>5, <1>6, <1>7 DEF OrderInv

\* Nobody but an endpoint that reads changes what it has seen.
LEMMA OrderSteps ==
  ASSUME TypeOK, OrderInv, [Next]_vars, TypeOK'
  PROVE  OrderInv'
<1>1. KindsInv /\ HeldKinds /\ InOrder /\ \A e \in Endpoints : Stream(e)
  BY DEF OrderInv, KindsInv
<1>2. CASE UNCHANGED vars
  <2>1. UNCHANGED <<load, q, fin, rst, end, sent, got, wrong, ttl, pc, held, torn>>
    BY <1>2 DEF vars, linkVars, endVars, sideVars
  <2>2. KindsInv'
    BY <1>1, <2>1 DEF KindsInv, HeldKinds, LinkKinds, Behind, Done, FarHolds
  <2>3. InOrder'
    BY <1>1, <2>1 DEF InOrder
  <2>4. \A e \in Endpoints : Stream(e)'
    <3> TAKE e \in Endpoints
    <3>1. Far3Same(e) /\ Mid2Same(e) /\ First1Same(e)
      BY <2>1 DEF Far3Same, Mid2Same, First1Same, FarHolds, NearHolds
    <3> QED
      BY <1>1, <2>1, <3>1, StreamSame DEF Reading
  <2> QED
    BY <2>2, <2>3, <2>4 DEF OrderInv, KindsInv
<1>3. ASSUME NEW o \in Endpoints, Endpoint(o) PROVE OrderInv'
  <2>1. load' = load
    BY <1>3 DEF Endpoint
  <2>2. KindsInv'
    BY <1>1, <1>3, <2>1, EndSendsKinds, EndReadsKinds, EndClosesKinds DEF Endpoint
  <2>3. \A e \in Endpoints : Stream(e)'
    BY <1>1, <1>3, <2>1, EndSendsStream, EndReadsStream, EndClosesStream DEF Endpoint
  <2>4. InOrder'
    <3>1. CASE EndReads(o)
      <4>1. ttl' = ttl \/ (o = "app" /\ ttl' = [ttl EXCEPT ![o] = TRUE])
        BY <3>1, EndReadsWhat
      <4>2. /\ wrong' = wrong \/ (torn[Far(o)] /\ wrong' = [wrong EXCEPT ![o] = TRUE])
            /\ torn' = torn
        BY <3>1, EndReadsWhat DEF EndReads, sideVars
      <4>3. \A e \in Endpoints : wrong'[e] => torn'[Decoder(e)]
        BY <1>1, <4>2 DEF InOrder, TypeOK, Decoder, Far
      <4>4. ~ttl'["target"]
        BY <1>1, <4>1 DEF InOrder, TypeOK, Endpoints
      <4> QED
        BY <4>3, <4>4 DEF InOrder
    <3>2. CASE EndSends(o) \/ EndCloses(o)
      BY <1>1, <3>2 DEF EndSends, EndCloses, InOrder, sideVars
    <3> QED
      BY <1>3, <3>1, <3>2 DEF Endpoint
  <2> QED
    BY <2>2, <2>3, <2>4 DEF OrderInv, KindsInv
<1>4. ASSUME NEW s \in Sides, Thread(s) \/ Silence(s) PROVE OrderInv'
  <2>1. /\ load' = load
        /\ \/ ReadPiece(s) \/ ReadTorn(s) \/ MidBlock(s) \/ ReadEnd(s)
           \/ SendPiece(s) \/ SendLost(s) \/ Close(s) \/ Timeout(s)
    BY <1>4 DEF Thread, Silence
  <2>2. KindsInv'
    BY <1>1, <2>1, ReadPieceKinds, PartKinds, StopKinds, SendPieceKinds, CloseKinds
  <2>3. \A e \in Endpoints : Stream(e)'
    BY <1>1, <2>1, ReadPieceStream, PartStream, StopStream, SendPieceStream,
       SendLostStream, CloseStream
  <2>4. /\ wrong' = wrong /\ ttl' = ttl
        /\ torn' = torn \/ torn' = [torn EXCEPT ![s] = TRUE]
    BY <2>1, PartTypes DEF ReadPiece, ReadEnd, SendPiece, SendLost, Close, Timeout, endVars
  <2>5. InOrder'
    BY <1>1, <2>4 DEF InOrder, Decoder, Sides, TypeOK
  <2> QED
    BY <2>2, <2>3, <2>5 DEF OrderInv, KindsInv
<1> QED
  BY <1>2, <1>3, <1>4 DEF Next

\* For links of every capacity and endpoints that send any number of pieces,
\* also without end: through both threads, timeouts, lost sends and resets
\* each endpoint receives the pieces of the other in order and without a gap
\* until the thread in front of it tears a block, which one recv of
\* utils::recvall may do; the only reply the relay adds, torn blocks or not,
\* goes to the application (stage_strm_connect, local_read).
THEOREM RelayInOrder == Spec => []InOrder
<1>1. TypeOK /\ OrderInv /\ [Next]_vars => TypeOK' /\ OrderInv'
  BY TypeNext, OrderSteps
<1>2. OrderInv => InOrder
  BY DEF OrderInv
<1> QED
  BY <1>1, <1>2, TypeInit, OrderInit, PTL DEF Spec
=============================================================================
