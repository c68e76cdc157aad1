----------------------------- MODULE LzssProofs -----------------------------
(* Proofs about Lzss: whatever lzss_encode makes of an input, lzss_decode    *)
(* turns into that input again, for every input, every width of a length     *)
(* and whatever it finds behind the end.                                     *)
EXTENDS Lzss, WellFoundedInduction, FiniteSetTheorems, TLAPS

-----------------------------------------------------------------------------
(* Least numbers, on which every induction of this module rests *)

\* A set of numbers that is not empty has a least one: of the intervals from
\* zero to its elements one contains no other.
LEMMA LeastNumber ==
  ASSUME NEW S \in SUBSET Nat, S # {}
  PROVE  \E x \in S : \A y \in S : x <= y
<1> DEFINE T == {0 .. n : n \in S}
<1>1. T \subseteq FiniteSubsetsOf(Nat)
  <2>1. ASSUME NEW n \in S PROVE IsFiniteSet(0 .. n) /\ 0 .. n \in SUBSET Nat
    <3>1. 0 \in Int /\ n \in Int
      OBVIOUS
    <3> QED
      BY <3>1, FS_Interval
  <2> QED
    BY <2>1 DEF FiniteSubsetsOf
<1>2. T # {}
  OBVIOUS
<1>3. \E x \in T : \A y \in T : ~ (<<y, x>> \in StrictSubsetOrdering(Nat))
  <2> HIDE DEF T
  <2> QED
    BY <1>1, <1>2, FS_StrictSubsetOrderingWellFounded, WFMin
<1>4. PICK n \in S : \A m \in S : ~ (<<0 .. m, 0 .. n>> \in StrictSubsetOrdering(Nat))
  BY <1>3
<1>5. ASSUME NEW m \in S, m < n PROVE FALSE
  <2>1. /\ 0 .. m \in SUBSET Nat /\ 0 .. n \in SUBSET Nat
        /\ 0 .. m \subseteq 0 .. n /\ 0 .. m # 0 .. n
    BY <1>5
  <2> QED
    BY <1>4, <2>1 DEF StrictSubsetOrdering
<1> QED
  BY <1>4, <1>5

-----------------------------------------------------------------------------
(* Powers of two *)

\* The values of Pow2 up to n.
Powers(n) ==
  {g \in [0 .. n -> Nat] : g[0] = 1 /\ \A i \in 1 .. n : g[i] = 2 * g[i - 1]}

LEMMA PowersExist == \A n \in Nat : Powers(n) # {}
<1> DEFINE S == {n \in Nat : Powers(n) = {}}
<1> SUFFICES ASSUME S # {} PROVE FALSE
  OBVIOUS
<1>1. PICK n \in S : \A m \in S : n <= m
  BY LeastNumber
<1>2. n # 0
  <2>1. [i \in 0 .. 0 |-> 1] \in Powers(0)
    BY DEF Powers
  <2> QED
    BY <2>1
<1>3. PICK g : g \in Powers(n - 1)
  BY <1>1, <1>2
<1>4. [i \in 0 .. n |-> IF i = n THEN 2 * g[n - 1] ELSE g[i]] \in Powers(n)
  <2> DEFINE h == [i \in 0 .. n |-> IF i = n THEN 2 * g[n - 1] ELSE g[i]]
  <2>1. n - 1 \in Nat /\ n \in Nat
    BY <1>2
  <2>2. /\ g \in [0 .. n - 1 -> Nat] /\ g[0] = 1
        /\ \A i \in 1 .. n - 1 : g[i] = 2 * g[i - 1]
    BY <1>3 DEF Powers
  <2>3. h \in [0 .. n -> Nat]
    BY <2>1, <2>2
  <2>4. h[0] = 1
    BY <2>1, <2>2
  <2>5. ASSUME NEW i \in 1 .. n PROVE h[i] = 2 * h[i - 1]
    BY <2>1, <2>2
  <2> QED
    BY <2>3, <2>4, <2>5 DEF Powers
<1>5. Powers(n) = {}
  OBVIOUS
<1> QED
  BY <1>4, <1>5

LEMMA PowersAgree ==
  ASSUME NEW m \in Nat, NEW n \in Nat, NEW g \in Powers(m), NEW h \in Powers(n)
  PROVE  \A i \in Nat : i <= m /\ i <= n => g[i] = h[i]
<1> DEFINE S == {i \in Nat : i <= m /\ i <= n /\ g[i] # h[i]}
<1> SUFFICES ASSUME S # {} PROVE FALSE
  OBVIOUS
<1>1. PICK i \in S : \A j \in S : i <= j
  BY LeastNumber
<1>2. i # 0
  BY DEF Powers
<1>3. g[i - 1] = h[i - 1]
  BY <1>1, <1>2
<1> QED
  BY <1>2, <1>3 DEF Powers

\* Pow2 is defined: there is a function as its definition asks for.
LEMMA Pow2Exists ==
  \E F \in [Nat -> Nat] : F = [n \in Nat |-> IF n = 0 THEN 1 ELSE 2 * F[n - 1]]
<1> DEFINE F == [n \in Nat |-> (CHOOSE p : p \in Powers(n))[n]]
<1>1. ASSUME NEW n \in Nat PROVE (CHOOSE p : p \in Powers(n)) \in Powers(n)
  BY PowersExist
<1>2. \A n \in Nat : F[n] \in Nat
  BY <1>1 DEF Powers
<1>3. F[0] = 1
  BY <1>1 DEF Powers
<1>4. ASSUME NEW n \in Nat PROVE F[n + 1] = 2 * F[n]
  <2> DEFINE g == CHOOSE p : p \in Powers(n + 1)
             h == CHOOSE p : p \in Powers(n)
  <2>1. g \in Powers(n + 1) /\ h \in Powers(n)
    BY <1>1
  <2> HIDE DEF g, h
  <2>2. g[n] = h[n]
    BY <2>1, PowersAgree
  <2>3. g[n + 1] = 2 * g[n]
    BY <2>1 DEF Powers
  <2> QED
    BY <2>2, <2>3 DEF g, h
<1> HIDE DEF F
<1>5. ASSUME NEW n \in Nat PROVE F[n] = IF n = 0 THEN 1 ELSE 2 * F[n - 1]
  <2>1. CASE n = 0
    BY <1>3, <2>1
  <2>2. CASE n # 0
    <3>1. F[(n - 1) + 1] = 2 * F[n - 1]
      BY <1>4, <2>2
    <3> QED
      BY <3>1, <2>2
  <2> QED
    BY <2>1, <2>2
<1>6. F \in [Nat -> Nat]
  BY <1>2 DEF F
<1> QED
  BY <1>5, <1>6

\* What is used of Pow2.
LEMMA Pow2Def ==
  /\ Pow2[0] = 1
  /\ \A n \in Nat : Pow2[n] \in Nat \ {0} /\ Pow2[n + 1] = 2 * Pow2[n]
<1>1. Pow2 = [n \in Nat |-> IF n = 0 THEN 1 ELSE 2 * Pow2[n - 1]]
  BY Pow2Exists DEF Pow2
<1>2. Pow2[0] = 1
  BY <1>1
<1>3. ASSUME NEW n \in Nat PROVE Pow2[n + 1] = 2 * Pow2[n]
  <2>1. Pow2[n + 1] = IF n + 1 = 0 THEN 1 ELSE 2 * Pow2[(n + 1) - 1]
    BY <1>1
  <2> QED
    BY <2>1
<1> DEFINE S == {n \in Nat : Pow2[n] \notin Nat \ {0}}
<1>4. ASSUME S # {} PROVE FALSE
  <2>1. PICK n \in S : \A m \in S : n <= m
    BY <1>4, LeastNumber
  <2>2. n # 0
    BY <1>2
  <2>3. Pow2[n - 1] \in Nat \ {0}
    BY <2>1, <2>2
  <2>4. Pow2[(n - 1) + 1] = 2 * Pow2[n - 1]
    BY <1>3, <2>2
  <2> QED
    BY <2>3, <2>4
<1> QED
  BY <1>2, <1>3, <1>4

LEMMA Pow2Sum ==
  ASSUME NEW a \in Nat, NEW b \in Nat
  PROVE  Pow2[a + b] = Pow2[a] * Pow2[b]
<1> DEFINE S == {n \in Nat : Pow2[a + n] # Pow2[a] * Pow2[n]}
<1> SUFFICES ASSUME S # {} PROVE FALSE
  OBVIOUS
<1>1. PICK n \in S : \A m \in S : n <= m
  BY LeastNumber
<1>2. n # 0
  BY Pow2Def
<1>3. Pow2[a + (n - 1)] = Pow2[a] * Pow2[n - 1]
  BY <1>1, <1>2
<1>4. Pow2[(a + (n - 1)) + 1] = 2 * Pow2[a + (n - 1)]
  BY <1>2, Pow2Def
<1>5. Pow2[(n - 1) + 1] = 2 * Pow2[n - 1]
  BY <1>2, Pow2Def
<1>6. Pow2[a] \in Nat /\ Pow2[n - 1] \in Nat
  BY <1>2, Pow2Def
<1>7. Pow2[a] * (2 * Pow2[n - 1]) = 2 * (Pow2[a] * Pow2[n - 1])
  BY <1>6
<1> QED
  BY <1>3, <1>4, <1>5, <1>7

-----------------------------------------------------------------------------
(* Division, and the bits of a number *)

\* Quotient and remainder, for a divisor that is no literal.
LEMMA Divided ==
  ASSUME NEW c \in Nat, NEW m \in Nat \ {0}
  PROVE  /\ c \div m \in Nat /\ c % m \in Nat /\ c % m < m
         /\ c = (c \div m) * m + (c % m)
<1>1. c \div m \in Int /\ c % m \in Int
  OBVIOUS
<1>2. c % m \in 0 .. m - 1
  OBVIOUS
<1>3. c = m * (c \div m) + (c % m)
  OBVIOUS
<1>4. c \div m >= 0
  OBVIOUS
<1> QED
  BY <1>1, <1>2, <1>3, <1>4

LEMMA DividedIs ==
  ASSUME NEW c \in Nat, NEW m \in Nat \ {0}, NEW q \in Nat, NEW r \in Nat,
         r < m, c = q * m + r
  PROVE  c \div m = q /\ c % m = r
OBVIOUS

\* Bit n of c, counted from the lowest one.
Bit(c, n) == (c \div Pow2[n]) % 2 = 1

\* The next bit is shifted in from below, as EncodeItem does.
LEMMA BitShiftedIn ==
  ASSUME NEW c \in Nat, NEW b \in {0, 1}
  PROVE  /\ Bit(2 * c + b, 0) <=> b = 1
         /\ \A n \in Nat : Bit(2 * c + b, n + 1) <=> Bit(c, n)
<1>1. Bit(2 * c + b, 0) <=> b = 1
  <2>1. (2 * c + b) \div 1 = 2 * c + b
    OBVIOUS
  <2> QED
    BY <2>1, Pow2Def DEF Bit
<1>2. ASSUME NEW n \in Nat PROVE Bit(2 * c + b, n + 1) <=> Bit(c, n)
  <2> DEFINE m == Pow2[n]
             q == c \div m
             r == c % m
  <2>1. m \in Nat \ {0} /\ Pow2[n + 1] = 2 * m
    BY Pow2Def
  <2>2. q \in Nat /\ r \in Nat /\ r < m /\ c = q * m + r
    BY <2>1, Divided
  <2> HIDE DEF m, q, r
  <2>3. 2 * c + b = q * (2 * m) + (2 * r + b)
    BY <2>1, <2>2
  <2>4. 2 * r + b < 2 * m /\ 2 * m \in Nat \ {0} /\ 2 * r + b \in Nat /\ 2 * c + b \in Nat
    BY <2>1, <2>2
  <2>5. (2 * c + b) \div (2 * m) = q
    BY <2>2, <2>3, <2>4, DividedIs
  <2> QED
    BY <2>1, <2>5 DEF Bit, m, q
<1> QED
  BY <1>1, <1>2

\* The bits of the last group are shifted into place, as EncodeEnd does.
LEMMA BitShiftedUp ==
  ASSUME NEW c \in Nat, NEW k \in Nat, NEW n \in Nat
  PROVE  Bit(c * Pow2[k], n + k) <=> Bit(c, n)
<1> DEFINE m == Pow2[n]
           p == Pow2[k]
           q == c \div m
           r == c % m
<1>1. m \in Nat \ {0} /\ p \in Nat \ {0} /\ Pow2[n + k] = m * p
  BY Pow2Def, Pow2Sum
<1>2. q \in Nat /\ r \in Nat /\ r < m /\ c = q * m + r
  BY <1>1, Divided
<1> HIDE DEF m, p, q, r
<1>3. c * p = q * (m * p) + r * p
  BY <1>1, <1>2
<1>4. /\ r * p \in Nat /\ c * p \in Nat
      /\ m * p \in Nat \ {0}
  BY <1>1, <1>2
<1>5. r * p < m * p
  BY <1>1, <1>2
<1>6. (c * p) \div (m * p) = q
  BY <1>2, <1>3, <1>4, <1>5, DividedIs
<1> QED
  BY <1>1, <1>6 DEF Bit, m, p, q

\* The highest bit tells the upper half from the lower one.
LEMMA BitHighest ==
  ASSUME NEW c \in Nat, NEW n \in Nat, c < Pow2[n + 1]
  PROVE  Bit(c, n) <=> c >= Pow2[n]
<1> DEFINE m == Pow2[n]
<1>1. m \in Nat \ {0} /\ Pow2[n + 1] = 2 * m
  BY Pow2Def
<1> HIDE DEF m
<1>2. CASE c >= m
  <2>1. c = 1 * m + (c - m) /\ c - m \in Nat /\ c - m < m
    BY <1>1, <1>2
  <2>2. c \div m = 1
    BY <1>1, <2>1, DividedIs
  <2> QED
    BY <1>2, <2>2 DEF Bit, m
<1>3. CASE c < m
  <2>1. c = 0 * m + c
    BY <1>1
  <2>2. c \div m = 0
    BY <1>1, <1>3, <2>1, DividedIs
  <2> QED
    BY <1>1, <1>3, <2>2 DEF Bit, m
<1> QED
  BY <1>1, <1>2, <1>3

\* A bit is used up and the others move up, as DecodeItem does.
LEMMA BitUsed ==
  ASSUME NEW h \in Nat, NEW c \in Nat, c < Pow2[h + 1]
  PROVE  /\ (2 * c) % Pow2[h + 1] \in Nat /\ (2 * c) % Pow2[h + 1] < Pow2[h + 1]
         /\ \A n \in 0 .. h - 1 : Bit((2 * c) % Pow2[h + 1], n + 1) <=> Bit(c, n)
<1> DEFINE m == Pow2[h]
           d == (2 * c) % Pow2[h + 1]
<1>1. m \in Nat \ {0} /\ Pow2[h + 1] = 2 * m
  BY Pow2Def
<1>2. d = IF c < m THEN 2 * c ELSE 2 * (c - m)
  <2> HIDE DEF m
  <2>1. CASE c < m
    <3>1. /\ 2 * c = 0 * (2 * m) + 2 * c /\ 2 * c < 2 * m
          /\ 2 * m \in Nat \ {0} /\ 2 * c \in Nat
      BY <1>1, <2>1
    <3>2. (2 * c) % (2 * m) = 2 * c
      BY <3>1, DividedIs
    <3> QED
      BY <1>1, <2>1, <3>2
  <2>2. CASE c >= m
    <3>1. /\ 2 * c = 1 * (2 * m) + 2 * (c - m) /\ 2 * (c - m) < 2 * m
          /\ 2 * (c - m) \in Nat /\ 2 * m \in Nat \ {0} /\ 2 * c \in Nat
      BY <1>1, <2>2
    <3>2. (2 * c) % (2 * m) = 2 * (c - m)
      BY <3>1, DividedIs
    <3> QED
      BY <1>1, <2>2, <3>2
  <2> QED
    BY <1>1, <2>1, <2>2
<1>3. d \in Nat /\ d < 2 * m
  BY <1>1, <1>2
<1>4. ASSUME NEW n \in 0 .. h - 1 PROVE Bit(d, n + 1) <=> Bit(c, n)
  <2> HIDE DEF m, d
  <2>1. CASE c < m
    <3>1. d = 2 * c + 0 /\ n \in Nat /\ 0 \in {0, 1}
      BY <1>1, <1>2, <2>1
    <3>2. Bit(2 * c + 0, n + 1) <=> Bit(c, n)
      BY <3>1, BitShiftedIn
    <3> QED
      BY <3>1, <3>2
  <2>2. CASE c >= m
    <3>1. /\ c - m \in Nat /\ d = 2 * (c - m) + 0
          /\ n \in Nat /\ 0 \in {0, 1}
      BY <1>1, <1>2, <2>2
    <3>2. Bit(2 * (c - m) + 0, n + 1) <=> Bit(c - m, n)
      BY <3>1, BitShiftedIn
    <3> DEFINE u == Pow2[n]
               w == Pow2[h - 1 - n]
               q == (c - m) \div u
               r == (c - m) % u
    <3>3. /\ u \in Nat \ {0} /\ w \in Nat \ {0}
      BY Pow2Def
    <3>4. m = (2 * w) * u
      <4>1. Pow2[(h - 1 - n) + 1] = 2 * w
        BY Pow2Def
      <4>2. h = ((h - 1 - n) + 1) + n /\ (h - 1 - n) + 1 \in Nat
        OBVIOUS
      <4>3. Pow2[((h - 1 - n) + 1) + n] = Pow2[(h - 1 - n) + 1] * Pow2[n]
        BY Pow2Sum
      <4> QED
        BY <4>1, <4>2, <4>3 DEF m
    <3>5. q \in Nat /\ r \in Nat /\ r < u /\ c - m = q * u + r
      BY <3>1, <3>3, Divided
    <3> HIDE DEF u, w, q, r
    <3>6. c = (q + 2 * w) * u + r /\ q + 2 * w \in Nat
      BY <1>1, <3>3, <3>4, <3>5
    <3>7. c \div u = q + 2 * w
      BY <3>3, <3>5, <3>6, DividedIs
    <3>8. (q + 2 * w) % 2 = q % 2
      BY <3>3, <3>5
    <3> QED
      BY <3>1, <3>2, <3>7, <3>8 DEF Bit, u, q
  <2> QED
    BY <1>1, <2>1, <2>2
<1> QED
  BY <1>1, <1>3, <1>4

-----------------------------------------------------------------------------
(* Patterns *)

\* What the code has fixed: a width, an input of bytes.
InputOK ==
  /\ LengthBits \in Nat \ {0}
  /\ data \in Seq(Byte) /\ Len(data) > 0

\* The widths fit: a byte has two lengths' bits, an offset three.
LEMMA Sizes ==
  ASSUME InputOK
  PROVE  /\ ByteBits \in Nat /\ ByteBits >= 2
         /\ Pow2[LengthBits] \in Nat /\ Pow2[LengthBits] >= 2
         /\ Pow2[ByteBits] = Pow2[LengthBits] * Pow2[LengthBits]
         /\ WindowSize = Pow2[ByteBits] * Pow2[LengthBits]
         /\ Pow2[ByteBits] \in Nat /\ Pow2[ByteBits] >= 4
         /\ MaxPattern = Pow2[LengthBits] + 1
<1>1. LengthBits \in Nat /\ LengthBits - 1 \in Nat
  BY DEF InputOK
<1>2. Pow2[(LengthBits - 1) + 1] = 2 * Pow2[LengthBits - 1] /\ Pow2[LengthBits - 1] \in Nat \ {0}
  BY <1>1, Pow2Def
<1>3. Pow2[LengthBits] \in Nat /\ Pow2[LengthBits] >= 2
  BY <1>1, <1>2
<1>4. Pow2[LengthBits + LengthBits] = Pow2[LengthBits] * Pow2[LengthBits]
  BY <1>1, Pow2Sum
<1>5. ByteBits = LengthBits + LengthBits /\ OffsetBits = ByteBits + LengthBits
  BY <1>1 DEF ByteBits, OffsetBits
<1>6. Pow2[ByteBits + LengthBits] = Pow2[ByteBits] * Pow2[LengthBits]
  BY <1>1, <1>5, Pow2Sum
<1>7. Pow2[LengthBits] * Pow2[LengthBits] >= 4
  <2> DEFINE L == Pow2[LengthBits]
  <2> HIDE DEF L
  <2>1. L \in Nat /\ L >= 2
    BY <1>3 DEF L
  <2>2. L * L >= 2 * L
    BY <2>1
  <2> QED
    BY <2>1, <2>2 DEF L
<1> QED
  BY <1>1, <1>3, <1>4, <1>5, <1>6, <1>7 DEF WindowSize, MaxPattern, ByteBits, InputOK

LEMMA ByteSizes ==
  ASSUME InputOK
  PROVE  /\ ByteBits \in Nat /\ ByteBits >= 2
         /\ Garbage \in Nat /\ Garbage = Pow2[ByteBits] /\ 0 \in Byte
         /\ \A b \in Byte : b \in Nat /\ b < Garbage /\ b \in 0 .. Garbage
<1>1. Pow2[ByteBits] \in Nat /\ Pow2[ByteBits] >= 4
  BY Sizes
<1>2. ByteBits \in Nat /\ ByteBits >= 2
  BY Sizes
<1>3. 0 \in Byte
  BY <1>1 DEF Byte
<1>4. \A b \in Byte : b \in Nat /\ b < Garbage /\ b \in 0 .. Garbage
  BY <1>1 DEF Byte, Garbage
<1> QED
  BY <1>1, <1>2, <1>3, <1>4 DEF Garbage

\* The two bytes of a pattern are bytes, and hold its offset and its length.
LEMMA PatternRead ==
  ASSUME InputOK, NEW offset \in Nat, offset < WindowSize,
         NEW n \in Nat, 2 <= n, n <= MaxPattern
  PROVE  LET b == PatternBytes(offset, n)
         IN  /\ b[1] \in Byte /\ b[2] \in Byte /\ Len(b) = 2
             /\ b[1] * Pow2[LengthBits] + b[2] \div Pow2[LengthBits] = offset
             /\ (b[2] % Pow2[LengthBits]) + 2 = n
<1> DEFINE L == Pow2[LengthBits]
           B == Pow2[ByteBits]
           q == offset \div L
           r == offset % L
           low == r * L + (n - 2)
<1>1. L \in Nat \ {0} /\ B = L * L /\ offset < B * L /\ n - 2 \in Nat /\ n - 2 < L
  BY Sizes
<1>2. B \in Nat \ {0}
  BY Sizes
<1>3. q \in Nat /\ r \in Nat /\ r < L /\ offset = q * L + r
  BY <1>1, Divided
<1>4. /\ PatternBytes(offset, n) = <<q % B, (offset * L + n - 2) % B>>
      /\ Byte = 0 .. B - 1
  BY DEF PatternBytes, Byte
<1> HIDE DEF L, B, q, r
<1>5. q % B = q /\ q < B
  <2>1. q < B
    <3> SUFFICES ASSUME q >= B PROVE FALSE
      BY <1>2, <1>3
    <3>1. q * L >= B * L
      BY <1>1, <1>2, <1>3
    <3> QED
      BY <1>1, <1>2, <1>3, <3>1
  <2>2. q = 0 * B + q
    BY <1>2, <1>3
  <2> QED
    BY <1>2, <1>3, <2>1, <2>2, DividedIs
<1>6. low \in Nat /\ low < B
  <2>1. r * L <= (L - 1) * L
    BY <1>1, <1>3
  <2>2. (L - 1) * L = L * L - L
    BY <1>1
  <2>3. r * L \in Nat
    BY <1>1, <1>3
  <2> QED
    BY <1>1, <2>1, <2>2, <2>3
<1>7. (offset * L + n - 2) % B = low
  <2>1. offset * L = (q * L) * L + r * L
    BY <1>1, <1>3
  <2>2. (q * L) * L = q * B
    BY <1>1, <1>3
  <2>3. offset * L + n - 2 = q * B + low
    BY <1>1, <1>2, <1>3, <2>1, <2>2
  <2>4. offset * L + n - 2 \in Nat
    <3>1. q * B \in Nat
      BY <1>2, <1>3
    <3> QED
      BY <1>6, <2>3, <3>1
  <2> QED
    BY <1>2, <1>3, <1>6, <2>3, <2>4, DividedIs
<1>8. low \div L = r /\ low % L = n - 2
  <2>1. low = r * L + (n - 2)
    OBVIOUS
  <2> HIDE DEF low
  <2>2. L \in Nat \ {0} /\ r \in Nat /\ n - 2 \in Nat /\ n - 2 < L /\ low \in Nat
    BY <1>1, <1>3, <1>6
  <2>3. PICK e \in Nat : e = n - 2
    BY <2>2
  <2>4. low = r * L + e /\ e < L
    BY <2>1, <2>2, <2>3
  <2>5. low \div L = r /\ low % L = e
    <3>1. low \in Nat /\ r \in Nat /\ L \in Nat \ {0}
      BY <2>2
    <3> QED
      BY <2>4, <3>1, DividedIs, SMTT(30)
  <2> QED
    BY <2>3, <2>5
<1> HIDE DEF low
<1>9. q * L + r = offset /\ (n - 2) + 2 = n
  BY <1>3
<1>10. q \in 0 .. B - 1 /\ low \in 0 .. B - 1
  BY <1>2, <1>3, <1>5, <1>6
<1>11. PatternBytes(offset, n) = <<q, low>>
  BY <1>4, <1>5, <1>7
<1> QED
  BY <1>4, <1>8, <1>9, <1>10, <1>11 DEF L

\* A match has a length: the first one that cannot be extended.
LEMMA MatchHasLength ==
  ASSUME InputOK, NEW p \in Int
  PROVE  MatchLength(p) \in 0 .. MaxPattern /\ Matches(p, MatchLength(p))
<1> DEFINE S == {i \in Nat : i >= MaxPattern \/ ~Matches(p, i + 1)}
<1>1. MaxPattern \in Nat
  BY Sizes
<1>2. PICK i \in S : \A j \in S : i <= j
  <2>1. MaxPattern \in S
    BY <1>1
  <2> QED
    BY <2>1, LeastNumber
<1>3. i <= MaxPattern
  BY <1>1, <1>2
<1>4. Matches(p, i)
  <2>1. CASE i = 0
    BY <2>1 DEF Matches
  <2>2. CASE i # 0
    <3>1. i - 1 \in Nat /\ i - 1 \notin S
      BY <1>2, <2>2
    <3>2. Matches(p, (i - 1) + 1)
      BY <3>1
    <3> QED
      BY <3>2
  <2> QED
    BY <2>1, <2>2
<1>5. \E k \in 0 .. MaxPattern :
        Matches(p, k) /\ (k = MaxPattern \/ ~Matches(p, k + 1))
  BY <1>1, <1>2, <1>3, <1>4
<1> QED
  BY <1>5 DEF MatchLength

\* There is a best one among the positions in the window.
LEMMA BestIsInWindow ==
  ASSUME InputOK, tail \in Nat, tail > 1
  PROVE  BestMatch \in WindowStart .. tail - 1
<1> DEFINE Window == WindowStart .. tail - 1
           Missing == {MaxPattern - MatchLength(q) : q \in Window}
<1>1. WindowStart \in Nat /\ WindowStart < tail /\ MaxPattern \in Nat
  <2>1. WindowSize \in Nat /\ WindowSize > 0
    <3> DEFINE L == Pow2[LengthBits]
               B == Pow2[ByteBits]
    <3>1. B \in Nat /\ L \in Nat /\ B >= 4 /\ L >= 2 /\ WindowSize = B * L
      BY Sizes
    <3> HIDE DEF B, L
    <3> QED
      BY <3>1
  <2> QED
    BY <2>1, Sizes DEF WindowStart
<1>2. \A q \in Window : MatchLength(q) \in 0 .. MaxPattern
  BY <1>1, MatchHasLength
<1>3. PICK n \in Missing : \A m \in Missing : n <= m
  <2>1. Missing \in SUBSET Nat
    BY <1>1, <1>2
  <2>2. tail - 1 \in Window
    BY <1>1
  <2>3. Missing # {}
    BY <2>2
  <2> HIDE DEF Missing
  <2> QED
    BY <2>1, <2>3, LeastNumber
<1> DEFINE Near == {d \in Nat : tail - d \in Window /\ MatchLength(tail - d) = MaxPattern - n}
<1>4. PICK d \in Near : \A e \in Near : d <= e
  <2>1. PICK q \in Window : n = MaxPattern - MatchLength(q)
    BY <1>3
  <2>2. tail - q \in Nat /\ tail - (tail - q) = q
    BY <1>1, <2>1
  <2>3. tail - q \in Near
    BY <1>1, <1>2, <2>1, <2>2
  <2> HIDE DEF Near
  <2>4. Near \in SUBSET Nat
    BY DEF Near
  <2> QED
    BY <2>3, <2>4, LeastNumber
<1>5. \A q \in Window : \/ MatchLength(q) < MatchLength(tail - d)
                        \/ MatchLength(q) = MatchLength(tail - d) /\ q <= tail - d
  <2> SUFFICES ASSUME NEW q \in Window, MatchLength(q) >= MatchLength(tail - d)
               PROVE  MatchLength(q) = MatchLength(tail - d) /\ q <= tail - d
    BY <1>1, <1>2, <1>4
  <2>1. MaxPattern - MatchLength(q) \in Missing
    OBVIOUS
  <2>2. n <= MaxPattern - MatchLength(q)
    BY <1>3, <2>1
  <2>3. MatchLength(q) = MaxPattern - n
    BY <1>1, <1>2, <1>4, <2>2
  <2>4. tail - q \in Nat /\ tail - (tail - q) = q
    BY <1>1
  <2>5. tail - q \in Near
    BY <2>3, <2>4
  <2> QED
    BY <1>1, <1>4, <2>3, <2>5
<1>6. \E p \in Window : LET n2 == MatchLength(p)
                        IN  \A q \in Window :
                              MatchLength(q) < n2 \/ (MatchLength(q) = n2 /\ q <= p)
  BY <1>4, <1>5
<1> QED
  BY <1>6 DEF BestMatch

\* What EncodeItem takes for a pattern can be copied from where it points to.
LEMMA BestCanBeCopied ==
  ASSUME InputOK, tail \in Nat, tail > 1, MatchLength(BestMatch) > 2
  PROVE  /\ MatchLength(BestMatch) \in 3 .. MaxPattern
         /\ tail - BestMatch \in Nat /\ tail - BestMatch < WindowSize
         /\ MatchLength(BestMatch) <= tail - BestMatch /\ tail - BestMatch < tail
         /\ tail + MatchLength(BestMatch) - 1 <= Len(data)
         /\ \A j \in 0 .. MatchLength(BestMatch) - 1 :
              data[tail - (tail - BestMatch) + j] = data[tail + j]
<1> DEFINE p == BestMatch
           n == MatchLength(BestMatch)
<1>1. p \in WindowStart .. tail - 1 /\ WindowSize \in Int /\ WindowStart \in Int
  <2>1. WindowSize \in Int
    <3> DEFINE L == Pow2[LengthBits]
               B == Pow2[ByteBits]
    <3>1. B \in Nat /\ L \in Nat /\ WindowSize = B * L
      BY Sizes
    <3> HIDE DEF B, L
    <3> QED
      BY <3>1
  <2> QED
    BY <2>1, BestIsInWindow DEF WindowStart
<1>2. n \in 0 .. MaxPattern /\ Matches(p, n) /\ MaxPattern \in Nat
  BY <1>1, MatchHasLength, Sizes
<1>3. n > 2
  OBVIOUS
<1>4. Len(data) \in Nat
  BY DEF InputOK
<1> HIDE DEF p, n
<1>5. \A j \in 0 .. n - 1 : /\ WindowStart < p + j /\ p + j < tail
                            /\ tail + j <= Len(data) /\ data[p + j] = data[tail + j]
  BY <1>2 DEF Matches
<1>6. WindowStart < p + 0 /\ p + (n - 1) < tail /\ tail + (n - 1) <= Len(data)
  <2>1. 0 \in 0 .. n - 1 /\ n - 1 \in 0 .. n - 1
    BY <1>2, <1>3
  <2> QED
    BY <1>5, <2>1
<1>7. WindowStart >= 1 /\ WindowStart >= tail - WindowSize
  BY <1>1 DEF WindowStart
<1>8. p \in Int /\ tail - (tail - p) = p
  BY <1>1
<1> QED
  BY <1>1, <1>2, <1>3, <1>4, <1>5, <1>6, <1>7, <1>8 DEF p, n

-----------------------------------------------------------------------------
(* What the encoder has written *)

\* An item of the output: where its control byte is, where its first byte is,
\* the number of its bit, the first byte of the input it stands for, how many
\* it stands for, and how far back its pattern begins (0 for a literal byte).
Item == [ctl : Nat, at : Nat, pos : Nat, from : Nat, size : Nat, offset : Nat]

Width(x) == IF x.offset = 0 THEN 1 ELSE 2
After(x) == x.at + Width(x)

First(x) == x.ctl = 1 /\ x.at = 2 /\ x.pos = 1 /\ x.from = 1

\* y is the item behind x.
Follows(y, x) ==
  /\ y.from = x.from + x.size
  /\ IF x.pos = ByteBits
       THEN y.ctl = After(x) /\ y.at = After(x) + 1 /\ y.pos = 1
       ELSE y.ctl = x.ctl /\ y.at = After(x) /\ y.pos = x.pos + 1

Chain(items) ==
  /\ Len(items) > 0 => First(items[1])
  /\ \A i \in 1 .. Len(items) - 1 : Follows(items[i + 1], items[i])

\* The bytes of the input at t that an item may stand for.
Copyable(t, size, offset) ==
  /\ size >= 1 /\ t >= 1 /\ t + size - 1 <= Len(data)
  /\ offset = 0 => size = 1
  /\ offset # 0 =>
       /\ size >= 2 /\ size <= MaxPattern
       /\ size <= offset /\ offset < t /\ offset < WindowSize
       /\ \A j \in 0 .. size - 1 : data[t - offset + j] = data[t + j]

Means(x) == Copyable(x.from, x.size, x.offset) /\ 1 <= x.pos /\ x.pos <= ByteBits

\* b, or b and c, are the bytes of the item.
Stands(x, b, c) ==
  IF x.offset = 0
    THEN b = data[x.from]
    ELSE /\ b = PatternBytes(x.offset, x.size)[1]
         /\ c = PatternBytes(x.offset, x.size)[2]

\* The item is in a group that was moved to the output.
Written(x) ==
  /\ 1 <= x.ctl /\ x.ctl < x.at /\ After(x) <= Len(out) + 1
  /\ Stands(x, out[x.at], out[x.at + 1])
  /\ Bit(out[x.ctl], ByteBits - x.pos) <=> x.offset # 0

\* The item is in the group that is being filled.
Pending(x) ==
  /\ x.ctl = Len(out) + 1 /\ x.ctl < x.at /\ After(x) <= Len(out) + Len(group) + 2
  /\ x.pos <= count
  /\ Stands(x, group[x.at - x.ctl], group[x.at - x.ctl + 1])
  /\ Bit(control, count - x.pos) <=> x.offset # 0

EncodeTypes ==
  /\ InputOK
  /\ tail \in 1 .. Len(data) + 1
  /\ count \in 0 .. ByteBits
  /\ control \in Nat /\ control < Pow2[count]
  /\ group \in Seq(Byte) /\ out \in Seq(Byte)
  /\ dst = <<>>

\* Where the encoder is behind the last item.
AtEnd(items) ==
  IF Len(items) = 0
    THEN tail = 1 /\ count = 0 /\ Len(out) = 0 /\ Len(group) = 0
    ELSE LET z == items[Len(items)]
         IN  /\ z.pos = count /\ z.ctl = Len(out) + 1
             /\ After(z) = Len(out) + Len(group) + 2
             /\ tail = z.from + z.size

Encoding(items) ==
  /\ Chain(items)
  /\ \A i \in 1 .. Len(items) : Means(items[i])
  /\ \A i \in 1 .. Len(items) : Written(items[i]) \/ Pending(items[i])
  /\ AtEnd(items)

EncodeInv == pc = "encode" => EncodeTypes /\ \E items \in Seq(Item) : Encoding(items)

\* A turn of the encoder takes bytes of the input that its item may stand for.
LEMMA ItemTaken ==
  ASSUME EncodeTypes, EncodeItem
  PROVE  \E size \in Nat, offset \in Nat :
           /\ Copyable(tail, size, offset)
           /\ tail' = tail + size
           /\ control' = 2 * (IF Full THEN 0 ELSE control) + (IF offset = 0 THEN 0 ELSE 1)
           /\ group' = (IF Full THEN <<>> ELSE group)
                         \o (IF offset = 0 THEN <<data[tail]>>
                                           ELSE PatternBytes(offset, size))
<1> DEFINE best == IF tail > 1 THEN BestMatch ELSE 0
           length == IF tail > 1 THEN MatchLength(best) ELSE 0
<1>1. tail \in Nat /\ tail >= 1 /\ tail <= Len(data) /\ Len(data) \in Nat
  BY DEF EncodeTypes, EncodeItem, InputOK
<1>2. CASE WorthSaving(length)
  <2>1. length > 2 /\ tail > 1 /\ best = BestMatch /\ length = MatchLength(BestMatch)
    BY <1>2 DEF WorthSaving
  <2>2. /\ length \in 3 .. MaxPattern
        /\ tail - best \in Nat /\ tail - best < WindowSize
        /\ length <= tail - best /\ tail - best < tail
        /\ tail + length - 1 <= Len(data)
        /\ \A j \in 0 .. length - 1 : data[tail - (tail - best) + j] = data[tail + j]
    BY <1>1, <2>1, BestCanBeCopied DEF EncodeTypes
  <2>3. /\ control' = 2 * (IF Full THEN 0 ELSE control) + 1
        /\ group' = (IF Full THEN <<>> ELSE group) \o PatternBytes(tail - best, length)
        /\ tail' = tail + length
    BY <1>2 DEF EncodeItem
  <2>4. MaxPattern \in Nat
    <3>1. InputOK
      BY DEF EncodeTypes
    <3> QED
      BY <3>1, Sizes
  <2> HIDE DEF best, length
  <2>5. length \in Nat /\ tail - best # 0 /\ length >= 2 /\ length <= MaxPattern
    BY <2>2, <2>4
  <2>6. Copyable(tail, length, tail - best)
    BY <1>1, <2>2, <2>5 DEF Copyable
  <2> QED
    BY <2>2, <2>3, <2>5, <2>6
<1>3. CASE ~WorthSaving(length)
  <2>1. /\ control' = 2 * (IF Full THEN 0 ELSE control)
        /\ group' = Append(IF Full THEN <<>> ELSE group, data[tail])
        /\ tail' = tail + 1
    BY <1>3 DEF EncodeItem
  <2>2. (IF Full THEN 0 ELSE control) \in Nat
    BY DEF EncodeTypes
  <2>3. (IF Full THEN <<>> ELSE group) \in Seq(Byte) /\ data[tail] \in Byte
    BY <1>1 DEF EncodeTypes, InputOK
  <2>4. group' = (IF Full THEN <<>> ELSE group) \o <<data[tail]>>
    BY <2>1, <2>3
  <2>5. Copyable(tail, 1, 0)
    BY <1>1 DEF Copyable
  <2>6. control' = 2 * (IF Full THEN 0 ELSE control) + 0
    BY <2>1, <2>2
  <2> QED
    BY <2>1, <2>4, <2>5, <2>6
<1> QED
  BY <1>2, <1>3

-----------------------------------------------------------------------------
(* How the items of the output change *)

LEMMA MeansSame ==
  ASSUME UNCHANGED <<LengthBits, data>>, NEW x, Means(x)
  PROVE  Means(x)'
BY DEF Means, Copyable, MaxPattern, WindowSize, OffsetBits, ByteBits

\* What is in the output stays there when something is put behind it.
LEMMA WrittenStays ==
  ASSUME UNCHANGED <<LengthBits, data>>, Len(out) \in Nat, Len(out') \in Nat,
         Len(out) <= Len(out'), \A i \in 1 .. Len(out) : out'[i] = out[i],
         NEW x \in Item, Written(x)
  PROVE  Written(x)'
<1>1. x.at \in Nat /\ x.ctl \in Nat /\ x.offset \in Nat
  BY DEF Item
<1>2. /\ 1 <= x.ctl /\ x.ctl < x.at /\ After(x) <= Len(out) + 1
      /\ After(x) = x.at + Width(x) /\ Width(x) = IF x.offset = 0 THEN 1 ELSE 2
  BY DEF Written, After, Width
<1>3. out'[x.ctl] = out[x.ctl] /\ out'[x.at] = out[x.at]
  <2>1. x.ctl \in 1 .. Len(out) /\ x.at \in 1 .. Len(out)
    BY <1>1, <1>2
  <2> QED
    BY <2>1
<1>4. ASSUME x.offset # 0 PROVE out'[x.at + 1] = out[x.at + 1]
  <2>1. x.at + 1 \in 1 .. Len(out)
    BY <1>1, <1>2, <1>4
  <2> QED
    BY <2>1
<1>5. PatternBytes(x.offset, x.size)' = PatternBytes(x.offset, x.size) /\ ByteBits' = ByteBits
  BY DEF PatternBytes, ByteBits
<1>6. Bit(out'[x.ctl], ByteBits' - x.pos) <=> x.offset # 0
  BY <1>3, <1>5 DEF Written
<1>7. Stands(x, out[x.at], out[x.at + 1])
  BY DEF Written
<1>8. Stands(x, out[x.at], out[x.at + 1])'
  BY <1>3, <1>4, <1>5, <1>7 DEF Stands
<1>9. After(x) <= Len(out') + 1
  BY <1>1, <1>2
<1> QED
  BY <1>2, <1>6, <1>8, <1>9 DEF Written

LEMMA ItemTypes ==
  ASSUME NEW x \in Item
  PROVE  /\ x.at \in Nat /\ x.ctl \in Nat /\ x.offset \in Nat /\ x.pos \in Nat
         /\ x.from \in Nat /\ x.size \in Nat
BY DEF Item

LEMMA EncodeNumbers ==
  ASSUME EncodeTypes
  PROVE  /\ Len(out) \in Nat /\ Len(group) \in Nat /\ Len(data) \in Nat
         /\ count \in Nat /\ ByteBits \in Nat /\ count <= ByteBits /\ control \in Nat
         /\ tail \in Nat /\ ByteBits >= 2
<1>1. InputOK
  BY DEF EncodeTypes
<1>2. ByteBits \in Nat /\ ByteBits >= 2
  BY <1>1, Sizes
<1> QED
  BY <1>2 DEF EncodeTypes, InputOK

\* A full control byte is a byte.
LEMMA ControlIsByte ==
  ASSUME EncodeTypes, Full
  PROVE  control \in Byte
<1>1. count = ByteBits
  BY EncodeNumbers DEF Full
<1>2. control \in Nat /\ control < Pow2[ByteBits]
  BY <1>1 DEF EncodeTypes
<1>3. InputOK
  BY DEF EncodeTypes
<1>4. Pow2[ByteBits] \in Nat
  BY <1>3, Sizes
<1> QED
  BY <1>2, <1>4 DEF Byte

\* Where the bytes of an item at a are in a group of g bytes, the control byte
\* of which is behind l bytes.
LEMMA PlaceInGroup ==
  ASSUME NEW a \in Nat, NEW l \in Nat, NEW g \in Nat, NEW w \in {1, 2},
         l + 1 < a, a + w <= l + g + 2
  PROVE  /\ a - (l + 1) \in 1 .. g /\ l + 1 + (a - (l + 1)) = a
         /\ w = 2 => /\ a - (l + 1) + 1 \in 1 .. g
                     /\ l + 1 + (a - (l + 1) + 1) = a + 1
OBVIOUS

LEMMA PendingPlace ==
  ASSUME EncodeTypes, NEW x \in Item, Pending(x)
  PROVE  /\ x.at - x.ctl \in 1 .. Len(group) /\ Len(out) + 1 + (x.at - x.ctl) = x.at
         /\ x.offset # 0 => /\ x.at - x.ctl + 1 \in 1 .. Len(group)
                            /\ Len(out) + 1 + (x.at - x.ctl + 1) = x.at + 1
<1>1. x.at \in Nat /\ Len(out) \in Nat /\ Len(group) \in Nat
  BY ItemTypes, EncodeNumbers
<1>2. /\ x.ctl = Len(out) + 1 /\ x.ctl < x.at
      /\ x.at + Width(x) <= Len(out) + Len(group) + 2
  BY DEF Pending, After
<1>3. Width(x) \in {1, 2} /\ (x.offset # 0 => Width(x) = 2)
  BY DEF Width
<1>4. Len(out) + 1 < x.at
  BY <1>2
<1>5. /\ x.at - (Len(out) + 1) \in 1 .. Len(group)
      /\ Len(out) + 1 + (x.at - (Len(out) + 1)) = x.at
      /\ Width(x) = 2 => /\ x.at - (Len(out) + 1) + 1 \in 1 .. Len(group)
                         /\ Len(out) + 1 + (x.at - (Len(out) + 1) + 1) = x.at + 1
  BY <1>1, <1>2, <1>3, <1>4, PlaceInGroup
<1> QED
  BY <1>2, <1>3, <1>5

\* The group goes to the output behind its control byte, whose bits are
\* shifted into place.
LEMMA FlushWrites ==
  ASSUME EncodeTypes, UNCHANGED <<LengthBits, data>>, Len(out') \in Nat,
         Len(out') >= Len(out) + 1 + Len(group),
         out'[Len(out) + 1] = control * Pow2[ByteBits - count],
         \A i \in 1 .. Len(group) : out'[Len(out) + 1 + i] = group[i],
         NEW x \in Item, Means(x), Pending(x)
  PROVE  Written(x)'
<1>1. /\ x.at \in Nat /\ x.ctl \in Nat /\ x.offset \in Nat /\ x.pos \in Nat
      /\ Len(out) \in Nat /\ Len(group) \in Nat
      /\ count \in Nat /\ ByteBits \in Nat /\ count <= ByteBits /\ control \in Nat
  BY ItemTypes, EncodeNumbers
<1>2. /\ x.ctl = Len(out) + 1 /\ x.ctl < x.at /\ After(x) <= Len(out) + Len(group) + 2
      /\ After(x) = x.at + Width(x) /\ Width(x) = IF x.offset = 0 THEN 1 ELSE 2
      /\ x.pos <= count
      /\ Bit(control, count - x.pos) <=> x.offset # 0
  BY DEF Pending, After, Width
<1>3. x.at - x.ctl \in 1 .. Len(group) /\ Len(out) + 1 + (x.at - x.ctl) = x.at
  BY PendingPlace
<1>4. out'[x.at] = group[x.at - x.ctl]
  BY <1>3
<1>5. ASSUME x.offset # 0 PROVE out'[x.at + 1] = group[x.at - x.ctl + 1]
  <2>1. /\ x.at - x.ctl + 1 \in 1 .. Len(group)
        /\ Len(out) + 1 + (x.at - x.ctl + 1) = x.at + 1
    BY <1>5, PendingPlace
  <2> QED
    BY <2>1
<1>6. PatternBytes(x.offset, x.size)' = PatternBytes(x.offset, x.size) /\ ByteBits' = ByteBits
  BY DEF PatternBytes, ByteBits
<1>7. Stands(x, group[x.at - x.ctl], group[x.at - x.ctl + 1])
  BY DEF Pending
<1>8. Stands(x, out[x.at], out[x.at + 1])'
  BY <1>4, <1>5, <1>6, <1>7 DEF Stands
<1>9. Bit(out'[x.ctl], ByteBits' - x.pos) <=> x.offset # 0
  <2>1. count - x.pos \in Nat /\ ByteBits - count \in Nat
    BY <1>1, <1>2
  <2>2. (count - x.pos) + (ByteBits - count) = ByteBits - x.pos
    BY <1>1
  <2>3. Bit(control * Pow2[ByteBits - count], ByteBits - x.pos) <=> Bit(control, count - x.pos)
    BY <1>1, <2>1, <2>2, BitShiftedUp
  <2> QED
    BY <1>2, <1>6, <2>3
<1>10. After(x) <= Len(out') + 1 /\ 1 <= x.ctl
  <2>1. Width(x) \in {1, 2} /\ After(x) \in Nat
    BY <1>1, <1>2
  <2>2. \A a, l, g, o \in Nat :
          a <= l + g + 2 /\ o >= l + 1 + g => a <= o + 1 /\ 1 <= l + 1
    OBVIOUS
  <2>3. After(x) <= Len(out) + Len(group) + 2 /\ x.ctl = Len(out) + 1
    BY <1>2
  <2> QED
    BY <1>1, <2>1, <2>2, <2>3, Zenon
<1> QED
  BY <1>2, <1>8, <1>9, <1>10 DEF Written

\* An item stays in the group when the next one is put behind it.
LEMMA PendingStays ==
  ASSUME EncodeTypes, UNCHANGED <<LengthBits, data, out>>, count' = count + 1,
         Len(group') \in Nat, Len(group') >= Len(group),
         \A i \in 1 .. Len(group) : group'[i] = group[i],
         NEW b \in {0, 1}, control' = 2 * control + b,
         NEW x \in Item, Pending(x)
  PROVE  Pending(x)'
<1>1. /\ x.at \in Nat /\ x.ctl \in Nat /\ x.offset \in Nat /\ x.pos \in Nat
      /\ Len(out) \in Nat /\ Len(group) \in Nat /\ count \in Nat /\ control \in Nat
  BY ItemTypes, EncodeNumbers
<1>2. /\ x.ctl = Len(out) + 1 /\ x.ctl < x.at /\ After(x) <= Len(out) + Len(group) + 2
      /\ After(x) = x.at + Width(x) /\ Width(x) = IF x.offset = 0 THEN 1 ELSE 2
      /\ x.pos <= count
      /\ Bit(control, count - x.pos) <=> x.offset # 0
  BY DEF Pending, After, Width
<1>3. group'[x.at - x.ctl] = group[x.at - x.ctl]
  <2>1. x.at - x.ctl \in 1 .. Len(group)
    BY PendingPlace
  <2> QED
    BY <2>1
<1>4. ASSUME x.offset # 0 PROVE group'[x.at - x.ctl + 1] = group[x.at - x.ctl + 1]
  <2>1. x.at - x.ctl + 1 \in 1 .. Len(group)
    BY <1>4, PendingPlace
  <2> QED
    BY <2>1
<1>5. PatternBytes(x.offset, x.size)' = PatternBytes(x.offset, x.size)
  BY DEF PatternBytes, ByteBits
<1>6. Stands(x, group[x.at - x.ctl], group[x.at - x.ctl + 1])
  BY DEF Pending
<1>7. Stands(x, group[x.at - x.ctl], group[x.at - x.ctl + 1])'
  BY <1>3, <1>4, <1>5, <1>6 DEF Stands
<1>8. Bit(control', count' - x.pos) <=> x.offset # 0
  <2>1. count - x.pos \in Nat /\ count' - x.pos = (count - x.pos) + 1
    <3>1. \A c, p \in Nat : p <= c => c - p \in Nat /\ (c + 1) - p = (c - p) + 1
      OBVIOUS
    <3>2. x.pos <= count
      BY <1>2
    <3> QED
      BY <1>1, <3>1, <3>2, Zenon
  <2>2. Bit(2 * control + b, (count - x.pos) + 1) <=> Bit(control, count - x.pos)
    BY <1>1, <2>1, BitShiftedIn
  <2> QED
    BY <1>2, <2>1, <2>2
<1>9. /\ x.ctl = Len(out') + 1 /\ After(x) <= Len(out') + Len(group') + 2
      /\ x.pos <= count'
  <2>1. After(x) \in Nat
    BY <1>1, <1>2
  <2>2. \A a, l, g, h \in Nat : a <= l + g + 2 /\ h >= g => a <= l + h + 2
    OBVIOUS
  <2>3. After(x) <= Len(out) + Len(group') + 2
    BY <1>1, <1>2, <2>1, <2>2, Zenon
  <2>4. x.pos <= count + 1
    BY <1>1, <1>2
  <2> QED
    BY <1>2, <2>3, <2>4
<1> QED
  BY <1>2, <1>7, <1>8, <1>9 DEF Pending

\* The bytes that an item adds to a group.
LEMMA ItemBytes ==
  ASSUME InputOK, NEW t \in Nat, NEW size \in Nat, NEW offset \in Nat,
         Copyable(t, size, offset)
  PROVE  LET w == IF offset = 0 THEN <<data[t]>> ELSE PatternBytes(offset, size)
         IN  w \in Seq(Byte) /\ Len(w) = IF offset = 0 THEN 1 ELSE 2
<1>1. CASE offset = 0
  <2>1. data[t] \in Byte
    BY <1>1 DEF Copyable, InputOK
  <2> QED
    BY <1>1, <2>1
<1>2. CASE offset # 0
  <2>1. 2 <= size /\ size <= MaxPattern /\ offset < WindowSize
    BY <1>2 DEF Copyable
  <2>2. /\ PatternBytes(offset, size)[1] \in Byte /\ PatternBytes(offset, size)[2] \in Byte
    BY <2>1, PatternRead
  <2> QED
    BY <1>2, <2>2 DEF PatternBytes
<1> QED
  BY <1>1, <1>2

\* h consists of g and w behind it.
Joined(h, g, w) ==
  /\ Len(h) = Len(g) + Len(w)
  /\ \A i \in 1 .. Len(g) : h[i] = g[i]
  /\ \A i \in 1 .. Len(w) : h[Len(g) + i] = w[i]

LEMMA Concatenation ==
  ASSUME NEW S, NEW g \in Seq(S), NEW w \in Seq(S)
  PROVE  g \o w \in Seq(S) /\ Joined(g \o w, g, w)
BY DEF Joined

\* The bytes of an item for the input at t.
BytesAt(t, x) ==
  IF x.offset = 0 THEN <<data[t]>> ELSE PatternBytes(x.offset, x.size)

\* The group with an item more.
LEMMA GroupGrows ==
  ASSUME InputOK, NEW t \in Nat, NEW x \in Item, x.from = t,
         Copyable(t, x.size, x.offset), NEW g \in Seq(Byte), NEW h,
         h = g \o BytesAt(t, x)
  PROVE  /\ h \in Seq(Byte) /\ Len(h) = Len(g) + Width(x)
         /\ \A i \in 1 .. Len(g) : h[i] = g[i]
         /\ Stands(x, h[Len(g) + 1], h[Len(g) + 2])
<1> DEFINE w == IF x.offset = 0 THEN <<data[t]>> ELSE PatternBytes(x.offset, x.size)
<1>1. w \in Seq(Byte) /\ Len(w) = Width(x)
  BY ItemBytes, ItemTypes DEF Width
<1>2. /\ w[1] = IF x.offset = 0 THEN data[t] ELSE PatternBytes(x.offset, x.size)[1]
      /\ x.offset # 0 => w[2] = PatternBytes(x.offset, x.size)[2]
  OBVIOUS
<1>3. h = g \o w
  BY DEF BytesAt
<1>4. Len(w) = IF x.offset = 0 THEN 1 ELSE 2
  BY <1>1 DEF Width
<1> HIDE DEF w
<1>5. h \in Seq(Byte) /\ Joined(h, g, w)
  BY <1>1, <1>3, Concatenation, Zenon
<1>6. h[Len(g) + 1] = w[1] /\ (x.offset # 0 => h[Len(g) + 2] = w[2])
  BY <1>4, <1>5 DEF Joined
<1> QED
  BY <1>1, <1>2, <1>5, <1>6 DEF Stands, Joined

\* The new item is the last one of its group.
LEMMA PendingNew ==
  ASSUME UNCHANGED <<LengthBits, data>>, NEW x \in Item, NEW n \in Nat,
         Len(out') \in Nat, count' \in Nat, Len(group') = n + Width(x),
         x.ctl = Len(out') + 1, x.at = Len(out') + 2 + n, count' = x.pos,
         Stands(x, group'[n + 1], group'[n + 2]),
         Bit(control', 0) <=> x.offset # 0
  PROVE  Pending(x)' /\ After(x) = Len(out') + Len(group') + 2
<1>1. Width(x) \in {1, 2}
  BY DEF Width
<1>2. x.at - x.ctl = n + 1 /\ x.at - x.ctl + 1 = n + 2
  OBVIOUS
<1>3. PatternBytes(x.offset, x.size)' = PatternBytes(x.offset, x.size)
  BY DEF PatternBytes, ByteBits
<1>4. Stands(x, group[x.at - x.ctl], group[x.at - x.ctl + 1])'
  BY <1>2, <1>3 DEF Stands
<1>5. count' - x.pos = 0
  BY ItemTypes
<1>6. After(x) = Len(out') + Len(group') + 2
  <2>1. \A l \in Nat, w \in {1, 2} : l + 2 + n + w = l + (n + w) + 2
    OBVIOUS
  <2>2. After(x) = Len(out') + 2 + n + Width(x)
    BY DEF After
  <2> QED
    BY <1>1, <2>1, <2>2, Zenon
<1>7. x.ctl < x.at /\ x.pos <= count'
  OBVIOUS
<1>8. After(x) <= Len(out') + Len(group') + 2
  BY <1>1, <1>6
<1>9. Bit(control', count' - x.pos) <=> x.offset # 0
  BY <1>5
<1>10. Pending(x)'
  BY <1>4, <1>7, <1>8, <1>9 DEF Pending, After, Width
<1> QED
  BY <1>6, <1>10

-----------------------------------------------------------------------------
(* The encoder *)

\* The output with a group more.
LEMMA OutputGrows ==
  ASSUME EncodeTypes, NEW b \in Byte, NEW o, o = out \o <<b>> \o group
  PROVE  /\ o \in Seq(Byte) /\ Len(o) = Len(out) + 1 + Len(group)
         /\ \A i \in 1 .. Len(out) : o[i] = out[i]
         /\ o[Len(out) + 1] = b
         /\ \A i \in 1 .. Len(group) : o[Len(out) + 1 + i] = group[i]
<1> DEFINE w == <<b>>
           p == out \o w
<1>1. out \in Seq(Byte) /\ group \in Seq(Byte) /\ w \in Seq(Byte) /\ Len(w) = 1 /\ w[1] = b
  BY DEF EncodeTypes
<1>2. o = p \o group
  OBVIOUS
<1> HIDE DEF w
<1>3. p \in Seq(Byte) /\ Joined(p, out, w)
  BY <1>1, Concatenation, Zenon
<1> HIDE DEF p
<1>4. o \in Seq(Byte) /\ Joined(o, p, group)
  BY <1>1, <1>2, <1>3, Concatenation, Zenon
<1>5. /\ Len(out) \in Nat /\ Len(group) \in Nat /\ Len(p) = Len(out) + 1
      /\ \A i \in 1 .. Len(out) : p[i] = out[i]
      /\ p[Len(out) + 1] = b
  BY <1>1, <1>3 DEF Joined
<1>6. /\ Len(o) = Len(p) + Len(group)
      /\ \A i \in 1 .. Len(p) : o[i] = p[i]
      /\ \A i \in 1 .. Len(group) : o[Len(p) + i] = group[i]
  BY <1>4 DEF Joined
<1> QED
  BY <1>4, <1>5, <1>6

\* The numbers and sequences of the encoder have their types.
LEMMA EncodeItemTypes ==
  ASSUME EncodeTypes, EncodeItem
  PROVE  /\ EncodeTypes'
         /\ count' = IF Full THEN 1 ELSE count + 1
         /\ Full <=> count = ByteBits
         /\ UNCHANGED <<LengthBits, data>>
<1>1. PICK size \in Nat, offset \in Nat :
        /\ Copyable(tail, size, offset)
        /\ tail' = tail + size
        /\ control' = 2 * (IF Full THEN 0 ELSE control) + (IF offset = 0 THEN 0 ELSE 1)
        /\ group' = (IF Full THEN <<>> ELSE group)
                      \o (IF offset = 0 THEN <<data[tail]>>
                                        ELSE PatternBytes(offset, size))
  BY ItemTaken
<1>2. /\ out' = IF Full THEN Flushed ELSE out
      /\ count' = IF Full THEN 1 ELSE count + 1
      /\ LengthBits' = LengthBits /\ data' = data /\ dst' = dst
  BY DEF EncodeItem
<1>3. Full <=> count = ByteBits
  BY EncodeNumbers DEF Full
<1>4. InputOK /\ InputOK'
  BY <1>2 DEF EncodeTypes, InputOK, Byte, ByteBits
<1>5. Byte' = Byte /\ ByteBits' = ByteBits
  BY <1>2 DEF Byte, ByteBits
<1>6. count' \in 1 .. ByteBits /\ count' \in Nat /\ count' - 1 \in Nat
  BY <1>2, <1>3, EncodeNumbers
<1>7. control' \in Nat /\ control' < Pow2[count']
  <2> DEFINE c == IF Full THEN 0 ELSE control
             b == IF offset = 0 THEN 0 ELSE 1
             m == Pow2[count' - 1]
  <2>1. m \in Nat \ {0} /\ Pow2[(count' - 1) + 1] = 2 * m
    BY <1>6, Pow2Def
  <2>2. (count' - 1) + 1 = count'
    <3>1. \A n \in Nat : (n - 1) + 1 = n
      OBVIOUS
    <3> QED
      BY <1>6, <3>1, Zenon
  <2>3. c \in Nat /\ c < m
    <3>1. CASE Full
      BY <3>1, <2>1
    <3>2. CASE ~Full
      <4>1. count' - 1 = count
        BY <1>2, <3>2, EncodeNumbers
      <4> QED
        BY <3>2, <4>1 DEF EncodeTypes
    <3> QED
      BY <3>1, <3>2
  <2>4. control' = 2 * c + b /\ b \in {0, 1}
    BY <1>1
  <2> HIDE DEF c, b, m
  <2>5. control' \in Nat /\ control' < 2 * m
    BY <2>1, <2>3, <2>4
  <2> QED
    BY <2>1, <2>2, <2>5
<1>8. group' \in Seq(Byte)
  <2> DEFINE w == IF offset = 0 THEN <<data[tail]>> ELSE PatternBytes(offset, size)
             g == IF Full THEN <<>> ELSE group
  <2>1. w \in Seq(Byte)
    BY <1>1, <1>4, ItemBytes, EncodeNumbers
  <2>2. g \in Seq(Byte)
    BY DEF EncodeTypes
  <2>3. group' = g \o w
    BY <1>1
  <2> HIDE DEF w, g
  <2> QED
    BY <2>1, <2>2, <2>3, Concatenation, Zenon
<1>9. out' \in Seq(Byte)
  <2>1. CASE Full
    <3>1. control \in Byte
      BY <2>1, ControlIsByte
    <3>2. out' = out \o <<control>> \o group
      BY <1>2, <2>1 DEF Flushed
    <3> QED
      BY <3>1, <3>2, OutputGrows
  <2>2. CASE ~Full
    BY <1>2, <2>2 DEF EncodeTypes
  <2> QED
    BY <2>1, <2>2
<1>10. tail' \in 1 .. Len(data) + 1
  <2>1. size >= 1 /\ tail >= 1 /\ tail + size - 1 <= Len(data)
    BY <1>1 DEF Copyable
  <2>2. tail + size \in 1 .. Len(data) + 1
    BY <2>1, EncodeNumbers
  <2> QED
    BY <1>1, <2>2
<1>11. dst' = <<>>
  BY <1>2 DEF EncodeTypes
<1>12. EncodeTypes'
  BY <1>2, <1>4, <1>5, <1>6, <1>7, <1>8, <1>9, <1>10, <1>11 DEF EncodeTypes
<1> QED
  BY <1>2, <1>3, <1>12

\* An item that was written or pending is so after the turn.
LEMMA OldItems ==
  ASSUME EncodeTypes, EncodeItem, NEW x \in Item, Means(x), Written(x) \/ Pending(x)
  PROVE  Means(x)' /\ (Written(x)' \/ Pending(x)')
<1>1. /\ EncodeTypes' /\ UNCHANGED <<LengthBits, data>>
      /\ Full <=> count = ByteBits
      /\ count' = IF Full THEN 1 ELSE count + 1
  BY EncodeItemTypes
<1>2. Means(x)'
  BY <1>1, MeansSame
<1>3. InputOK
  BY DEF EncodeTypes
<1>4. Len(out) \in Nat /\ Len(group) \in Nat /\ control \in Nat
  BY EncodeNumbers
<1>5. Len(out') \in Nat /\ group' \in Seq(Byte)' /\ Len(group') \in Nat
  BY <1>1 DEF EncodeTypes
<1>6. CASE Full
  <2>1. control \in Byte
    BY <1>6, ControlIsByte
  <2>2. out' = out \o <<control>> \o group
    BY <1>6 DEF EncodeItem, Flushed
  <2>3. /\ Len(out') = Len(out) + 1 + Len(group)
        /\ \A i \in 1 .. Len(out) : out'[i] = out[i]
        /\ out'[Len(out) + 1] = control
        /\ \A i \in 1 .. Len(group) : out'[Len(out) + 1 + i] = group[i]
    BY <2>1, <2>2, OutputGrows
  <2>4. control * Pow2[ByteBits - count] = control
    <3>1. ByteBits - count = 0
      BY <1>1, <1>6, EncodeNumbers
    <3>2. Pow2[ByteBits - count] = 1
      BY <3>1, Pow2Def
    <3> QED
      BY <1>4, <3>2
  <2>5. CASE Written(x)
    BY <1>1, <1>2, <1>4, <1>5, <2>3, <2>5, WrittenStays
  <2>6. CASE Pending(x)
    BY <1>1, <1>2, <1>4, <1>5, <2>3, <2>4, <2>6, FlushWrites
  <2> QED
    BY <1>2, <2>5, <2>6
<1>7. CASE ~Full
  <2>1. out' = out /\ count' = count + 1
    BY <1>1, <1>7 DEF EncodeItem
  <2>2. CASE Written(x)
    BY <1>1, <1>2, <1>4, <1>5, <2>1, <2>2, WrittenStays
  <2>3. CASE Pending(x)
    <3>1. PICK size \in Nat, offset \in Nat :
            /\ Copyable(tail, size, offset)
            /\ control' = 2 * control + (IF offset = 0 THEN 0 ELSE 1)
            /\ group' = group \o (IF offset = 0 THEN <<data[tail]>>
                                                ELSE PatternBytes(offset, size))
      BY <1>7, ItemTaken
    <3> DEFINE b == IF offset = 0 THEN 0 ELSE 1
               w == IF offset = 0 THEN <<data[tail]>> ELSE PatternBytes(offset, size)
    <3>2. w \in Seq(Byte) /\ group \in Seq(Byte)
      BY <1>3, <3>1, ItemBytes, EncodeNumbers DEF EncodeTypes
    <3>3. b \in {0, 1} /\ control' = 2 * control + b /\ group' = group \o w
      BY <3>1
    <3> HIDE DEF b, w
    <3>4. Joined(group', group, w)
      BY <3>2, <3>3, Concatenation, Zenon
    <3>5. Len(group') >= Len(group) /\ \A i \in 1 .. Len(group) : group'[i] = group[i]
      BY <1>4, <3>2, <3>4 DEF Joined
    <3>6. UNCHANGED <<LengthBits, data, out>>
      BY <1>1, <2>1
    <3> QED
      BY <1>2, <1>5, <2>1, <2>3, <3>3, <3>5, <3>6, PendingStays
  <2> QED
    BY <1>2, <2>2, <2>3
<1> QED
  BY <1>6, <1>7

\* A chain is made longer by an item that follows the last one.
LEMMA ChainGrows ==
  ASSUME NEW items \in Seq(Item), Chain(items), NEW y \in Item,
         IF Len(items) = 0 THEN First(y) ELSE Follows(y, items[Len(items)])
  PROVE  Chain(Append(items, y))
<1> DEFINE more == Append(items, y)
           n == Len(items)
<1>1. /\ n \in Nat /\ Len(more) = n + 1 /\ more[n + 1] = y
      /\ \A i \in 1 .. n : more[i] = items[i]
  OBVIOUS
<1> HIDE DEF more, n
<1>2. Len(more) > 0 => First(more[1])
  <2>1. CASE n = 0
    BY <1>1, <2>1 DEF n
  <2>2. CASE n # 0
    <3>1. more[1] = items[1]
      BY <1>1, <2>2
    <3> QED
      BY <1>1, <2>2, <3>1 DEF n, Chain
  <2> QED
    BY <2>1, <2>2
<1>3. ASSUME NEW i \in 1 .. Len(more) - 1 PROVE Follows(more[i + 1], more[i])
  <2>1. i \in 1 .. n /\ more[i] = items[i]
    BY <1>1
  <2>2. CASE i = n
    BY <1>1, <2>1, <2>2 DEF n
  <2>3. CASE i # n
    <3>1. i \in 1 .. n - 1 /\ i + 1 \in 1 .. n
      BY <1>1, <2>1, <2>3
    <3>2. more[i + 1] = items[i + 1]
      BY <1>1, <3>1
    <3> QED
      BY <2>1, <3>1, <3>2 DEF n, Chain
  <2> QED
    BY <2>2, <2>3
<1> QED
  BY <1>2, <1>3 DEF Chain, more

LEMMA ChainSame ==
  ASSUME LengthBits' = LengthBits, NEW items, Chain(items)
  PROVE  Chain(items)'
BY DEF Chain, First, Follows, After, Width, ByteBits

LEMMA EncodeInit == Init => EncodeInv
<1> SUFFICES ASSUME Init PROVE EncodeTypes /\ \E items \in Seq(Item) : Encoding(items)
  BY DEF EncodeInv
<1>1. LengthBits \in Widths /\ Widths \subseteq Nat \ {0} /\ ByteBits = 2 * LengthBits
  BY InputsAssumption DEF Init, ByteBits
<1>2. data \in Seq(Byte) \ {<<>>}
  BY <1>1, InputsAssumption DEF Init, Byte
<1>3. InputOK
  BY <1>1, <1>2 DEF InputOK
<1>4. EncodeTypes
  <2>1. Pow2[0] = 1 /\ ByteBits \in Nat /\ Len(data) \in Nat
    BY <1>1, <1>2, Pow2Def
  <2> QED
    BY <1>3, <2>1 DEF EncodeTypes, Init
<1>5. Encoding(<<>>)
  BY DEF Encoding, Chain, AtEnd, Init
<1>6. <<>> \in Seq(Item)
  OBVIOUS
<1> QED
  BY <1>4, <1>5, <1>6

\* A turn of the encoder puts an item more behind the others.
LEMMA EncodeItemKeeps ==
  ASSUME pc = "encode", EncodeInv, EncodeItem
  PROVE  EncodeInv'
<1>1. EncodeTypes
  BY DEF EncodeInv
<1>2. /\ EncodeTypes' /\ UNCHANGED <<LengthBits, data>>
      /\ Full <=> count = ByteBits
      /\ count' = IF Full THEN 1 ELSE count + 1
  BY <1>1, EncodeItemTypes
<1>3. PICK items \in Seq(Item) : Encoding(items)
  BY DEF EncodeInv
<1>4. PICK size \in Nat, offset \in Nat :
        /\ Copyable(tail, size, offset)
        /\ tail' = tail + size
        /\ control' = 2 * (IF Full THEN 0 ELSE control) + (IF offset = 0 THEN 0 ELSE 1)
        /\ group' = (IF Full THEN <<>> ELSE group)
                      \o (IF offset = 0 THEN <<data[tail]>>
                                        ELSE PatternBytes(offset, size))
  BY <1>1, ItemTaken
<1> DEFINE g == IF Full THEN <<>> ELSE group
           c == IF Full THEN 0 ELSE control
<1>5. /\ Len(out) \in Nat /\ Len(group) \in Nat /\ Len(data) \in Nat
      /\ count \in Nat /\ ByteBits \in Nat /\ count <= ByteBits /\ control \in Nat
      /\ tail \in Nat /\ ByteBits >= 2
  BY <1>1, EncodeNumbers
<1>6. g \in Seq(Byte) /\ Len(g) \in Nat /\ c \in Nat
  BY <1>1, <1>5 DEF EncodeTypes
<1>7. Len(out') \in Nat /\ count' \in Nat /\ 1 <= count' /\ count' <= ByteBits
  BY <1>2, <1>5 DEF EncodeTypes
<1>8. PICK y \in Item :
        /\ y.ctl = Len(out') + 1 /\ y.at = Len(out') + 2 + Len(g) /\ y.pos = count'
        /\ y.from = tail /\ y.size = size /\ y.offset = offset
  <2>1. /\ Len(out') + 1 \in Nat /\ Len(out') + 2 + Len(g) \in Nat
        /\ count' \in Nat /\ tail \in Nat
    <3>1. \A m, n \in Nat : m + 1 \in Nat /\ m + 2 + n \in Nat
      OBVIOUS
    <3> QED
      BY <1>5, <1>6, <1>7, <3>1, Zenon
  <2>2. [ctl |-> Len(out') + 1, at |-> Len(out') + 2 + Len(g), pos |-> count',
         from |-> tail, size |-> size, offset |-> offset] \in Item
    BY <2>1 DEF Item
  <2> QED
    BY <2>2
<1>9. /\ y.ctl = Len(out') + 1 /\ y.at = Len(out') + 2 + Len(g) /\ count' = y.pos
      /\ y.from = tail /\ y.size = size /\ y.offset = offset
  BY <1>8
<1>10. Len(out') = IF Full THEN Len(out) + Len(group) + 1 ELSE Len(out)
  <2>1. CASE Full
    <3>1. control \in Byte
      BY <1>1, <2>1, ControlIsByte
    <3>2. out' = out \o <<control>> \o group
      BY <2>1 DEF EncodeItem, Flushed
    <3>3. Len(out') = Len(out) + 1 + Len(group)
      BY <1>1, <3>1, <3>2, OutputGrows
    <3> QED
      BY <1>5, <2>1, <3>3
  <2>2. CASE ~Full
    BY <2>2 DEF EncodeItem
  <2> QED
    BY <2>1, <2>2
<1>11. Len(g) = IF Full THEN 0 ELSE Len(group)
  OBVIOUS
<1>12. control' = 2 * c + (IF y.offset = 0 THEN 0 ELSE 1)
  BY <1>4, <1>9
<1>13. group' = g \o BytesAt(tail, y)
  BY <1>4, <1>9 DEF BytesAt
<1>14. Copyable(tail, y.size, y.offset) /\ tail' = tail + y.size
  BY <1>4, <1>9
<1> HIDE DEF g, c
<1>15. Means(y)
  BY <1>7, <1>9, <1>14 DEF Means
<1>16. /\ Len(group') = Len(g) + Width(y)
       /\ Stands(y, group'[Len(g) + 1], group'[Len(g) + 2])
  <2>1. InputOK
    BY <1>1 DEF EncodeTypes
  <2>2. tail \in Nat /\ y.from = tail /\ Copyable(tail, y.size, y.offset)
    BY <1>5, <1>9, <1>14
  <2>3. Len(group') = Len(g) + Width(y)
    BY <1>6, <1>13, <2>1, <2>2, GroupGrows
  <2>4. Stands(y, group'[Len(g) + 1], group'[Len(g) + 2])
    BY <1>6, <1>13, <2>1, <2>2, GroupGrows
  <2> QED
    BY <2>3, <2>4
<1>17. Bit(control', 0) <=> y.offset # 0
  <2> DEFINE b == IF y.offset = 0 THEN 0 ELSE 1
  <2>1. b \in {0, 1} /\ (b = 1 <=> y.offset # 0)
    OBVIOUS
  <2> HIDE DEF b
  <2>2. Bit(2 * c + b, 0) <=> b = 1
    BY <1>6, <2>1, BitShiftedIn
  <2> QED
    BY <1>12, <2>1, <2>2 DEF b
<1>18. Pending(y)' /\ After(y) = Len(out') + Len(group') + 2
  BY <1>2, <1>6, <1>7, <1>8, <1>9, <1>16, <1>17, PendingNew
<1>19. IF Len(items) = 0 THEN First(y) ELSE Follows(y, items[Len(items)])
  <2> DEFINE z == items[Len(items)]
  <2>1. AtEnd(items)
    BY <1>3 DEF Encoding
  <2>2. CASE Len(items) = 0
    <3>1. tail = 1 /\ count = 0 /\ Len(out) = 0 /\ Len(group) = 0
      BY <2>1, <2>2 DEF AtEnd
    <3>2. ~Full
      BY <1>2, <1>5, <3>1
    <3> QED
      BY <1>2, <1>9, <1>10, <1>11, <2>2, <3>1, <3>2 DEF First
  <2>3. CASE Len(items) # 0
    <3>1. /\ z.pos = count /\ z.ctl = Len(out) + 1
          /\ After(z) = Len(out) + Len(group) + 2 /\ tail = z.from + z.size
      BY <2>1, <2>3 DEF AtEnd
    <3> HIDE DEF z
    <3>2. CASE Full
      <4>1. y.ctl = After(z) /\ y.at = After(z) + 1 /\ y.pos = 1
        BY <1>2, <1>5, <1>9, <1>10, <1>11, <3>1, <3>2
      <4> QED
        BY <1>2, <1>9, <2>3, <3>1, <3>2, <4>1 DEF Follows, z
    <3>3. CASE ~Full
      <4>1. y.ctl = z.ctl /\ y.at = After(z) /\ y.pos = z.pos + 1
        BY <1>2, <1>5, <1>9, <1>10, <1>11, <3>1, <3>3
      <4> QED
        BY <1>2, <1>9, <2>3, <3>1, <3>3, <4>1 DEF Follows, z
    <3> QED
      BY <3>2, <3>3
  <2> QED
    BY <2>2, <2>3
<1> PICK more \in Seq(Item) : more = Append(items, y)
  <2>1. Append(items, y) \in Seq(Item)
    OBVIOUS
  <2> QED
    BY <2>1
<1>20. /\ more \in Seq(Item) /\ Len(more) = Len(items) + 1 /\ Len(items) \in Nat
       /\ \A i \in 1 .. Len(items) : more[i] = items[i] /\ items[i] \in Item
       /\ more[Len(items) + 1] = y
  BY <1>8
<1>21. Chain(more)'
  <2>1. Chain(more)
    BY <1>3, <1>8, <1>19, ChainGrows DEF Encoding
  <2> QED
    BY <1>2, <2>1, ChainSame
<1>22. ASSUME NEW i \in 1 .. Len(more)
       PROVE  Means(more[i])' /\ (Written(more[i])' \/ Pending(more[i])')
  <2>1. CASE i = Len(items) + 1
    <3>1. Means(y)'
      BY <1>2, <1>15, MeansSame
    <3> QED
      BY <1>18, <1>20, <2>1, <3>1
  <2>2. CASE i # Len(items) + 1
    <3>1. i \in 1 .. Len(items)
      BY <1>20, <2>2
    <3>2. Means(items[i]) /\ (Written(items[i]) \/ Pending(items[i]))
      BY <1>3, <3>1 DEF Encoding
    <3>3. Means(items[i])' /\ (Written(items[i])' \/ Pending(items[i])')
      BY <1>1, <1>20, <3>1, <3>2, OldItems
    <3> QED
      BY <1>20, <3>1, <3>3
  <2> QED
    BY <2>1, <2>2
<1>23. AtEnd(more)'
  <2>1. Len(more) # 0 /\ more[Len(more)] = y
    BY <1>20
  <2> QED
    BY <1>9, <1>14, <1>18, <2>1 DEF AtEnd
<1>24. Encoding(more)'
  BY <1>21, <1>22, <1>23 DEF Encoding
<1> QED
  BY <1>2, <1>20, <1>24 DEF EncodeInv

-----------------------------------------------------------------------------
(* The decoder *)

\* Behind the last item the output ends; only when its group is full there is
\* a control byte more, of which no bit is set.
Ended(items) ==
  LET z == items[Len(items)]
  IN  /\ z.from + z.size = Len(data) + 1
      /\ IF z.pos = ByteBits
           THEN Len(out) = After(z) /\ out[Len(out)] = 0
           ELSE Len(out) = After(z) - 1

Encoded(items) ==
  /\ Chain(items) /\ Len(items) > 0
  /\ \A i \in 1 .. Len(items) : Means(items[i]) /\ Written(items[i])
  /\ Ended(items)

\* n bytes are decoded, and those of the input are right.
Right(n) ==
  /\ Len(dst) = n
  /\ \A i \in 1 .. n : i <= Len(data) => dst[i] = data[i]

\* j bits of the control byte b are used up, the others are left.
Left(b, j) ==
  /\ control \in Nat /\ control < Pow2[ByteBits]
  /\ \A e \in 0 .. ByteBits - 1 - j : Bit(control, e + j) <=> Bit(b, e)

\* The decoder is in front of the item x: of its control byte, if it has not
\* been read.
Before(x, read) ==
  /\ Right(x.from - 1)
  /\ IF x.pos = 1 /\ ~read
       THEN count = ByteBits /\ src = x.ctl
       ELSE count = x.pos - 1 /\ src = x.at /\ Left(out[x.ctl], count)

\* It is behind the last one, or behind the byte that is none.
Behind(items) ==
  /\ Right(Len(data))
  /\ IF items[Len(items)].pos = ByteBits
       THEN count = ByteBits /\ src = Len(out)
       ELSE src = Len(out) + 1

Overrun == Right(Len(data) + 1) /\ src > Len(out)

DecodeTypes ==
  /\ InputOK
  /\ out \in Seq(Byte) /\ dst \in Seq(0 .. Garbage)
  /\ count \in 0 .. ByteBits /\ src \in Nat

DecodeInv ==
  pc = "decode" =>
    /\ DecodeTypes
    /\ \E items \in Seq(Item) :
         /\ Encoded(items)
         /\ \/ \E k \in 1 .. Len(items) : Before(items[k], k = 1)
            \/ Behind(items)
            \/ Overrun

LEMMA IsASequence ==
  ASSUME NEW S, NEW n \in Nat, NEW w \in [1 .. n -> S]
  PROVE  w \in Seq(S) /\ Len(w) = n
OBVIOUS

LEMMA InSequence ==
  ASSUME NEW S, NEW w \in Seq(S), NEW n \in 1 .. Len(w)
  PROVE  w[n] \in S
OBVIOUS

\* What copying makes of a pattern.
LEMMA PatternCopied ==
  ASSUME DecodeTypes, NEW t \in Nat, NEW size \in Nat, NEW offset \in Nat,
         Copyable(t, size, offset), offset # 0, Right(t - 1)
  PROVE  /\ Copied(offset, size) \in Seq(0 .. Garbage) /\ Len(Copied(offset, size)) = size
         /\ \A i \in 1 .. size : Copied(offset, size)[i] = data[t - 1 + i]
<1>1. /\ size >= 2 /\ t >= 1 /\ size <= offset /\ offset < t
      /\ t + size - 1 <= Len(data) /\ Len(data) \in Nat
      /\ \A j \in 0 .. size - 1 : data[t - offset + j] = data[t + j]
  BY DEF Copyable, DecodeTypes, InputOK
<1>2. Len(dst) = t - 1 /\ \A i \in 1 .. t - 1 : i <= Len(data) => dst[i] = data[i]
  BY DEF Right
<1>3. ASSUME NEW i \in 1 .. size
      PROVE  LET b == IF offset \in 1 .. Len(dst)
                        THEN dst[Len(dst) - offset + ((i - 1) % offset) + 1]
                        ELSE Garbage
             IN  b \in 0 .. Garbage /\ b = data[t - 1 + i]
  <2>1. offset \in 1 .. Len(dst)
    BY <1>1, <1>2
  <2>2. (i - 1) % offset = i - 1
    <3>1. i - 1 \in Nat /\ i - 1 < offset /\ offset \in Nat \ {0} /\ i - 1 = 0 * offset + (i - 1)
      BY <1>1
    <3> QED
      BY <3>1, DividedIs
  <2> DEFINE n == t - offset + (i - 1)
  <2>3. n \in 1 .. t - 1 /\ n <= Len(data)
    BY <1>1
  <2>4. Len(dst) - offset + (i - 1) + 1 = n
    BY <1>1, <1>2
  <2> HIDE DEF n
  <2>5. dst[n] = data[n] /\ dst[n] \in 0 .. Garbage
    <3>1. dst[n] = data[n]
      BY <1>2, <2>3
    <3>2. dst \in Seq(0 .. Garbage) /\ n \in 1 .. Len(dst)
      BY <1>2, <2>3 DEF DecodeTypes
    <3>3. dst[n] \in 0 .. Garbage
      BY <3>2, InSequence, Zenon
    <3> QED
      BY <3>1, <3>3
  <2>6. i - 1 \in 0 .. size - 1 /\ t + (i - 1) = t - 1 + i
    BY <1>1
  <2>7. data[n] = data[t + (i - 1)]
    BY <1>1, <2>6 DEF n
  <2> QED
    BY <2>1, <2>2, <2>4, <2>5, <2>6, <2>7
<1> DEFINE w == [i \in 1 .. size |->
                   IF offset \in 1 .. Len(dst)
                     THEN dst[Len(dst) - offset + ((i - 1) % offset) + 1]
                     ELSE Garbage]
<1>4. w \in [1 .. size -> 0 .. Garbage] /\ \A i \in 1 .. size : w[i] = data[t - 1 + i]
  BY <1>3
<1>5. w = Copied(offset, size)
  BY DEF Copied
<1> HIDE DEF w
<1>6. w \in Seq(0 .. Garbage) /\ Len(w) = size
  BY <1>4, IsASequence
<1> QED
  BY <1>4, <1>5, <1>6

\* What is put behind the decoded bytes is right if it is what comes next.
LEMMA RightGrows ==
  ASSUME dst \in Seq(0 .. Garbage), NEW n \in Nat, Right(n), NEW m \in Nat,
         NEW w \in Seq(0 .. Garbage), Len(w) = m,
         \A i \in 1 .. m : n + i <= Len(data) => w[i] = data[n + i],
         dst' = dst \o w, data' = data
  PROVE  Right(n + m)' /\ dst' \in Seq(0 .. Garbage)
<1>1. dst' \in Seq(0 .. Garbage) /\ Joined(dst', dst, w)
  BY Concatenation, Zenon
<1>2. Len(dst) = n /\ \A i \in 1 .. n : i <= Len(data) => dst[i] = data[i]
  BY DEF Right
<1>3. /\ Len(dst') = n + m
      /\ \A i \in 1 .. n : dst'[i] = dst[i]
      /\ \A i \in 1 .. m : dst'[n + i] = w[i]
  BY <1>1, <1>2 DEF Joined
<1>4. ASSUME NEW i \in 1 .. n + m, i <= Len(data) PROVE dst'[i] = data[i]
  <2>1. CASE i <= n
    <3>1. i \in 1 .. n
      BY <2>1
    <3> QED
      BY <1>2, <1>3, <1>4, <3>1
  <2>2. CASE i > n
    <3>1. i - n \in 1 .. m /\ n + (i - n) = i
      BY <2>2
    <3>2. dst'[n + (i - n)] = w[i - n] /\ w[i - n] = data[n + (i - n)]
      BY <1>3, <1>4, <3>1
    <3> QED
      BY <3>1, <3>2
  <2>3. i <= n \/ i > n
    OBVIOUS
  <2> QED
    BY <2>1, <2>2, <2>3, Zenon
<1> QED
  BY <1>1, <1>3, <1>4 DEF Right

\* The first item of a group is right behind its control byte.
LEMMA BehindControl ==
  ASSUME NEW items \in Seq(Item), Encoded(items), NEW i \in 1 .. Len(items),
         items[i].pos = 1
  PROVE  items[i].at = items[i].ctl + 1
<1>1. Len(items) \in Nat
  OBVIOUS
<1>2. CASE i = 1
  BY <1>2 DEF Encoded, Chain, First
<1>3. CASE i # 1
  <2> DEFINE h == i - 1
  <2>1. h \in 1 .. Len(items) - 1 /\ h \in 1 .. Len(items) /\ h + 1 = i
    BY <1>1, <1>3
  <2> HIDE DEF h
  <2>2. Follows(items[h + 1], items[h])
    BY <2>1 DEF Encoded, Chain
  <2>3. Means(items[h]) /\ items[h] \in Item
    BY <2>1 DEF Encoded
  <2>4. items[h].pos \in Nat /\ items[h].pos >= 1
    BY <2>3, ItemTypes DEF Means
  <2>5. items[h].pos + 1 # 1
    BY <2>4
  <2> QED
    BY <2>1, <2>2, <2>5 DEF Follows
<1> QED
  BY <1>2, <1>3

LEMMA Appended ==
  ASSUME NEW S, NEW g \in Seq(S), NEW e \in S, NEW h, h = Append(g, e)
  PROVE  /\ h \in Seq(S) /\ Len(h) = Len(g) + 1 /\ h[Len(g) + 1] = e
         /\ \A i \in 1 .. Len(g) : h[i] = g[i]
OBVIOUS

LEMMA AppendIsJoin ==
  ASSUME NEW S, NEW g \in Seq(S), NEW e \in S
  PROVE  Append(g, e) = g \o <<e>>
OBVIOUS

\* The output of the last turn: the last group, and a byte more if it is full.
LEMMA LastGroup ==
  ASSUME EncodeTypes, EncodeEnd
  PROVE  /\ out' \in Seq(Byte)
         /\ Len(out') = Len(out) + 1 + Len(group) + (IF Full THEN 1 ELSE 0)
         /\ \A i \in 1 .. Len(out) : out'[i] = out[i]
         /\ out'[Len(out) + 1] = control * Pow2[ByteBits - count]
         /\ \A i \in 1 .. Len(group) : out'[Len(out) + 1 + i] = group[i]
         /\ Full => out'[Len(out')] = 0
<1>1. /\ count \in Nat /\ ByteBits \in Nat /\ ByteBits - count \in Nat /\ control \in Nat
      /\ Len(out) \in Nat /\ Len(group) \in Nat
  BY EncodeNumbers
<1>2. control * Pow2[ByteBits - count] \in Byte
  <2> DEFINE m == Pow2[count]
             p == Pow2[ByteBits - count]
  <2>1. m \in Nat /\ p \in Nat \ {0}
    BY <1>1, Pow2Def
  <2>2. count + (ByteBits - count) = ByteBits
    BY <1>1
  <2>3. Pow2[ByteBits] = m * p
    <3>1. Pow2[count + (ByteBits - count)] = m * p
      BY <1>1, Pow2Sum
    <3> QED
      BY <2>2, <3>1
  <2>4. control < m
    BY DEF EncodeTypes
  <2> HIDE DEF m, p
  <2>5. control * p \in Nat /\ control * p < m * p
    BY <1>1, <2>1, <2>4
  <2>6. m * p \in Nat
    BY <2>1
  <2> QED
    BY <2>3, <2>5, <2>6 DEF p, Byte
<1> PICK b \in Byte : b = control * Pow2[ByteBits - count]
  BY <1>2
<1> PICK o : o = out \o <<b>> \o group
  OBVIOUS
<1>3. o \in Seq(Byte)
  BY OutputGrows
<1>4. /\ Len(o) = Len(out) + 1 + Len(group)
      /\ \A i \in 1 .. Len(out) : o[i] = out[i]
      /\ o[Len(out) + 1] = b
      /\ \A i \in 1 .. Len(group) : o[Len(out) + 1 + i] = group[i]
  BY OutputGrows
<1>5. CASE Full
  <2>1. ByteBits - count = 0
    BY <1>1, <1>5, EncodeNumbers DEF Full
  <2>2. b = control
    <3>1. Pow2[ByteBits - count] = 1
      BY <2>1, Pow2Def
    <3> QED
      BY <1>1, <3>1
  <2>3. o = Flushed
    BY <2>2 DEF Flushed
  <2>4. out' = Append(o, 0)
    BY <1>5, <2>3 DEF EncodeEnd
  <2>6. 0 \in Byte
    BY ByteSizes DEF EncodeTypes
  <2>7. /\ out' \in Seq(Byte) /\ Len(out') = Len(o) + 1
        /\ \A i \in 1 .. Len(o) : out'[i] = o[i]
        /\ out'[Len(o) + 1] = 0
    BY <2>4, <1>3, <2>6, Appended
  <2>8. \A i \in 1 .. Len(out) : out'[i] = out[i]
    BY <1>1, <1>4, <2>7
  <2>9. out'[Len(out) + 1] = b
    BY <1>1, <1>4, <2>7
  <2>10. ASSUME NEW i \in 1 .. Len(group) PROVE out'[Len(out) + 1 + i] = group[i]
    <3>1. Len(out) + 1 + i \in 1 .. Len(o)
      BY <1>1, <1>4
    <3> QED
      BY <1>4, <2>7, <3>1
  <2>11. Len(out') = Len(out) + 1 + Len(group) + 1
    BY <1>1, <1>4, <2>7
  <2>12. out'[Len(out')] = 0
    BY <1>4, <2>7
  <2> QED
    BY <1>5, <2>7, <2>8, <2>9, <2>10, <2>11, <2>12
<1>6. CASE ~Full
  <2>1. out' = o
    BY <1>6 DEF EncodeEnd
  <2>3. Len(out') = Len(out) + 1 + Len(group) + 0
    BY <1>1, <2>1, <1>4
  <2> QED
    BY <1>6, <1>3, <2>1, <1>4, <2>3
<1> QED
  BY <1>5, <1>6

\* The last turn of the encoder leaves an output of items and the decoder
\* behind the first control byte.
LEMMA EncodeEndKeeps ==
  ASSUME pc = "encode", EncodeInv, EncodeEnd
  PROVE  DecodeInv'
<1>1. EncodeTypes
  BY DEF EncodeInv
<1>2. PICK items \in Seq(Item) : Encoding(items)
  BY DEF EncodeInv
<1>3. /\ Len(out) \in Nat /\ Len(group) \in Nat /\ Len(data) \in Nat
      /\ count \in Nat /\ ByteBits \in Nat /\ count <= ByteBits /\ control \in Nat
      /\ tail \in Nat /\ ByteBits >= 2
  BY <1>1, EncodeNumbers
<1>4. /\ out' \in Seq(Byte)
      /\ Len(out') = Len(out) + 1 + Len(group) + (IF Full THEN 1 ELSE 0)
      /\ \A i \in 1 .. Len(out) : out'[i] = out[i]
      /\ out'[Len(out) + 1] = control * Pow2[ByteBits - count]
      /\ \A i \in 1 .. Len(group) : out'[Len(out) + 1 + i] = group[i]
      /\ Full => out'[Len(out')] = 0
  BY <1>1, LastGroup
<1>5. /\ LengthBits' = LengthBits /\ data' = data /\ dst' = <<>>
      /\ tail > Len(data) /\ control' = out'[1] /\ src' = 2 /\ count' = 0
  BY <1>1 DEF EncodeEnd, EncodeTypes
<1>6. InputOK /\ tail = Len(data) + 1
  BY <1>1, <1>3, <1>5 DEF EncodeTypes
<1>7. Byte' = Byte /\ ByteBits' = ByteBits /\ Garbage' = Garbage /\ InputOK'
  BY <1>5, <1>6 DEF Byte, ByteBits, Garbage, InputOK
<1>8. Len(out') \in Nat /\ Len(out') >= Len(out) + 1 + Len(group)
  BY <1>3, <1>4
<1>9. Len(items) \in Nat /\ Len(items) > 0
  <2>1. Len(items) # 0
    BY <1>2, <1>6 DEF Encoding, AtEnd, InputOK
  <2> QED
    BY <2>1
<1>10. ASSUME NEW i \in 1 .. Len(items) PROVE Means(items[i])' /\ Written(items[i])'
  <2>1. items[i] \in Item /\ Means(items[i]) /\ (Written(items[i]) \/ Pending(items[i]))
    BY <1>2 DEF Encoding
  <2>2. Means(items[i])'
    BY <1>5, <2>1, MeansSame
  <2>3. CASE Written(items[i])
    <3>1. Len(out) <= Len(out')
      BY <1>3, <1>8
    <3>2. Written(items[i])'
      BY <1>3, <1>4, <1>5, <1>8, <2>1, <2>3, <3>1, WrittenStays
    <3> QED
      BY <2>2, <3>2
  <2>4. CASE Pending(items[i])
    <3>1. Written(items[i])'
      BY <1>1, <1>4, <1>5, <1>8, <2>1, <2>4, FlushWrites
    <3> QED
      BY <2>2, <3>1
  <2> QED
    BY <2>1, <2>3, <2>4
<1>11. Ended(items)'
  <2> DEFINE z == items[Len(items)]
  <2>1. /\ z.pos = count /\ z.ctl = Len(out) + 1
        /\ After(z) = Len(out) + Len(group) + 2
        /\ tail = z.from + z.size
    BY <1>2, <1>9 DEF Encoding, AtEnd
  <2>2. Full <=> count = ByteBits
    BY <1>3 DEF Full
  <2>3. IF z.pos = ByteBits' THEN Len(out') = After(z) /\ out'[Len(out')] = 0
                             ELSE Len(out') = After(z) - 1
    <3> HIDE DEF z
    <3>1. CASE Full
      BY <1>3, <1>4, <1>7, <2>1, <2>2, <3>1
    <3>2. CASE ~Full
      BY <1>3, <1>4, <1>7, <2>1, <2>2, <3>2
    <3> QED
      BY <3>1, <3>2
  <2>4. z.from + z.size = Len(data') + 1
    BY <1>5, <1>6, <2>1
  <2> QED
    BY <2>3, <2>4 DEF Ended, After, Width
<1>12. Encoded(items)'
  <2>1. Chain(items)'
    BY <1>2, <1>5, ChainSame DEF Encoding
  <2> QED
    BY <1>9, <1>10, <1>11, <2>1 DEF Encoded
<1>13. Before(items[1], TRUE)'
  <2>1. items[1].ctl = 1 /\ items[1].at = 2 /\ items[1].pos = 1 /\ items[1].from = 1
    BY <1>2, <1>9 DEF Encoding, Chain, First
  <2>2. Right(0)'
    BY <1>5 DEF Right
  <2>3. control' \in Nat /\ control' < Pow2[ByteBits']
    <3>1. out'[1] \in Byte
      BY <1>4, <1>3
    <3> QED
      BY <1>5, <1>6, <1>7, <3>1, ByteSizes
  <2>4. Left(out[1], count)'
    <3>1. \A e \in 0 .. ByteBits' - 1 - count' : e + count' = e
      BY <1>3, <1>5, <1>7
    <3> QED
      BY <1>5, <2>3, <3>1 DEF Left
  <2> QED
    BY <1>5, <2>1, <2>2, <2>4 DEF Before
<1>14. DecodeTypes'
  <2>1. dst' \in Seq(0 .. Garbage)'
    BY <1>5
  <2> QED
    BY <1>3, <1>4, <1>5, <1>7, <2>1 DEF DecodeTypes
<1>15. \E k \in 1 .. Len(items) : Before(items[k], k = 1)'
  <2>1. Before(items[1], 1 = 1)'
    BY <1>13 DEF Before
  <2> QED
    BY <1>9, <2>1
<1> QED
  BY <1>12, <1>14, <1>15 DEF DecodeInv

\* Where a turn finds the item, and that its bit is on top.
LEMMA BitsRead ==
  ASSUME DecodeTypes, NEW x \in Item, Means(x), Written(x),
         x.pos = 1 => x.at = x.ctl + 1,
         NEW read \in BOOLEAN, Before(x, read), DecodeItem
  PROVE  /\ count' = x.pos
         /\ \E bits \in Nat :
              /\ bits < Pow2[ByteBits] /\ control' = (2 * bits) % Pow2[ByteBits]
              /\ \A e \in 0 .. ByteBits - x.pos :
                   Bit(bits, e + (x.pos - 1)) <=> Bit(out[x.ctl], e)
              /\ IF bits >= Pow2[ByteBits - 1]
                   THEN LET low == ByteAt(x.at + 1)
                            offset == ByteAt(x.at) * Pow2[LengthBits]
                                        + low \div Pow2[LengthBits]
                        IN  /\ dst' = dst \o Copied(offset, (low % Pow2[LengthBits]) + 2)
                            /\ src' = x.at + 2
                   ELSE dst' = Append(dst, ByteAt(x.at)) /\ src' = x.at + 1
<1>1. /\ x.at \in Nat /\ x.ctl \in Nat /\ x.offset \in Nat /\ x.pos \in Nat
      /\ 1 <= x.pos /\ x.pos <= ByteBits /\ ByteBits \in Nat /\ ByteBits >= 2
      /\ count \in Nat /\ Len(out) \in Nat
  <2>1. InputOK /\ Len(out) \in Nat /\ count \in 0 .. ByteBits
    BY DEF DecodeTypes
  <2>2. ByteBits \in Nat /\ ByteBits >= 2
    BY <2>1, ByteSizes
  <2>3. 1 <= x.pos /\ x.pos <= ByteBits
    BY DEF Means
  <2> QED
    BY <2>1, <2>2, <2>3, ItemTypes
<1>2. 1 <= x.ctl /\ x.ctl < x.at /\ x.at <= Len(out)
  <2>1. Width(x) \in {1, 2}
    BY DEF Width
  <2> QED
    BY <1>1, <2>1 DEF Written, After
<1> DEFINE bits == IF Full THEN ByteAt(src) ELSE control
           s == IF Full THEN src + 1 ELSE src
<1>3. /\ control' = (2 * bits) % Pow2[ByteBits]
      /\ IF bits >= Pow2[ByteBits - 1]
           THEN LET low == ByteAt(s + 1)
                    offset == ByteAt(s) * Pow2[LengthBits] + low \div Pow2[LengthBits]
                IN  /\ dst' = dst \o Copied(offset, (low % Pow2[LengthBits]) + 2)
                    /\ src' = s + 2
           ELSE dst' = Append(dst, ByteAt(s)) /\ src' = s + 1
      /\ count' = IF Full THEN 1 ELSE count + 1
  BY DEF DecodeItem
<1>4. CASE x.pos = 1 /\ ~read
  <2>1. count = ByteBits /\ src = x.ctl
    BY <1>4 DEF Before
  <2>2. Full
    BY <1>1, <2>1 DEF Full
  <2>3. bits = out[x.ctl] /\ s = x.at
    BY <1>1, <1>2, <1>4, <2>1, <2>2 DEF ByteAt
  <2>4. out[x.ctl] \in Byte
    <3>1. out \in Seq(Byte) /\ x.ctl \in 1 .. Len(out)
      BY <1>1, <1>2 DEF DecodeTypes
    <3> QED
      BY <3>1, InSequence, Zenon
  <2> HIDE DEF bits, s
  <2>5. bits \in Nat /\ bits < Pow2[ByteBits]
    <3>1. InputOK
      BY DEF DecodeTypes
    <3>2. Pow2[ByteBits] \in Nat
      BY <3>1, ByteSizes
    <3> QED
      BY <2>3, <2>4, <3>2 DEF Byte
  <2>6. ASSUME NEW e \in 0 .. ByteBits - x.pos
        PROVE  Bit(bits, e + (x.pos - 1)) <=> Bit(out[x.ctl], e)
    <3>1. e + (x.pos - 1) = e
      BY <1>1, <1>4
    <3> QED
      BY <2>3, <3>1
  <2>7. count' = x.pos
    BY <1>3, <1>4, <2>2
  <2> QED
    BY <1>3, <2>3, <2>5, <2>6, <2>7
<1>5. CASE ~(x.pos = 1 /\ ~read)
  <2>1. count = x.pos - 1 /\ src = x.at /\ Left(out[x.ctl], count)
    BY <1>5 DEF Before
  <2>2. ~Full
    BY <1>1, <2>1 DEF Full
  <2>3. bits = control /\ s = x.at
    BY <2>1, <2>2
  <2>4. bits \in Nat /\ bits < Pow2[ByteBits]
    BY <2>1, <2>3 DEF Left
  <2> HIDE DEF bits, s
  <2>5. ASSUME NEW e \in 0 .. ByteBits - x.pos
        PROVE  Bit(bits, e + (x.pos - 1)) <=> Bit(out[x.ctl], e)
    <3>1. e \in 0 .. ByteBits - 1 - (x.pos - 1)
      BY <1>1
    <3> QED
      BY <2>1, <2>3, <3>1 DEF Left
  <2>6. count' = x.pos
    BY <1>1, <1>3, <2>1, <2>2
  <2> QED
    BY <1>3, <2>3, <2>4, <2>5, <2>6
<1> QED
  BY <1>4, <1>5

\* A turn of the decoder gives the bytes of the input that its item stands for.
LEMMA ItemRead ==
  ASSUME DecodeTypes, NEW x \in Item, Means(x), Written(x),
         x.pos = 1 => x.at = x.ctl + 1,
         NEW read \in BOOLEAN, Before(x, read), DecodeItem
  PROVE  /\ Right(x.from + x.size - 1)' /\ dst' \in Seq(0 .. Garbage)
         /\ count' = x.pos /\ src' = After(x)
         /\ Left(out[x.ctl], x.pos)'
<1>1. /\ x.at \in Nat /\ x.ctl \in Nat /\ x.offset \in Nat /\ x.pos \in Nat
      /\ x.from \in Nat /\ x.size \in Nat
      /\ 1 <= x.pos /\ x.pos <= ByteBits /\ ByteBits \in Nat /\ ByteBits >= 2
      /\ Len(out) \in Nat /\ Len(data) \in Nat
  <2>1. InputOK /\ Len(out) \in Nat
    BY DEF DecodeTypes
  <2>2. Len(data) \in Nat
    BY <2>1 DEF InputOK
  <2>3. 1 <= x.pos /\ x.pos <= ByteBits
    BY DEF Means
  <2>4. ByteBits \in Nat /\ ByteBits >= 2
    BY <2>1, ByteSizes
  <2> QED
    BY <2>1, <2>2, <2>3, <2>4, ItemTypes
<1>2. /\ Copyable(x.from, x.size, x.offset) /\ x.from - 1 \in Nat /\ x.size >= 1
      /\ Right(x.from - 1) /\ InputOK
  <2>1. Copyable(x.from, x.size, x.offset) /\ Right(x.from - 1)
    BY DEF Means, Before
  <2>2. x.from >= 1 /\ x.size >= 1
    BY <2>1 DEF Copyable
  <2>3. x.from - 1 \in Nat
    BY <1>1, <2>2
  <2> QED
    BY <2>1, <2>2, <2>3 DEF DecodeTypes
<1>3. LengthBits' = LengthBits /\ data' = data /\ out' = out
  BY DEF DecodeItem
<1>4. PICK bits \in Nat :
        /\ bits < Pow2[ByteBits] /\ control' = (2 * bits) % Pow2[ByteBits]
        /\ \A e \in 0 .. ByteBits - x.pos :
             Bit(bits, e + (x.pos - 1)) <=> Bit(out[x.ctl], e)
        /\ IF bits >= Pow2[ByteBits - 1]
             THEN LET low == ByteAt(x.at + 1)
                      offset == ByteAt(x.at) * Pow2[LengthBits] + low \div Pow2[LengthBits]
                  IN  /\ dst' = dst \o Copied(offset, (low % Pow2[LengthBits]) + 2)
                      /\ src' = x.at + 2
             ELSE dst' = Append(dst, ByteAt(x.at)) /\ src' = x.at + 1
  BY BitsRead
<1>5. count' = x.pos
  BY BitsRead
<1>6. bits >= Pow2[ByteBits - 1] <=> x.offset # 0
  <2>1. ByteBits - 1 \in Nat /\ (ByteBits - 1) + 1 = ByteBits
    BY <1>1
  <2>2. Bit(bits, ByteBits - 1) <=> bits >= Pow2[ByteBits - 1]
    BY <1>4, <2>1, BitHighest
  <2>3. ByteBits - x.pos \in 0 .. ByteBits - x.pos
    BY <1>1
  <2>4. ByteBits - x.pos + (x.pos - 1) = ByteBits - 1
    BY <1>1
  <2>5. Bit(bits, ByteBits - 1) <=> Bit(out[x.ctl], ByteBits - x.pos)
    BY <1>4, <2>3, <2>4
  <2> QED
    BY <2>2, <2>5 DEF Written
<1>7. Left(out[x.ctl], x.pos)'
  <2> DEFINE h == ByteBits - 1
  <2>1. h \in Nat /\ h + 1 = ByteBits
    BY <1>1
  <2>2. bits < Pow2[h + 1]
    BY <1>4, <2>1
  <2>3. /\ (2 * bits) % Pow2[h + 1] \in Nat /\ (2 * bits) % Pow2[h + 1] < Pow2[h + 1]
        /\ \A n \in 0 .. h - 1 : Bit((2 * bits) % Pow2[h + 1], n + 1) <=> Bit(bits, n)
    <3> HIDE DEF h
    <3> QED
      BY <2>1, <2>2, BitUsed
  <2>4. /\ control' \in Nat /\ control' < Pow2[ByteBits]
        /\ \A n \in 0 .. h - 1 : Bit(control', n + 1) <=> Bit(bits, n)
    <3> HIDE DEF h
    <3> QED
      BY <1>4, <2>1, <2>3
  <2>5. ASSUME NEW e \in 0 .. ByteBits - 1 - x.pos
        PROVE  Bit(control', e + x.pos) <=> Bit(out[x.ctl], e)
    <3> DEFINE n == e + (x.pos - 1)
    <3>1. n \in 0 .. h - 1 /\ n + 1 = e + x.pos /\ e \in 0 .. ByteBits - x.pos
      <4>1. \A b, p \in Nat : 1 <= p /\ p <= b =>
              \A i \in 0 .. b - 1 - p :
                i + (p - 1) \in 0 .. b - 1 - 1 /\ i + (p - 1) + 1 = i + p /\ i \in 0 .. b - p
        OBVIOUS
      <4> QED
        BY <1>1, <4>1, Zenon
    <3>2. Bit(bits, n) <=> Bit(out[x.ctl], e)
      BY <1>4, <3>1
    <3> HIDE DEF n, h
    <3> QED
      BY <2>4, <3>1, <3>2
  <2>6. ByteBits' = ByteBits
    BY <1>3 DEF ByteBits
  <2> QED
    BY <1>3, <2>4, <2>5, <2>6 DEF Left
<1>8. /\ 1 <= x.ctl /\ x.ctl < x.at /\ After(x) <= Len(out) + 1
      /\ After(x) = x.at + Width(x) /\ Width(x) = IF x.offset = 0 THEN 1 ELSE 2
      /\ Stands(x, out[x.at], out[x.at + 1])
  BY DEF Written, After, Width
<1>9. out \in Seq(Byte) /\ dst \in Seq(0 .. Garbage)
  BY DEF DecodeTypes
<1>10. \E w \in Seq(0 .. Garbage) :
         /\ Len(w) = x.size /\ dst' = dst \o w /\ src' = After(x)
         /\ \A i \in 1 .. x.size : w[i] = data[x.from - 1 + i]
  <2>1. CASE x.offset = 0
    <3>1. x.at \in 1 .. Len(out) /\ After(x) = x.at + 1
      BY <1>1, <1>8, <2>1
    <3>2. ByteAt(x.at) = out[x.at] /\ out[x.at] = data[x.from] /\ x.size = 1
      BY <1>2, <1>8, <2>1, <3>1 DEF ByteAt, Stands, Copyable
    <3>3. out[x.at] \in Byte
      BY <1>9, <3>1, InSequence, Zenon
    <3>4. out[x.at] \in 0 .. Garbage
      BY <1>2, <3>3, ByteSizes
    <3>5. dst' = Append(dst, out[x.at]) /\ src' = x.at + 1
      BY <1>4, <1>6, <2>1, <3>2
    <3>6. dst' = dst \o <<out[x.at]>>
      BY <1>9, <3>4, <3>5, AppendIsJoin
    <3>7. \A i \in 1 .. x.size : <<out[x.at]>>[i] = data[x.from - 1 + i]
      <4> SUFFICES ASSUME NEW i \in 1 .. x.size
                   PROVE  <<out[x.at]>>[i] = data[x.from - 1 + i]
        OBVIOUS
      <4>1. i = 1 /\ x.from - 1 + i = x.from
        BY <1>1, <3>2
      <4> QED
        BY <3>2, <4>1
    <3>8. <<out[x.at]>> \in Seq(0 .. Garbage) /\ Len(<<out[x.at]>>) = x.size
      BY <3>2, <3>4
    <3> QED
      BY <3>1, <3>5, <3>6, <3>7, <3>8
  <2>2. CASE x.offset # 0
    <3>1. /\ x.at \in 1 .. Len(out) /\ x.at + 1 \in 1 .. Len(out)
          /\ After(x) = x.at + 2
      <4>1. \A a, l \in Nat : a >= 1 /\ a + 2 <= l + 1 => a \in 1 .. l /\ a + 1 \in 1 .. l
        OBVIOUS
      <4>2. After(x) = x.at + 2
        BY <1>8, <2>2
      <4>3. x.at >= 1
        BY <1>1, <1>8
      <4> QED
        BY <1>1, <1>8, <4>1, <4>2, <4>3, Zenon
    <3>2. ByteAt(x.at) = out[x.at] /\ ByteAt(x.at + 1) = out[x.at + 1]
      BY <3>1 DEF ByteAt
    <3> DEFINE b == PatternBytes(x.offset, x.size)
    <3>3. out[x.at] = b[1] /\ out[x.at + 1] = b[2]
      BY <1>8, <2>2 DEF Stands
    <3>4. 2 <= x.size /\ x.size <= MaxPattern /\ x.offset < WindowSize
      BY <1>2, <2>2 DEF Copyable
    <3>5. /\ b[1] * Pow2[LengthBits] + b[2] \div Pow2[LengthBits] = x.offset
          /\ (b[2] % Pow2[LengthBits]) + 2 = x.size
      BY <1>1, <1>2, <3>4, PatternRead
    <3> HIDE DEF b
    <3>6. dst' = dst \o Copied(x.offset, x.size) /\ src' = x.at + 2
      BY <1>4, <1>6, <2>2, <3>2, <3>3, <3>5
    <3>7. /\ Copied(x.offset, x.size) \in Seq(0 .. Garbage)
          /\ Len(Copied(x.offset, x.size)) = x.size
      BY <1>1, <1>2, <2>2, PatternCopied
    <3>8. \A i \in 1 .. x.size : Copied(x.offset, x.size)[i] = data[x.from - 1 + i]
      <4>1. ASSUME NEW t \in Nat, NEW size \in Nat, NEW offset \in Nat,
                   Copyable(t, size, offset), offset # 0, Right(t - 1)
            PROVE  \A i \in 1 .. size : Copied(offset, size)[i] = data[t - 1 + i]
        BY <4>1, PatternCopied
      <4>2. PICK t \in Nat : t = x.from
        BY <1>1
      <4>3. PICK size \in Nat : size = x.size
        BY <1>1
      <4>4. PICK offset \in Nat : offset = x.offset
        BY <1>1
      <4>5. Copyable(t, size, offset) /\ offset # 0 /\ Right(t - 1)
        BY <1>2, <2>2, <4>2, <4>3, <4>4
      <4>6. \A i \in 1 .. size : Copied(offset, size)[i] = data[t - 1 + i]
        BY <4>1, <4>5
      <4> QED
        BY <4>2, <4>3, <4>4, <4>6
    <3> QED
      BY <3>1, <3>6, <3>7, <3>8
  <2> QED
    BY <2>1, <2>2
<1>11. Right((x.from - 1) + x.size)' /\ dst' \in Seq(0 .. Garbage)
  <2> PICK n \in Nat : n = x.from - 1
    BY <1>2
  <2> PICK m \in Nat : m = x.size
    BY <1>1
  <2>1. PICK w \in Seq(0 .. Garbage) :
          /\ Len(w) = m /\ dst' = dst \o w
          /\ \A i \in 1 .. m : w[i] = data[n + i]
    BY <1>10
  <2>2. Right(n)
    BY <1>2
  <2>3. Right(n + m)' /\ dst' \in Seq(0 .. Garbage)
    <3>1. \A i \in 1 .. m : n + i <= Len(data) => w[i] = data[n + i]
      BY <2>1
    <3> QED
      BY <1>3, <1>9, <2>1, <2>2, <3>1, RightGrows, Zenon
  <2> QED
    BY <2>3
<1>12. (x.from - 1) + x.size = x.from + x.size - 1
  <2>1. \A f, n \in Nat : (f - 1) + n = f + n - 1
    OBVIOUS
  <2> QED
    BY <1>1, <2>1, Zenon
<1> QED
  BY <1>5, <1>7, <1>10, <1>11, <1>12

LEMMA EncodedSame ==
  ASSUME UNCHANGED <<LengthBits, data, out>>, NEW items, Encoded(items)
  PROVE  Encoded(items)'
<1>1. Chain(items)'
  BY ChainSame DEF Encoded
<1>2. ASSUME NEW i \in 1 .. Len(items) PROVE Means(items[i])' /\ Written(items[i])'
  <2>1. Means(items[i]) /\ Written(items[i])
    BY DEF Encoded
  <2>2. Means(items[i])'
    BY <2>1, MeansSame
  <2>3. Written(items[i])'
    BY <2>1 DEF Written, Stands, PatternBytes, ByteBits, After, Width
  <2> QED
    BY <2>2, <2>3
<1>3. Ended(items)'
  BY DEF Encoded, Ended, After, Width, ByteBits
<1> QED
  BY <1>1, <1>2, <1>3 DEF Encoded

\* The turns behind one item are in front of the next one, or behind the last.
LEMMA NextItem ==
  ASSUME DecodeTypes, NEW items \in Seq(Item), Encoded(items),
         NEW k \in 1 .. Len(items), Before(items[k], k = 1), DecodeItem
  PROVE  /\ \/ k + 1 \in 1 .. Len(items) /\ Before(items[k + 1], k + 1 = 1)'
            \/ Behind(items)'
         /\ dst' \in Seq(0 .. Garbage) /\ count' \in 0 .. ByteBits /\ src' \in Nat
<1>0. PICK x \in Item : x = items[k]
  OBVIOUS
<1>1. /\ x.at \in Nat /\ x.ctl \in Nat /\ x.offset \in Nat /\ x.pos \in Nat
      /\ x.from \in Nat /\ x.size \in Nat
  BY ItemTypes
<1>2. Means(x) /\ Written(x)
  BY <1>0 DEF Encoded
<1>3. x.pos = 1 => x.at = x.ctl + 1
  BY <1>0, BehindControl
<1>4. /\ Right(x.from + x.size - 1)' /\ dst' \in Seq(0 .. Garbage)
      /\ count' = x.pos /\ src' = After(x)
      /\ Left(out[x.ctl], x.pos)'
  <2>0. PICK read \in BOOLEAN : read = (k = 1)
    OBVIOUS
  <2>1. Before(x, read)
    BY <1>0, <2>0 DEF Before
  <2> QED
    BY <1>2, <1>3, <2>1, ItemRead
<1>5. /\ LengthBits' = LengthBits /\ data' = data /\ out' = out
      /\ ByteBits' = ByteBits
  BY DEF DecodeItem, ByteBits
<1>6. count' \in 0 .. ByteBits /\ src' \in Nat
  <2>1. Width(x) \in {1, 2}
    BY DEF Width
  <2>2. ByteBits \in Nat /\ 1 <= x.pos /\ x.pos <= ByteBits
    BY <1>2, ByteSizes DEF Means, DecodeTypes
  <2>3. After(x) \in Nat
    BY <1>1, <2>1 DEF After
  <2> QED
    BY <1>1, <1>4, <2>2, <2>3
<1>7. CASE k = Len(items)
  <2>1. /\ x.from + x.size = Len(data) + 1
        /\ IF x.pos = ByteBits THEN Len(out) = After(x) ELSE Len(out) = After(x) - 1
    BY <1>0, <1>7 DEF Encoded, Ended
  <2>2. Len(data) \in Nat /\ Len(out) \in Nat
    BY DEF DecodeTypes, InputOK
  <2>3. x.from + x.size - 1 = Len(data)
    <3>1. x.from + x.size = Len(data) + 1
      BY <2>1
    <3> QED
      BY <1>1, <2>2, <3>1, SMTT(30)
  <2>4. Right(Len(data))'
    BY <1>4, <1>5, <2>3
  <2>5. IF x.pos = ByteBits THEN count' = ByteBits /\ src' = Len(out)
                            ELSE src' = Len(out) + 1
    BY <1>4, <1>6, <2>1, <2>2
  <2>6. Behind(items)'
    BY <1>0, <1>5, <1>7, <2>4, <2>5 DEF Behind
  <2> QED
    BY <1>4, <1>6, <2>6
<1>8. CASE k # Len(items)
  <2>1. Len(items) \in Nat /\ k \in 1 .. Len(items) - 1 /\ k + 1 \in 1 .. Len(items) /\ k + 1 # 1
    BY <1>8
  <2>0. PICK y \in Item : y = items[k + 1]
    BY <2>1
  <2>2. Follows(y, x)
    BY <1>0, <2>0, <2>1 DEF Encoded, Chain
  <2>3. y.from \in Nat /\ y.pos \in Nat
    BY ItemTypes
  <2>4. Right(y.from - 1)'
    <3>1. y.from = x.from + x.size
      BY <2>2 DEF Follows
    <3>2. y.from - 1 = x.from + x.size - 1
      BY <1>1, <2>3, <3>1, SMTT(30)
    <3> QED
      BY <1>4, <3>2
  <2>5. CASE x.pos = ByteBits
    <3>1. y.ctl = After(x) /\ y.pos = 1
      BY <2>2, <2>5 DEF Follows
    <3>2. Before(y, FALSE)'
      BY <1>4, <1>5, <2>4, <2>5, <3>1 DEF Before
    <3> QED
      BY <1>4, <1>6, <2>0, <2>1, <3>2 DEF Before
  <2>6. CASE x.pos # ByteBits
    <3>1. y.ctl = x.ctl /\ y.at = After(x) /\ y.pos = x.pos + 1
      BY <2>2, <2>6 DEF Follows
    <3>2. x.pos >= 1
      BY <1>2 DEF Means
    <3>3. y.pos # 1 /\ count' = y.pos - 1
      <4>1. \A p \in Nat : p >= 1 => p + 1 # 1 /\ p = (p + 1) - 1
        OBVIOUS
      <4> QED
        BY <1>1, <1>4, <3>1, <3>2, <4>1, Zenon
    <3>4. Left(out[y.ctl], count)'
      BY <1>4, <3>1
    <3>5. src' = y.at
      BY <1>4, <3>1
    <3>6. Before(y, FALSE)'
      BY <2>4, <3>3, <3>4, <3>5 DEF Before
    <3> QED
      BY <1>4, <1>6, <2>0, <2>1, <3>6 DEF Before
  <2> QED
    BY <2>5, <2>6
<1> QED
  BY <1>7, <1>8

\* Behind the last item there is at most the control byte that has none.
LEMMA NoItem ==
  ASSUME DecodeTypes, NEW items \in Seq(Item), Encoded(items), Behind(items), DecodeItem
  PROVE  /\ Overrun'
         /\ dst' \in Seq(0 .. Garbage) /\ count' \in 0 .. ByteBits /\ src' \in Nat
<1>1. /\ InputOK /\ Len(out) \in Nat /\ Len(data) \in Nat /\ ByteBits \in Nat
      /\ ByteBits >= 2 /\ dst \in Seq(0 .. Garbage) /\ Garbage \in Nat
  <2>1. InputOK /\ Len(out) \in Nat /\ dst \in Seq(0 .. Garbage)
    BY DEF DecodeTypes
  <2>2. Len(data) \in Nat
    BY <2>1 DEF InputOK
  <2> QED
    BY <2>1, <2>2, ByteSizes
<1>2. src <= Len(out)
  BY DEF DecodeItem, More
<1>3. items[Len(items)].pos = ByteBits /\ count = ByteBits /\ src = Len(out)
  BY <1>1, <1>2 DEF Behind
<1>4. out[src] = 0 /\ Full
  BY <1>1, <1>3 DEF Encoded, Ended, Full
<1>5. ByteAt(src) = 0 /\ ByteAt(src + 1) = Garbage
  BY <1>1, <1>3, <1>4 DEF ByteAt
<1>6. ~(0 >= Pow2[ByteBits - 1])
  <2>1. ByteBits - 1 \in Nat
    BY <1>1
  <2>2. Pow2[ByteBits - 1] \in Nat \ {0}
    BY <2>1, Pow2Def
  <2> QED
    BY <2>2
<1>7. dst' = Append(dst, Garbage) /\ src' = src + 2 /\ count' = 1
  <2>1. dst' = Append(dst, ByteAt(src + 1)) /\ src' = (src + 1) + 1 /\ count' = 1
    BY <1>4, <1>5, <1>6 DEF DecodeItem
  <2> QED
    BY <1>1, <1>3, <1>5, <2>1
<1>8. out' = out /\ data' = data
  BY DEF DecodeItem
<1>9. Garbage \in 0 .. Garbage
  BY <1>1
<1>10. /\ dst' \in Seq(0 .. Garbage) /\ Len(dst') = Len(dst) + 1
       /\ \A i \in 1 .. Len(dst) : dst'[i] = dst[i]
  BY <1>1, <1>7, <1>9, Appended
<1>11. Len(dst) = Len(data) /\ \A i \in 1 .. Len(data) : dst[i] = data[i]
  BY <1>1 DEF Behind, Right
<1>12. ASSUME NEW i \in 1 .. Len(data) + 1, i <= Len(data) PROVE dst'[i] = data[i]
  <2>1. i \in 1 .. Len(data) /\ i \in 1 .. Len(dst)
    BY <1>1, <1>11, <1>12
  <2> QED
    BY <1>10, <1>11, <2>1
<1>13. Right(Len(data) + 1)'
  BY <1>8, <1>10, <1>11, <1>12 DEF Right
<1>14. src' > Len(out) /\ src' \in Nat
  BY <1>1, <1>3, <1>7
<1> QED
  BY <1>1, <1>7, <1>8, <1>10, <1>13, <1>14 DEF Overrun

\* A turn of the decoder keeps it in front of an item or behind the last one.
LEMMA DecodeItemKeeps ==
  ASSUME pc = "decode", DecodeInv, DecodeItem
  PROVE  DecodeInv'
<1>1. DecodeTypes
  BY DEF DecodeInv
<1>2. PICK items \in Seq(Item) :
        /\ Encoded(items)
        /\ \/ \E k \in 1 .. Len(items) : Before(items[k], k = 1)
           \/ Behind(items)
           \/ Overrun
  BY DEF DecodeInv
<1>3. /\ LengthBits' = LengthBits /\ data' = data /\ out' = out
      /\ ByteBits' = ByteBits /\ Garbage' = Garbage /\ Byte' = Byte
  BY DEF DecodeItem, ByteBits, Garbage, Byte
<1>4. Encoded(items)'
  BY <1>2, <1>3, EncodedSame
<1>5. InputOK' /\ out' \in Seq(Byte')
  BY <1>1, <1>3 DEF DecodeTypes, InputOK
<1>6. ASSUME dst' \in Seq(0 .. Garbage), count' \in 0 .. ByteBits, src' \in Nat
      PROVE  DecodeTypes'
  BY <1>3, <1>5, <1>6 DEF DecodeTypes
<1>7. CASE \E k \in 1 .. Len(items) : Before(items[k], k = 1)
  <2> PICK k \in 1 .. Len(items) : Before(items[k], k = 1)
    BY <1>7
  <2>1. /\ \/ k + 1 \in 1 .. Len(items) /\ Before(items[k + 1], k + 1 = 1)'
           \/ Behind(items)'
        /\ dst' \in Seq(0 .. Garbage) /\ count' \in 0 .. ByteBits /\ src' \in Nat
    BY <1>1, <1>2, NextItem
  <2>2. DecodeTypes'
    BY <1>6, <2>1
  <2>3. (\E m \in 1 .. Len(items) : Before(items[m], m = 1)') \/ Behind(items)'
    BY <2>1
  <2> QED
    BY <1>4, <2>2, <2>3 DEF DecodeInv
<1>8. CASE Behind(items)
  <2>1. /\ Overrun'
        /\ dst' \in Seq(0 .. Garbage) /\ count' \in 0 .. ByteBits /\ src' \in Nat
    BY <1>1, <1>2, <1>8, NoItem
  <2>2. DecodeTypes'
    BY <1>6, <2>1
  <2> QED
    BY <1>4, <2>1, <2>2 DEF DecodeInv
<1>9. CASE Overrun
  <2>1. src <= Len(out)
    BY DEF DecodeItem, More
  <2>2. src \in Nat /\ Len(out) \in Nat
    BY <1>1 DEF DecodeTypes
  <2> QED
    BY <1>9, <2>1, <2>2 DEF Overrun
<1> QED
  BY <1>2, <1>7, <1>8, <1>9

-----------------------------------------------------------------------------
(* The end of the decoder *)

DoneInv ==
  pc = "done" =>
    /\ InputOK /\ dst \in Seq(0 .. Garbage)
    /\ Right(Len(data)) \/ Right(Len(data) + 1)

\* The decoder does not stop in front of an item.
LEMMA DecodeEndKeeps ==
  ASSUME pc = "decode", DecodeInv, DecodeEnd
  PROVE  DoneInv'
<1>1. DecodeTypes
  BY DEF DecodeInv
<1>2. PICK items \in Seq(Item) :
        /\ Encoded(items)
        /\ \/ \E k \in 1 .. Len(items) : Before(items[k], k = 1)
           \/ Behind(items)
           \/ Overrun
  BY DEF DecodeInv
<1>3. Len(out) \in Nat /\ src \in Nat /\ ~(src <= Len(out))
  BY <1>1 DEF DecodeTypes, DecodeEnd, More
<1>4. ASSUME NEW k \in 1 .. Len(items), Before(items[k], k = 1) PROVE FALSE
  <2> PICK x \in Item : x = items[k]
    OBVIOUS
  <2>1. x.at \in Nat /\ x.ctl \in Nat /\ Width(x) \in {1, 2}
    BY ItemTypes DEF Width
  <2>2. 1 <= x.ctl /\ x.ctl < x.at /\ x.at + Width(x) <= Len(out) + 1
    BY <1>2 DEF Encoded, Written, After
  <2>3. src = x.ctl \/ src = x.at
    BY <1>4 DEF Before
  <2> QED
    BY <1>3, <2>1, <2>2, <2>3
<1>5. Right(Len(data)) \/ Right(Len(data) + 1)
  BY <1>2, <1>4 DEF Behind, Overrun
<1>6. LengthBits' = LengthBits /\ data' = data /\ dst' = dst
  BY DEF DecodeEnd
<1> QED
  BY <1>1, <1>5, <1>6 DEF DoneInv, DecodeTypes, InputOK, Byte, Garbage, ByteBits, Right

-----------------------------------------------------------------------------
(* The length of the output *)

\* Of the bytes encoded, each group that is in the output holds a control byte
\* more, and no item is longer than what it stands for.
GrowthInv ==
  /\ pc = "encode" =>
       /\ Len(group) <= 2 * count
       /\ \E groups \in Nat :
            /\ groups * ByteBits + count <= tail - 1
            /\ Len(out) + Len(group) <= tail - 1 + groups
  /\ pc # "encode" => Len(group) <= 2 * ByteBits /\ GrowthOfLiterals

LEMMA EncodeItemGrows ==
  ASSUME pc = "encode", EncodeTypes, EncodeItem, GrowthInv
  PROVE  GrowthInv'
<1>1. /\ Len(out) \in Nat /\ Len(group) \in Nat /\ count \in Nat /\ ByteBits \in Nat
      /\ tail \in Nat /\ ByteBits >= 2 /\ group \in Seq(Byte) /\ InputOK
  BY EncodeNumbers DEF EncodeTypes
<1>2. /\ count' = IF Full THEN 1 ELSE count + 1
      /\ Full <=> count = ByteBits
      /\ ByteBits' = ByteBits
  BY EncodeItemTypes DEF ByteBits
<1>3. PICK groups \in Nat :
        /\ groups * ByteBits + count <= tail - 1
        /\ Len(out) + Len(group) <= tail - 1 + groups
  BY DEF GrowthInv
<1>4. Len(group) <= 2 * count
  BY DEF GrowthInv
<1>5. PICK size \in Nat, width \in {1, 2} :
        /\ width <= size /\ tail' = tail + size
        /\ Len(group') = (IF Full THEN 0 ELSE Len(group)) + width
  <2>1. PICK size \in Nat, offset \in Nat :
          /\ Copyable(tail, size, offset)
          /\ tail' = tail + size
          /\ group' = (IF Full THEN <<>> ELSE group)
                        \o (IF offset = 0 THEN <<data[tail]>>
                                          ELSE PatternBytes(offset, size))
    BY ItemTaken
  <2> PICK w : w = IF offset = 0 THEN <<data[tail]>> ELSE PatternBytes(offset, size)
    OBVIOUS
  <2> PICK g : g = IF Full THEN <<>> ELSE group
    OBVIOUS
  <2>2. w \in Seq(Byte) /\ Len(w) = IF offset = 0 THEN 1 ELSE 2
    BY <1>1, <2>1, ItemBytes
  <2>3. g \in Seq(Byte) /\ Len(g) = IF Full THEN 0 ELSE Len(group)
    BY <1>1
  <2>4. group' = g \o w
    BY <2>1
  <2>5. Joined(group', g, w)
    BY <2>2, <2>3, <2>4, Concatenation, Zenon
  <2>6. Len(w) \in {1, 2} /\ Len(w) <= size
    BY <2>1, <2>2 DEF Copyable
  <2> QED
    BY <2>1, <2>3, <2>5, <2>6 DEF Joined
<1>6. pc' = "encode"
  BY DEF EncodeItem
<1>7. CASE Full
  <2>1. Len(out') = Len(out) + 1 + Len(group)
    <3>1. control \in Byte
      BY <1>7, ControlIsByte
    <3>2. out' = out \o <<control>> \o group
      BY <1>7 DEF EncodeItem, Flushed
    <3> QED
      BY <3>1, <3>2, OutputGrows
  <2>2. count' = 1 /\ count = ByteBits /\ Len(group') = width
    BY <1>2, <1>5, <1>7
  <2>3. (groups + 1) * ByteBits = groups * ByteBits + ByteBits /\ groups * ByteBits \in Nat
    BY <1>1
  <2>4. Len(group') <= 2 * count'
    BY <2>2
  <2>5. (groups + 1) * ByteBits + count' <= tail' - 1
    BY <1>1, <1>3, <1>5, <2>2, <2>3
  <2>6. Len(out') + Len(group') <= tail' - 1 + (groups + 1)
    <3>1. Len(out) + 1 + Len(group) + width <= tail + size - 1 + (groups + 1)
      BY <1>1, <1>3, <1>5
    <3>2. Len(out') + Len(group') = Len(out) + 1 + Len(group) + width
      BY <2>1, <2>2
    <3>3. tail' - 1 + (groups + 1) = tail + size - 1 + (groups + 1)
      <4>1. \A t \in Int : t = tail + size => t - 1 + (groups + 1) = tail + size - 1 + (groups + 1)
        BY <1>1
      <4>2. tail' = tail + size /\ tail + size \in Int
        BY <1>1, <1>5
      <4> QED
        BY <4>1, <4>2, Zenon
    <3> QED
      BY <3>1, <3>2, <3>3
  <2>7. groups + 1 \in Nat
    OBVIOUS
  <2> QED
    BY <1>2, <1>6, <2>4, <2>5, <2>6, <2>7 DEF GrowthInv
<1>8. CASE ~Full
  <2>1. out' = out /\ count' = count + 1 /\ Len(group') = Len(group) + width
    BY <1>2, <1>5, <1>8 DEF EncodeItem
  <2>2. groups * ByteBits \in Nat
    BY <1>1
  <2>3. Len(group') <= 2 * count'
    BY <1>1, <1>4, <2>1
  <2>4. groups * ByteBits + count' <= tail' - 1
    BY <1>1, <1>3, <1>5, <2>1, <2>2
  <2>5. Len(out') + Len(group') <= tail' - 1 + groups
    BY <1>1, <1>3, <1>5, <2>1
  <2> QED
    BY <1>2, <1>6, <2>3, <2>4, <2>5 DEF GrowthInv
<1> QED
  BY <1>7, <1>8

LEMMA EncodeEndGrows ==
  ASSUME pc = "encode", EncodeTypes, EncodeEnd, GrowthInv
  PROVE  GrowthInv'
<1>1. /\ Len(out) \in Nat /\ Len(group) \in Nat /\ count \in Nat /\ ByteBits \in Nat
      /\ tail = Len(data) + 1 /\ ByteBits >= 2 /\ Len(data) \in Nat
      /\ count <= ByteBits
  <2>1. tail > Len(data) /\ tail \in 1 .. Len(data) + 1
    BY DEF EncodeTypes, EncodeEnd
  <2> QED
    BY <2>1, EncodeNumbers
<1>2. PICK groups \in Nat :
        /\ groups * ByteBits + count <= tail - 1
        /\ Len(out) + Len(group) <= tail - 1 + groups
  BY DEF GrowthInv
<1>3. Len(group) <= 2 * count
  BY DEF GrowthInv
<1>4. Len(out') = Len(out) + 1 + Len(group) + (IF Full THEN 1 ELSE 0)
  BY LastGroup
<1>5. Full <=> count = ByteBits
  BY <1>1 DEF Full
<1>6. /\ group' = group /\ data' = data /\ ByteBits' = ByteBits /\ pc' = "decode"
  BY DEF EncodeEnd, ByteBits
<1>7. groups + (IF Full THEN 1 ELSE 0) <= Len(data) \div ByteBits
  <2>1. PICK n \in Nat : n = groups + (IF Full THEN 1 ELSE 0)
    OBVIOUS
  <2>2. n * ByteBits <= Len(data)
    <3>1. CASE Full
      <4>1. n * ByteBits = groups * ByteBits + ByteBits /\ groups * ByteBits \in Nat
        BY <1>1, <2>1, <3>1
      <4> QED
        BY <1>1, <1>2, <1>5, <3>1, <4>1
    <3>2. CASE ~Full
      <4>1. n = groups /\ groups * ByteBits \in Nat
        BY <1>1, <2>1, <3>2
      <4> QED
        BY <1>1, <1>2, <4>1
    <3> QED
      BY <3>1, <3>2
  <2>3. PICK q \in Nat, r \in Nat : q = Len(data) \div ByteBits /\ r < ByteBits
                                    /\ Len(data) = q * ByteBits + r
    <3>1. ByteBits \in Nat \ {0}
      BY <1>1
    <3>2. /\ Len(data) \div ByteBits \in Nat /\ Len(data) % ByteBits \in Nat
          /\ Len(data) % ByteBits < ByteBits
          /\ Len(data) = (Len(data) \div ByteBits) * ByteBits + (Len(data) % ByteBits)
      BY <1>1, <3>1, Divided
    <3> QED
      BY <3>2, Zenon
  <2>4. n <= q
    <3> SUFFICES ASSUME n >= q + 1 PROVE FALSE
      OBVIOUS
    <3>1. n * ByteBits >= (q + 1) * ByteBits
      BY <1>1
    <3>2. (q + 1) * ByteBits = q * ByteBits + ByteBits /\ q * ByteBits \in Nat
          /\ n * ByteBits \in Nat
      BY <1>1
    <3> QED
      BY <1>1, <2>2, <2>3, <3>1, <3>2
  <2> QED
    BY <2>1, <2>3, <2>4
<1>8. Len(data) \div ByteBits \in Nat
  BY <1>1, Divided
<1>9. 4 + Len(out') <= Len(data) + Len(data) \div ByteBits + 5
  BY <1>1, <1>2, <1>4, <1>7, <1>8
<1>10. Len(group) <= 2 * ByteBits
  BY <1>1, <1>3
<1> QED
  BY <1>6, <1>9, <1>10 DEF GrowthInv, GrowthOfLiterals

LEMMA DecodeGrows ==
  ASSUME pc # "encode", GrowthInv, pc' # "encode",
         UNCHANGED <<LengthBits, data, group, out>>
  PROVE  GrowthInv'
BY DEF GrowthInv, GrowthOfLiterals, ByteBits

-----------------------------------------------------------------------------
(* The theorems *)

LzssInv ==
  /\ pc \in {"encode", "decode", "done"}
  /\ EncodeInv /\ DecodeInv /\ DoneInv /\ GrowthInv

LEMMA LzssInvInit == Init => LzssInv
<1> SUFFICES ASSUME Init PROVE LzssInv
  OBVIOUS
<1>1. EncodeInv
  BY EncodeInit
<1>2. pc = "encode"
  BY DEF Init
<1>3. EncodeTypes
  BY <1>1, <1>2 DEF EncodeInv
<1>4. GrowthInv
  <2>1. 0 * ByteBits + count <= tail - 1 /\ Len(out) + Len(group) <= tail - 1 + 0
    BY <1>3, EncodeNumbers DEF Init
  <2>2. Len(group) <= 2 * count
    BY DEF Init
  <2> QED
    BY <1>2, <2>1, <2>2 DEF GrowthInv
<1> QED
  BY <1>1, <1>2, <1>4 DEF LzssInv, DecodeInv, DoneInv

LEMMA LzssInvSame ==
  ASSUME LzssInv, UNCHANGED vars
  PROVE  LzssInv'
<1>1. /\ LengthBits' = LengthBits /\ pc' = pc /\ data' = data /\ tail' = tail
      /\ count' = count /\ control' = control /\ group' = group /\ out' = out
      /\ src' = src /\ dst' = dst
  BY DEF vars
<1>2. /\ ByteBits' = ByteBits /\ Byte' = Byte /\ Garbage' = Garbage
      /\ InputOK' = InputOK
  BY <1>1 DEF ByteBits, Byte, Garbage, InputOK
<1>3. ASSUME EncodeInv PROVE EncodeInv'
  <2>1. CASE pc = "encode"
    <3>1. EncodeTypes'
      BY <1>1, <1>2, <1>3, <2>1 DEF EncodeInv, EncodeTypes
    <3>2. PICK items \in Seq(Item) : Encoding(items)
      BY <1>3, <2>1 DEF EncodeInv
    <3>3. Chain(items)'
      BY <1>1, <3>2, ChainSame DEF Encoding
    <3>4. ASSUME NEW i \in 1 .. Len(items)
          PROVE  Means(items[i])' /\ (Written(items[i])' \/ Pending(items[i])')
      <4>1. Means(items[i])'
        BY <1>1, <3>2, MeansSame DEF Encoding
      <4>2. Written(items[i])' = Written(items[i]) /\ Pending(items[i])' = Pending(items[i])
        BY <1>1, <1>2 DEF Written, Pending, Stands, PatternBytes, After, Width
      <4> QED
        BY <3>2, <4>1, <4>2 DEF Encoding
    <3>5. AtEnd(items)'
      BY <1>1, <3>2 DEF Encoding, AtEnd, After, Width
    <3> QED
      BY <3>1, <3>3, <3>4, <3>5 DEF EncodeInv, Encoding
  <2> QED
    BY <1>1, <2>1 DEF EncodeInv
<1>4. ASSUME DecodeInv PROVE DecodeInv'
  <2>1. CASE pc = "decode"
    <3>1. DecodeTypes'
      BY <1>1, <1>2, <1>4, <2>1 DEF DecodeInv, DecodeTypes
    <3>2. PICK items \in Seq(Item) :
            /\ Encoded(items)
            /\ \/ \E k \in 1 .. Len(items) : Before(items[k], k = 1)
               \/ Behind(items)
               \/ Overrun
      BY <1>4, <2>1 DEF DecodeInv
    <3>3. Encoded(items)'
      BY <1>1, <3>2, EncodedSame
    <3>4. ASSUME NEW k \in 1 .. Len(items), Before(items[k], k = 1)
          PROVE  Before(items[k], k = 1)'
      BY <1>1, <1>2, <3>4 DEF Before, Right, Left
    <3>5. ASSUME Behind(items) PROVE Behind(items)'
      BY <1>1, <1>2, <3>5 DEF Behind, Right
    <3>6. ASSUME Overrun PROVE Overrun'
      BY <1>1, <1>2, <3>6 DEF Overrun, Right
    <3> QED
      BY <3>1, <3>2, <3>3, <3>4, <3>5, <3>6 DEF DecodeInv
  <2> QED
    BY <1>1, <2>1 DEF DecodeInv
<1>5. ASSUME DoneInv PROVE DoneInv'
  BY <1>1, <1>2, <1>5 DEF DoneInv, Right
<1>6. ASSUME GrowthInv PROVE GrowthInv'
  BY <1>1, <1>2, <1>6 DEF GrowthInv, GrowthOfLiterals
<1> QED
  BY <1>1, <1>3, <1>4, <1>5, <1>6 DEF LzssInv

LEMMA LzssInvStep == LzssInv /\ [Next]_vars => LzssInv'
<1> SUFFICES ASSUME LzssInv, [Next]_vars PROVE LzssInv'
  OBVIOUS
<1>1. CASE EncodeItem
  <2>1. pc = "encode" /\ pc' = "encode"
    BY <1>1 DEF EncodeItem
  <2>2. EncodeInv'
    BY <1>1, <2>1, EncodeItemKeeps DEF LzssInv
  <2>3. GrowthInv'
    BY <1>1, <2>1, EncodeItemGrows DEF LzssInv, EncodeInv
  <2> QED
    BY <2>1, <2>2, <2>3 DEF LzssInv, DecodeInv, DoneInv
<1>2. CASE EncodeEnd
  <2>1. pc = "encode" /\ pc' = "decode"
    BY <1>2 DEF EncodeEnd
  <2>2. DecodeInv'
    BY <1>2, <2>1, EncodeEndKeeps DEF LzssInv
  <2>3. GrowthInv'
    BY <1>2, <2>1, EncodeEndGrows DEF LzssInv, EncodeInv
  <2> QED
    BY <2>1, <2>2, <2>3 DEF LzssInv, EncodeInv, DoneInv
<1>3. CASE DecodeItem
  <2>1. pc = "decode" /\ pc' = "decode" /\ UNCHANGED <<LengthBits, data, group, out>>
    BY <1>3 DEF DecodeItem
  <2>2. DecodeInv'
    BY <1>3, <2>1, DecodeItemKeeps DEF LzssInv
  <2>3. GrowthInv'
    BY <2>1, DecodeGrows DEF LzssInv
  <2> QED
    BY <2>1, <2>2, <2>3 DEF LzssInv, EncodeInv, DoneInv
<1>4. CASE DecodeEnd
  <2>1. pc = "decode" /\ pc' = "done" /\ UNCHANGED <<LengthBits, data, group, out>>
    BY <1>4 DEF DecodeEnd
  <2>2. DoneInv'
    BY <1>4, <2>1, DecodeEndKeeps DEF LzssInv
  <2>3. GrowthInv'
    BY <2>1, DecodeGrows DEF LzssInv
  <2> QED
    BY <2>1, <2>2, <2>3 DEF LzssInv, EncodeInv, DecodeInv
<1>5. CASE UNCHANGED vars
  BY <1>5, LzssInvSame
<1> QED
  BY <1>1, <1>2, <1>3, <1>4, <1>5 DEF Next

\* At any time the decoded bytes are right, at most one is too many, and in
\* the end none is missing.
LEMMA DecodedIsRight ==
  ASSUME LzssInv
  PROVE  /\ InputOK /\ dst \in Seq(0 .. Garbage)
         /\ \E n \in 0 .. Len(data) + 1 : Right(n) /\ (pc = "done" => n >= Len(data))
<1>1. CASE pc = "encode"
  <2>1. EncodeTypes
    BY <1>1 DEF LzssInv, EncodeInv
  <2>2. dst = <<>> /\ InputOK /\ Len(data) \in Nat
    BY <2>1 DEF EncodeTypes, InputOK
  <2>3. Right(0)
    BY <2>2 DEF Right
  <2> QED
    BY <1>1, <2>2, <2>3
<1>2. CASE pc = "decode"
  <2>1. PICK items \in Seq(Item) :
          /\ Encoded(items)
          /\ \/ \E k \in 1 .. Len(items) : Before(items[k], k = 1)
             \/ Behind(items)
             \/ Overrun
    BY <1>2 DEF LzssInv, DecodeInv
  <2>2. InputOK /\ dst \in Seq(0 .. Garbage) /\ Len(data) \in Nat
    BY <1>2 DEF LzssInv, DecodeInv, DecodeTypes, InputOK
  <2>3. ASSUME NEW k \in 1 .. Len(items), Before(items[k], k = 1)
        PROVE  \E n \in 0 .. Len(data) + 1 : Right(n)
    <3> PICK x \in Item : x = items[k]
      OBVIOUS
    <3>1. Right(x.from - 1)
      BY <2>3 DEF Before
    <3>2. x.from \in Nat /\ x.size \in Nat /\ x.size >= 1 /\ x.from >= 1
          /\ x.from + x.size - 1 <= Len(data)
      BY <2>1, ItemTypes DEF Encoded, Means, Copyable
    <3>3. x.from - 1 \in 0 .. Len(data) + 1
      BY <2>2, <3>2
    <3> QED
      BY <3>1, <3>3
  <2>4. ASSUME Behind(items) PROVE Right(Len(data)) /\ Len(data) \in 0 .. Len(data) + 1
    BY <2>2, <2>4 DEF Behind
  <2>5. ASSUME Overrun PROVE Right(Len(data) + 1) /\ Len(data) + 1 \in 0 .. Len(data) + 1
    BY <2>2, <2>5 DEF Overrun
  <2> QED
    BY <1>2, <2>1, <2>2, <2>3, <2>4, <2>5
<1>3. CASE pc = "done"
  <2>1. /\ InputOK /\ dst \in Seq(0 .. Garbage) /\ Len(data) \in Nat
        /\ Right(Len(data)) \/ Right(Len(data) + 1)
    BY <1>3 DEF LzssInv, DoneInv, InputOK
  <2>2. Len(data) \in 0 .. Len(data) + 1 /\ Len(data) + 1 \in 0 .. Len(data) + 1
        /\ Len(data) >= Len(data) /\ Len(data) + 1 >= Len(data)
    BY <2>1
  <2> QED
    BY <2>1, <2>2
<1> QED
  BY <1>1, <1>2, <1>3 DEF LzssInv

LEMMA LzssInvImplies == LzssInv => RoundTrip /\ OverrunByOne /\ GrowthOfLiterals
<1> SUFFICES ASSUME LzssInv PROVE RoundTrip /\ OverrunByOne /\ GrowthOfLiterals
  OBVIOUS
<1>1. InputOK /\ dst \in Seq(0 .. Garbage) /\ Len(data) \in Nat
  BY DecodedIsRight DEF InputOK
<1>2. PICK n \in 0 .. Len(data) + 1 : Right(n) /\ (pc = "done" => n >= Len(data))
  BY DecodedIsRight
<1>3. Len(dst) = n /\ DOMAIN dst = 1 .. n
  BY <1>1, <1>2 DEF Right
<1>4. RoundTrip
  BY <1>1, <1>2, <1>3 DEF RoundTrip, Right
<1>5. Len(group) <= 2 * ByteBits
  <2>1. CASE pc = "encode"
    <3>1. /\ Len(group) <= 2 * count /\ count \in Nat /\ ByteBits \in Nat
          /\ Len(group) \in Nat /\ count <= ByteBits
      BY <2>1, EncodeNumbers DEF LzssInv, GrowthInv, EncodeInv
    <3> QED
      BY <3>1
  <2>2. CASE pc # "encode"
    BY <2>2 DEF LzssInv, GrowthInv
  <2> QED
    BY <2>1, <2>2
<1>6. OverrunByOne
  BY <1>1, <1>2, <1>3, <1>5 DEF OverrunByOne
<1>7. GrowthOfLiterals
  BY DEF LzssInv, GrowthInv, GrowthOfLiterals
<1> QED
  BY <1>4, <1>6, <1>7

LEMMA LzssInvHolds == Spec => []LzssInv
BY LzssInvInit, LzssInvStep, PTL DEF Spec

\* lzss_decode makes of the output of lzss_encode the input again, whatever
\* the input is: what User::decode gives to the socket is what was encoded.
THEOREM DecodingUndoesEncoding == Spec => []RoundTrip
BY LzssInvHolds, LzssInvImplies, PTL

\* buf of lzss_encode is never left, and the array that lzss_decode allocates
\* from the header is overrun by at most one byte.
THEOREM OverrunIsOneByte == Spec => []OverrunByOne
BY LzssInvHolds, LzssInvImplies, PTL

\* lzss_encode makes no input longer than by the header, a control byte per
\* group, and a trailing one: data without patterns, the length of which is
\* LzssLength in BlockSize, grow the most.
THEOREM GrowthIsOfLiterals == Spec => []GrowthOfLiterals
BY LzssInvHolds, LzssInvImplies, PTL

=============================================================================
