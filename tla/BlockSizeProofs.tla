-------------------------- MODULE BlockSizeProofs --------------------------
(* Proofs about BlockSize, for every BuffSize, ShortMax and bound.          *)
EXTENDS BlockSize, SequenceTheorems, TLAPS

(* Lengths *)

\* The user of a session never changes, and a torn stream stays torn.
LEMMA OnceTorn ==
  ASSUME [Next]_vars, TypeOK
  PROVE  user' = user /\ (Whole' => Whole)
<1> USE DEF Whole, Sides
<1>1. ASSUME NEW s \in Sides, SendBlock(s) PROVE user' = user /\ split' = split
  BY <1>1 DEF SendBlock
<1>2. ASSUME NEW s \in Sides, Receive(s)
      PROVE  user' = user /\ (split' = split \/ split' = [split EXCEPT ![s] = TRUE])
  BY <1>2 DEF Receive, RefuseBlock, RecvBlock, RecvPiece, RecvTorn
<1>3. CASE UNCHANGED vars
  BY <1>3 DEF vars
<1> QED
  BY <1>1, <1>2, <1>3 DEF Next, TypeOK

\* What fills the blocks of an RSA encoding, and what one of them holds.
LEMMA RsaNumbers ==
  RsaSize \in Nat /\ RsaSize - 11 \in Nat \ {0} /\ RsaSize \in Nat \ {0}
BY RsaAssumption

\* A quotient of naturals is one.
LEMMA Quotient ==
  ASSUME NEW n \in Nat, NEW b \in Nat \ {0}
  PROVE  n \div b \in Nat /\ n = b * (n \div b) + (n % b) /\ n % b \in 0 .. b - 1
OBVIOUS

\* A product of naturals is one.
LEMMA Product ==
  ASSUME NEW a \in Nat, NEW b \in Nat
  PROVE  a * b \in Nat
OBVIOUS

\* Rounding up yields no less than rounding down.
LEMMA RoundedUp ==
  ASSUME NEW n \in Nat, NEW b \in Nat \ {0}
  PROVE  n \div b <= (n + b - 1) \div b
<1> DEFINE q == n \div b
           r == (n + b - 1) \div b
<1>1. n + b - 1 \in Nat /\ n + b - 1 >= n
  OBVIOUS
<1>2. /\ q \in Nat /\ n = b * q + (n % b) /\ n % b \in 0 .. b - 1
      /\ r \in Nat /\ n + b - 1 = b * r + ((n + b - 1) % b)
      /\ (n + b - 1) % b \in 0 .. b - 1
  BY <1>1, Quotient
<1> HIDE DEF q, r
<1>3. ASSUME q > r PROVE FALSE
  <2>1. q - r - 1 \in Nat
    BY <1>2, <1>3
  <2>2. b * (q - r - 1) \in Nat
    BY <2>1, Product
  <2>3. b * (q - r - 1) = b * q - b * r - b
    BY <1>2
  <2>4. b * q >= b * r + b
    BY <1>2, <2>2, <2>3
  <2> QED
    BY <1>1, <1>2, <2>4
<1>4. q <= r
  BY <1>2, <1>3
<1> QED
  BY <1>4 DEF q, r

\* What lzss_encode leaves is some number of bytes.
LEMMA PackedNat ==
  ASSUME NEW n \in Nat
  PROVE  Packed(n) \in Nat
<1>1. n \div 8 \in Nat
  BY Quotient
<1> QED
  BY <1>1 DEF Packed, LzssLength

\* A block is never shorter than nothing, whatever the encoding.
LEMMA EncodedNat ==
  ASSUME TypeOK, NEW n \in Nat
  PROVE  Encoded(n) \in Nat
<1>1. Packed(n) \in Nat
  BY PackedNat
<1>2. CipherLength(Packed(n)) \in Nat
  BY <1>1 DEF CipherLength
<1>3. RsaLength(Packed(n)) \in Nat
  <2>1. Packed(n) \div (RsaSize - 11) \in Nat
    BY <1>1, RsaNumbers, Quotient
  <2> QED
    BY <2>1, RsaNumbers, Product DEF RsaLength
<1> QED
  BY <1>1, <1>2, <1>3, UserAssumption DEF TypeOK, Encoded, UserType, Ciphers

\* What alloc is asked for is some number of bytes.
LEMMA AskedNat ==
  ASSUME TypeOK, NEW n \in Nat, NEW b \in Nat \ {0}
  PROVE  Asked(n, b) \in Nat
<1>1. n + b - 1 \in Nat
  OBVIOUS
<1>2. (n + b - 1) \div b \in Nat
  BY <1>1, Quotient
<1>3. ((n + b - 1) \div b) * RsaSize \in Nat
  BY <1>2, RsaNumbers, Product
<1> QED
  BY <1>3, UserAssumption DEF TypeOK, Asked, UserType, Ciphers

\* alloc makes what was asked for fit.
LEMMA AllocFits ==
  ASSUME NEW total \in Nat, NEW n \in Nat
  PROVE  Alloc(total, n) \in Nat /\ Alloc(total, n) >= n
BY DEF Alloc

\* How far an encoding can be written past what alloc was asked for.
Spare ==
  CASE user.cipher = "cbc" -> 14
    [] user.cipher = "rsa" -> RsaSize
    [] OTHER               -> 0

\* The padding of a block cipher is sixteen bytes at most, two of which were
\* asked for; RSA writes one block too many; nothing else is padded.
LEMMA WrittenBeyond ==
  ASSUME TypeOK, NEW n \in Nat, user.cipher # "unknown"
  PROVE  Encoded(n) <= Asked(Packed(n), RsaSize - 11) + Spare
<1>1. Packed(n) \in Nat
  BY PackedNat
<1>2. CASE user.cipher = "stream"
  BY <1>1, <1>2 DEF Encoded, Asked, Spare
<1>3. CASE user.cipher = "cbc"
  BY <1>1, <1>3 DEF Encoded, Asked, Spare, CipherLength
<1>4. CASE user.cipher = "rsa"
  <2> DEFINE m == Packed(n)
             q == m \div (RsaSize - 11)
             r == (m + (RsaSize - 11) - 1) \div (RsaSize - 11)
  <2>1. m + (RsaSize - 11) - 1 \in Nat
    BY <1>1, RsaNumbers
  <2>2. q \in Nat /\ r \in Nat /\ q <= r
    BY <1>1, <2>1, RsaNumbers, Quotient, RoundedUp
  <2>3. Encoded(n) = (q + 1) * RsaSize
    BY <1>4 DEF Encoded, RsaLength
  <2>4. Asked(Packed(n), RsaSize - 11) = r * RsaSize
    BY <1>4 DEF Asked
  <2>5. Spare = RsaSize
    BY <1>4 DEF Spare
  <2> HIDE DEF q, r
  <2>6. (r - q) * RsaSize \in Nat
    <3>1. r - q \in Nat
      BY <2>2
    <3> QED
      BY <3>1, RsaNumbers, Product
  <2>7. (r - q) * RsaSize = r * RsaSize - q * RsaSize
    BY <2>2, RsaNumbers
  <2>8. (q + 1) * RsaSize = q * RsaSize + RsaSize
    BY <2>2, RsaNumbers
  <2>9. q * RsaSize \in Nat /\ r * RsaSize \in Nat
    BY <2>2, RsaNumbers, Product
  <2> QED
    BY <2>3, <2>4, <2>5, <2>6, <2>7, <2>8, <2>9, RsaNumbers
<1> QED
  BY <1>2, <1>3, <1>4, UserAssumption DEF TypeOK, UserType, Ciphers

\* A short is at most ShortMax.
LEMMA HeaderBounded ==
  ASSUME NEW n \in Nat
  PROVE  Header(n) \in Int /\ Header(n) <= ShortMax
<1>1. ShortMax \in Nat /\ 2 * (ShortMax + 1) \in Nat \ {0}
  BY SizeAssumption
<1>2. n % (2 * (ShortMax + 1)) \in 0 .. 2 * (ShortMax + 1) - 1
  BY <1>1
<1> QED
  BY <1>1, <1>2 DEF Header

-----------------------------------------------------------------------------
(* Types, growth and overruns, whatever the encoding *)

BoundedInv == TypeOK /\ GrowthBounded /\ OverrunBounded

\* New Buffers are within the bounds.
LEMMA BoundedInit == Init => BoundedInv
<1>1. <<>> \in Seq(BlockType) /\ BuffSize \in Nat /\ BuffSize <= BuffSize
  BY SizeAssumption
<1>2. ASSUME Init PROVE TypeOK /\ GrowthBounded
  BY <1>1, <1>2 DEF Init, TypeOK, GrowthBounded, Sides
<1>3. ASSUME Init PROVE OverrunBounded
  BY <1>3, RsaNumbers DEF Init, OverrunBounded
<1> QED
  BY <1>2, <1>3 DEF BoundedInv

\* A received length that is positive leaves res within the bound.
LEMMA RoomBounded ==
  ASSUME TypeOK, GrowthBounded, NEW s \in Sides, NEW h \in Int, h <= ShortMax,
         MakesRoom(s, h)
  PROVE  cap' \in [Sides -> Nat] /\ stale' \in BOOLEAN /\ GrowthBounded'
<1>0. BuffSize \in Nat /\ ShortMax \in Nat
  BY SizeAssumption
<1>1. /\ h > 0
      /\ cap' = [cap EXCEPT ![s] = Alloc(cap[s], h)]
      /\ stale' \in BOOLEAN
  BY DEF MakesRoom, TypeOK
<1>2. Alloc(cap[s], h) \in Nat
  BY <1>1, AllocFits DEF TypeOK
<1>3. Alloc(cap[s], h) = cap[s] \/ Alloc(cap[s], h) <= 2 * ShortMax
  BY <1>0, <1>1 DEF Alloc
<1> QED
  BY <1>1, <1>2, <1>3 DEF TypeOK, GrowthBounded

\* Decoding leaves dat with some capacity.
LEMMA DecodedType ==
  ASSUME TypeOK, NEW s \in Sides, NEW h \in Nat, NEW p \in Nat,
         Decodes(s, h) \/ Unpacks(s, p)
  PROVE  dat' \in [Sides -> Nat]
<1>1. Asked(h, RsaSize) \in Nat
  BY RsaNumbers, AskedNat
<1>2. Alloc(dat[s], Asked(h, RsaSize)) \in Nat
  BY <1>1, AllocFits DEF TypeOK
<1>3. Alloc(BuffSize, p) \in Nat
  BY SizeAssumption, AllocFits
<1> QED
  BY <1>2, <1>3 DEF Decodes, Unpacks, TypeOK

\* So does decoding what is no block.
LEMMA TornType ==
  ASSUME TypeOK, NEW s \in Sides, NEW h \in Nat, DecodesTorn(s, h)
  PROVE  dat' \in [Sides -> Nat]
<1>1. CASE Decodes(s, h)
  BY <1>1, DecodedType
<1>2. ASSUME NEW p \in TornSizes, p > 0, Unpacks(s, p) PROVE dat' \in [Sides -> Nat]
  <2>1. p \in Nat
    BY <1>2, BoundAssumption, SizeAssumption
  <2> QED
    BY <1>2, <2>1, DecodedType
<1> QED
  BY <1>1, <1>2 DEF DecodesTorn

\* The first block on a link and what is behind it.
LEMMA FirstBlock ==
  ASSUME TypeOK, NEW s \in Sides, link[s] # <<>>
  PROVE  /\ Head(link[s]) \in BlockType /\ Tail(link[s]) \in Seq(BlockType)
         /\ [link EXCEPT ![s] = Tail(link[s])] \in [Sides -> Seq(BlockType)]
<1>1. link[s] \in Seq(BlockType)
  BY DEF TypeOK
<1>2. Head(link[s]) \in BlockType /\ Tail(link[s]) \in Seq(BlockType)
  BY <1>1, HeadTailProperties
<1> QED
  BY <1>2 DEF TypeOK

\* Sending a block keeps the types and the bounds.
LEMMA SendBounded ==
  ASSUME BoundedInv, NEW s \in Sides, SendBlock(s)
  PROVE  BoundedInv'
<1> USE DEF BoundedInv
<1>1. PICK n \in {m \in ReadSizes : m <= cap[s]} \union {cap[s]} :
        LET total == Alloc(dat[s], Asked(Packed(n), RsaSize - 11))
            fits  == user.cipher = "unknown" \/ Encoded(n) <= total
            sent  == IF fits THEN Encoded(n) ELSE 0
        IN
          /\ dat' = [dat EXCEPT ![s] = total]
          /\ over' = IF ~fits /\ Encoded(n) - total > over
                       THEN Encoded(n) - total ELSE over
          /\ IF s = "peer" /\ sent = 0
               THEN open' = [open EXCEPT ![s] = FALSE] /\ UNCHANGED link
               ELSE /\ link' = [link EXCEPT ![Other(s)] =
                                  Append(@, [len |-> sent, plain |-> n])]
                    /\ UNCHANGED open
  BY DEF SendBlock
<1> DEFINE asked == Asked(Packed(n), RsaSize - 11)
           total == Alloc(dat[s], asked)
           fits  == user.cipher = "unknown" \/ Encoded(n) <= total
           sent  == IF fits THEN Encoded(n) ELSE 0
<1>2. n \in Nat
  BY <1>1, BoundAssumption DEF TypeOK
<1>3. Encoded(n) \in Nat /\ asked \in Nat
  BY <1>2, PackedNat, EncodedNat, AskedNat, RsaNumbers
<1>4. total \in Nat /\ total >= asked
  BY <1>3, AllocFits DEF TypeOK
<1>5. user' = user /\ cap' = cap /\ split' = split /\ stale' = stale
      /\ misread' = misread
  BY DEF SendBlock
<1>6. Spare \in Nat /\ OverrunBounded = (over <= Spare)
      /\ OverrunBounded' = (over' <= Spare)
  BY <1>5, RsaNumbers DEF Spare, OverrunBounded
<1>7. over' \in Nat /\ over' <= Spare
  <2>1. CASE over' = over
    BY <2>1, <1>6 DEF TypeOK
  <2>2. CASE ~fits /\ over' = Encoded(n) - total /\ Encoded(n) - total > over
    <3>1. Encoded(n) <= asked + Spare
      BY <1>2, <2>2, WrittenBeyond
    <3> QED
      BY <1>3, <1>4, <1>6, <2>2, <3>1 DEF TypeOK
  <2> QED
    BY <1>1, <2>1, <2>2
<1>8. link' \in [Sides -> Seq(BlockType)] /\ open' \in [Sides -> BOOLEAN]
  <2> DEFINE b == [len |-> sent, plain |-> n]
  <2>1. b \in BlockType
    BY <1>2, <1>3 DEF BlockType
  <2> HIDE DEF b
  <2>2. \A t \in Sides : Append(link[t], b) \in Seq(BlockType)
    BY <2>1, AppendProperties DEF TypeOK
  <2>3. CASE link' = [link EXCEPT ![Other(s)] = Append(@, b)] /\ open' = open
    BY <2>2, <2>3 DEF TypeOK
  <2>4. CASE open' = [open EXCEPT ![s] = FALSE] /\ link' = link
    BY <2>4 DEF TypeOK
  <2> QED
    BY <1>1, <2>3, <2>4 DEF b
<1>9. dat' \in [Sides -> Nat]
  BY <1>1, <1>4 DEF TypeOK
<1> QED
  BY <1>5, <1>6, <1>7, <1>8, <1>9 DEF TypeOK, GrowthBounded

\* So does receiving one, whole or in pieces.
LEMMA ReceiveBounded ==
  ASSUME BoundedInv, NEW s \in Sides, Receive(s)
  PROVE  BoundedInv'
<1> USE DEF BoundedInv
<1>1. link[s] # <<>>
  BY DEF Receive, RefuseBlock, RecvBlock, RecvPiece, RecvTorn
<1> DEFINE b == Head(link[s])
           h == Header(b.len)
<1>2. /\ b \in BlockType
      /\ [link EXCEPT ![s] = Tail(link[s])] \in [Sides -> Seq(BlockType)]
  BY <1>1, FirstBlock
<1>3. b.plain \in Nat /\ b.len \in Nat
  BY <1>2 DEF BlockType
<1>4. h \in Int /\ h <= ShortMax
  BY <1>3, HeaderBounded
<1> HIDE DEF b, h
<1>5. user' = user /\ over' = over
  BY DEF Receive, RefuseBlock, RecvBlock, RecvPiece, RecvTorn
<1>6. OverrunBounded'
  BY <1>5 DEF OverrunBounded
<1>7. CASE RefuseBlock(s)
  BY <1>6, <1>7 DEF RefuseBlock, TypeOK, GrowthBounded
<1>8. CASE RecvBlock(s)
  <2>1. MakesRoom(s, h) /\ (Decodes(s, h) \/ Unpacks(s, b.plain))
    BY <1>8 DEF RecvBlock, b, h
  <2>2. h \in Nat
    BY <1>4, <2>1 DEF MakesRoom
  <2>3. cap' \in [Sides -> Nat] /\ stale' \in BOOLEAN /\ GrowthBounded'
    BY <1>4, <2>1, RoomBounded
  <2>4. dat' \in [Sides -> Nat]
    BY <1>3, <2>1, <2>2, DecodedType
  <2>5. /\ link' = [link EXCEPT ![s] = Tail(link[s])]
        /\ misread' \in BOOLEAN /\ open' \in [Sides -> BOOLEAN]
        /\ split' = split
    BY <1>8 DEF RecvBlock, TypeOK
  <2> QED
    BY <1>2, <1>5, <1>6, <2>3, <2>4, <2>5 DEF TypeOK
<1>9. CASE RecvPiece(s)
  <2>1. MakesRoom(s, h)
    BY <1>9 DEF RecvPiece, b, h
  <2>2. PICK k \in TornSizes : 0 < k /\ DecodesTorn(s, k)
    BY <1>9 DEF RecvPiece
  <2>3. k \in Nat
    BY <2>2, BoundAssumption, SizeAssumption
  <2>4. cap' \in [Sides -> Nat] /\ stale' \in BOOLEAN /\ GrowthBounded'
    BY <1>4, <2>1, RoomBounded
  <2>5. dat' \in [Sides -> Nat]
    BY <2>2, <2>3, TornType
  <2>6. /\ link' = link /\ misread' = misread /\ open' = open
        /\ split' \in [Sides -> BOOLEAN]
    BY <1>9 DEF RecvPiece, TypeOK
  <2> QED
    BY <1>5, <1>6, <2>4, <2>5, <2>6 DEF TypeOK
<1>10. CASE RecvTorn(s)
  <2>1. PICK x \in TornSizes :
          \/ /\ open' = [open EXCEPT ![s] = FALSE]
             /\ UNCHANGED <<cap, dat, stale>>
          \/ MakesRoom(s, x) /\ DecodesTorn(s, x) /\ UNCHANGED open
    BY <1>10 DEF RecvTorn
  <2>2. x \in Int /\ x <= ShortMax
    BY BoundAssumption, SizeAssumption
  <2>3. /\ cap' \in [Sides -> Nat] /\ stale' \in BOOLEAN /\ GrowthBounded'
        /\ dat' \in [Sides -> Nat] /\ open' \in [Sides -> BOOLEAN]
    <3>1. CASE open' = [open EXCEPT ![s] = FALSE] /\ UNCHANGED <<cap, dat, stale>>
      BY <3>1 DEF TypeOK, GrowthBounded
    <3>2. CASE MakesRoom(s, x) /\ DecodesTorn(s, x) /\ UNCHANGED open
      <4>1. x \in Nat
        BY <2>2, <3>2 DEF MakesRoom
      <4>2. dat' \in [Sides -> Nat]
        BY <3>2, <4>1, TornType
      <4> QED
        BY <2>2, <3>2, <4>2, RoomBounded DEF TypeOK
    <3> QED
      BY <2>1, <3>1, <3>2
  <2>4. /\ link' \in [Sides -> Seq(BlockType)]
        /\ misread' \in BOOLEAN /\ split' = split
    BY <1>2, <1>10 DEF RecvTorn, TypeOK
  <2> QED
    BY <1>5, <1>6, <2>3, <2>4 DEF TypeOK
<1> QED
  BY <1>7, <1>8, <1>9, <1>10 DEF Receive

\* Every step keeps the types and the bounds.
LEMMA BoundedStep == BoundedInv /\ [Next]_vars => BoundedInv'
<1> SUFFICES ASSUME BoundedInv, [Next]_vars PROVE BoundedInv'
  OBVIOUS
<1>1. CASE UNCHANGED vars
  BY <1>1 DEF vars, BoundedInv, TypeOK, GrowthBounded, OverrunBounded
<1> QED
  BY <1>1, SendBounded, ReceiveBounded DEF Next

\* The variables of BlockSize keep their types, whatever the encoding.
THEOREM BlockSizeTypes == Spec => []TypeOK
<1>1. BoundedInv => TypeOK
  BY DEF BoundedInv
<1> QED
  BY <1>1, BoundedInit, BoundedStep, PTL DEF Spec

\* Whatever the encoding adds, and whatever a torn stream is read as, no
\* Buffer grows past twice the largest length that recvall accepts
\* (Buffer::alloc behind recvall).
THEOREM GrowthIsBounded == Spec => []GrowthBounded
<1>1. BoundedInv => GrowthBounded
  BY DEF BoundedInv
<1> QED
  BY <1>1, BoundedInit, BoundedStep, PTL DEF Spec

\* Crypto::encode writes at most fourteen bytes and rsa_encode at most one
\* block past the end of the Buffer that they made room in.
THEOREM OverrunIsBounded == Spec => []OverrunBounded
<1>1. BoundedInv => OverrunBounded
  BY DEF BoundedInv
<1> QED
  BY <1>1, BoundedInit, BoundedStep, PTL DEF Spec

-----------------------------------------------------------------------------
(* Blocks that keep the length of their data *)

\* The blocks that fit a Buffer of the initial capacity.
Small == 1 .. BuffSize
SmallBlock == [len : Small, plain : Nat]

\* The strengthening: with a stream cipher both capacities stay what they
\* were, and every block in flight fits both a Buffer and a short.
StreamFacts ==
  /\ \A s \in Sides : cap[s] = BuffSize
  /\ \A s \in Sides : link[s] \in Seq(SmallBlock)
  /\ ~stale /\ ~misread

StreamInv == BoundedInv /\ (KeepsLength /\ Whole => StreamFacts)

\* A length that a Buffer holds is read back as it was written.
LEMMA HeaderOfSmall ==
  ASSUME NEW n \in Small
  PROVE  Header(n) = n
<1>1. n \in Nat /\ n <= ShortMax /\ ShortMax \in Nat
  BY SizeAssumption DEF Small
<1>2. n % (2 * (ShortMax + 1)) = n
  BY <1>1
<1> QED
  BY <1>1, <1>2 DEF Header

\* New Buffers and empty links satisfy the strengthening.
LEMMA StreamInit == Init => StreamInv
<1>1. <<>> \in Seq(SmallBlock)
  OBVIOUS
<1> QED
  BY <1>1, BoundedInit DEF Init, StreamInv, StreamFacts, Sides

\* A block that keeps its length always fits dat.
LEMMA StreamFits ==
  ASSUME TypeOK, KeepsLength, NEW n \in Nat, NEW d \in Nat
  PROVE  /\ Encoded(n) = n
         /\ \/ user.cipher = "unknown"
            \/ Encoded(n) <= Alloc(d, Asked(Packed(n), RsaSize - 11))
<1>1. CASE user.cipher = "unknown"
  BY <1>1 DEF Encoded
<1>2. CASE user.cipher = "stream" /\ ~user.compress
  BY <1>2 DEF Encoded, Packed, Asked, Alloc
<1> QED
  BY <1>1, <1>2 DEF KeepsLength

\* A stream cipher sends what it read, so a block fits the reader's Buffer.
LEMMA StreamFactsStep ==
  ASSUME KeepsLength, Whole, Whole', TypeOK, StreamFacts, [Next]_vars
  PROVE  StreamFacts'
<1> USE DEF Sides, Other
<1>0. BuffSize \in Nat /\ BuffSize >= 1
  BY SizeAssumption
<1>1. ASSUME NEW s \in Sides, SendBlock(s) PROVE StreamFacts'
  <2>1. PICK n \in {m \in ReadSizes : m <= cap[s]} \union {cap[s]} :
          LET total == Alloc(dat[s], Asked(Packed(n), RsaSize - 11))
              fits  == user.cipher = "unknown" \/ Encoded(n) <= total
              sent  == IF fits THEN Encoded(n) ELSE 0
          IN  IF s = "peer" /\ sent = 0
                THEN UNCHANGED link
                ELSE link' = [link EXCEPT ![Other(s)] =
                                Append(@, [len |-> sent, plain |-> n])]
    BY <1>1 DEF SendBlock
  <2>2. n \in Small
    BY <2>1, <1>0, BoundAssumption DEF StreamFacts, Small
  <2>3. /\ Encoded(n) = n
        /\ \/ user.cipher = "unknown"
           \/ Encoded(n) <= Alloc(dat[s], Asked(Packed(n), RsaSize - 11))
    BY <2>2, StreamFits DEF Small, TypeOK
  <2> DEFINE b == [len |-> n, plain |-> n]
  <2>4. link' = [link EXCEPT ![Other(s)] = Append(@, b)] \/ link' = link
    BY <2>1, <2>3
  <2>5. b \in SmallBlock
    BY <2>2 DEF SmallBlock, Small
  <2> HIDE DEF b
  <2>6. \A t \in Sides : Append(link[t], b) \in Seq(SmallBlock)
    BY <2>5, AppendProperties DEF StreamFacts
  <2>7. \A t \in Sides : link'[t] \in Seq(SmallBlock)
    BY <2>4, <2>6 DEF StreamFacts, TypeOK
  <2> QED
    BY <1>1, <2>7 DEF SendBlock, StreamFacts
<1>2. ASSUME NEW s \in Sides, Receive(s) PROVE StreamFacts'
  <2>1. link[s] \in Seq(SmallBlock) /\ link[s] # <<>>
    BY <1>2 DEF Receive, RefuseBlock, RecvBlock, RecvPiece, RecvTorn, StreamFacts
  <2>2. Head(link[s]) \in SmallBlock /\ Tail(link[s]) \in Seq(SmallBlock)
    BY <2>1, HeadTailProperties
  <2> DEFINE n == Head(link[s]).len
  <2>3. n \in Small
    BY <2>2 DEF SmallBlock
  <2>4. Header(n) = n
    BY <2>3, HeaderOfSmall
  <2>5. CASE RefuseBlock(s)
    BY <1>0, <2>3, <2>4, <2>5 DEF RefuseBlock, Small
  <2>6. CASE RecvBlock(s)
    <3>1. MakesRoom(s, n) /\ ~misread'
      <4>1. MakesRoom(s, Header(n)) /\ misread' = (misread \/ Header(n) # n)
        BY <2>6 DEF RecvBlock
      <4> QED
        BY <2>4, <4>1 DEF StreamFacts
    <3>2. cap[s] = BuffSize /\ ~(n > cap[s])
      BY <1>0, <2>3 DEF StreamFacts, Small
    <3>3. Alloc(cap[s], n) = cap[s]
      BY <3>2 DEF Alloc
    <3>4. cap' = cap /\ stale' = stale
      BY <3>1, <3>2, <3>3 DEF MakesRoom, StreamFacts, TypeOK
    <3>5. \A t \in Sides : link'[t] \in Seq(SmallBlock)
      BY <2>2, <2>6 DEF RecvBlock, StreamFacts, TypeOK
    <3> QED
      BY <3>1, <3>4, <3>5 DEF StreamFacts
  <2>7. CASE RecvPiece(s)
    BY <2>7 DEF RecvPiece, Whole, TypeOK
  <2>8. CASE RecvTorn(s)
    BY <2>8 DEF RecvTorn, Whole
  <2> QED
    BY <1>2, <2>5, <2>6, <2>7, <2>8 DEF Receive
<1>3. CASE UNCHANGED vars
  BY <1>3 DEF vars, StreamFacts
<1> QED
  BY <1>1, <1>2, <1>3 DEF Next

\* Every step keeps the strengthening.
LEMMA StreamStep == StreamInv /\ [Next]_vars => StreamInv'
<1> SUFFICES ASSUME StreamInv, [Next]_vars PROVE StreamInv'
  OBVIOUS
<1>1. BoundedInv' /\ user' = user /\ (Whole' => Whole)
  BY BoundedStep, OnceTorn DEF StreamInv, BoundedInv
<1> QED
  BY <1>1, StreamFactsStep DEF StreamInv, BoundedInv, KeepsLength

\* With a stream cipher and no compression the Buffers of the two relay loops
\* never grow, and local_read never uses the pointer it took before a
\* reallocation (local_read, stage_strm_connect, Buffer::alloc).
THEOREM StreamNoGrowth == Spec => []NoGrowth
<1>1. StreamInv => NoGrowth
  BY DEF StreamInv, StreamFacts, NoGrowth
<1> QED
  BY <1>1, StreamInit, StreamStep, PTL DEF Spec

\* And every receiver reads the length that was sent (sendall, recvall).
THEOREM StreamLengthsAgree == Spec => []StreamLengths
<1>1. StreamInv => StreamLengths
  BY DEF StreamInv, StreamFacts, StreamLengths
<1> QED
  BY <1>1, StreamInit, StreamStep, PTL DEF Spec
=============================================================================
