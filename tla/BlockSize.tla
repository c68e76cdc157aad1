----------------------------- MODULE BlockSize -----------------------------
(***************************************************************************)
(* Sizes on the link between the client program (Proxy::local_read) and the *)
(* server program (Peer::stage_strm_connect).  Each side reads plain data   *)
(* into a Buffer, up to its capacity, encodes it and sends it as one block  *)
(* behind a two-byte length; the other side reads the length as a short,    *)
(* grows its own Buffer to hold the block, and from then on also reads      *)
(* larger chunks of plain data.  What is encoded or decoded goes through a  *)
(* second Buffer, dat.  Payload is abstracted to its length.                *)
(***************************************************************************)
EXTENDS Integers, Sequences

CONSTANTS
  BuffSize,     \* BUFF_SIZE: the capacity of a new Buffer
  ShortMax,     \* the largest value of a short (SHRT_MAX)
  RsaSize,      \* RSA_size of the user's key: bytes of a block
  Users,        \* the users tried: what their descriptions say
  LinkCap,      \* bound: blocks in flight in each direction
  ReadSizes,    \* bound: the chunk lengths tried, beside the capacity
  TornSizes     \* bound: the lengths tried for pieces of blocks, and for what
                \* is taken for a length when it is none

ASSUME SizeAssumption ==
  /\ BuffSize \in Nat \ {0} /\ ShortMax \in Nat
  /\ BuffSize <= ShortMax

\* set_ciphername - unknown: a name OpenSSL does not know; stream: a stream
\* cipher; cbc: one with blocks of 16 bytes; rsa: blocks encrypted with the
\* user's key, each with eleven bytes of padding.
Ciphers == {"unknown", "stream", "cbc", "rsa"}

\* What User::User takes from a user's description: the cipher and, from the
\* tags, whether to compress.
UserType == [cipher : Ciphers, compress : BOOLEAN]

ASSUME UserAssumption == Users \subseteq UserType
ASSUME RsaAssumption == RsaSize \in Nat /\ RsaSize > 11
ASSUME BoundAssumption ==
  /\ LinkCap \in Nat /\ ReadSizes \subseteq Nat \ {0}
  /\ TornSizes \subseteq -ShortMax .. ShortMax

Sides == {"proxy", "peer"}
Other(s) == IF s = "proxy" THEN "peer" ELSE "proxy"

VARIABLES
  user,     \* the user of this session
  cap,      \* cap[s]: res.capacity() on side s
  dat,      \* dat[s]: dat.capacity() on side s
  link,     \* link[s]: the blocks on their way to s
  split,    \* split[s]: s got a piece of a block for a block
  open,     \* open[s]: side s is still in its relay loop
  stale,    \* local_read used a pointer into a Buffer that had moved
  misread,  \* some receiver took a length that was not the block's
  over      \* by how much at most an encoding was written past the end of dat

vars == <<user, cap, dat, link, split, open, stale, misread, over>>

\* A block: its length and that of the plain data in it.
BlockType == [len : Nat, plain : Nat]

Init ==
  /\ user \in Users
  /\ cap = [s \in Sides |-> BuffSize]
  /\ dat = [s \in Sides |-> BuffSize]
  /\ link = [s \in Sides |-> <<>>]
  /\ split = [s \in Sides |-> FALSE]
  /\ open = [s \in Sides |-> TRUE]
  /\ stale = FALSE
  /\ misread = FALSE
  /\ over = 0

-----------------------------------------------------------------------------
(* Lengths *)

\* What Crypto::lzss_encode makes of n bytes without a pattern in them: four
\* bytes of length, a control byte per eight literals, and a trailing one.
LzssLength(n) == n + n \div 8 + 5

\* What Crypto::encode makes of n bytes with a cipher of 16-byte blocks: the
\* padding fills the last block, or is one.
CipherLength(n) == (n \div 16 + 1) * 16

\* What Crypto::rsa_encode makes of n bytes: every full block and one more for
\* the rest, which is encrypted even when it is empty.
RsaLength(n) == (n \div (RsaSize - 11) + 1) * RsaSize

\* Mutant of Encoded: the two bytes of the length are not counted.
LengthWithoutPrefix(n) == n - 2

\* What lzss_encode leaves of n bytes, which no pattern is in.
Packed(n) == IF user.compress THEN LzssLength(n) ELSE n

\* The length of the block User::encode makes of n bytes.  With an unknown
\* cipher it fails and the n bytes are sent as they are.
Encoded(n) ==
  CASE user.cipher = "unknown" -> n
    [] user.cipher = "stream"  -> Packed(n)
    [] user.cipher = "cbc"     -> CipherLength(Packed(n))
    [] user.cipher = "rsa"     -> RsaLength(Packed(n))

\* Mutant of Asked: nothing to spare.
AskedExactly(n, block) == n

\* What Crypto::encode and rsa_encode ask alloc for, to hold what becomes of
\* n bytes: two spare bytes, or blocks of RsaSize bytes, one for every
\* "block" bytes or a part of them.
Asked(n, block) ==
  CASE user.cipher = "unknown" -> 0
    [] user.cipher = "rsa"     -> ((n + block - 1) \div block) * RsaSize
    [] OTHER                   -> n + 2

\* Mutant of Header: the length is one byte.
ByteHeader(n) == n % 256

\* What recvall reads back of the length that sendall wrote: (short) n.
Header(n) ==
  LET m == n % (2 * (ShortMax + 1))
  IN  IF m > ShortMax THEN m - 2 * (ShortMax + 1) ELSE m

\* Mutant of Alloc: twice the old and the new size together.
AllocTooMuch(total, n) == IF n > total THEN 2 * (total + n) ELSE total

\* Buffer::alloc(n): twice what is asked for when it does not fit.
Alloc(total, n) == IF n > total THEN 2 * n ELSE total

-----------------------------------------------------------------------------
(* The two relay loops *)

\* Mutant of SendBlock: the read is one byte larger than the Buffer.
SendBlockOver(s) ==
  /\ open[s]
  /\ Len(link[Other(s)]) < LinkCap
  /\ link' = [link EXCEPT ![Other(s)] =
                Append(@, [len |-> Encoded(cap[s] + 1), plain |-> cap[s] + 1])]
  /\ UNCHANGED <<user, cap, dat, split, open, stale, misread, over>>

\* Side s reads a chunk of plain data (from the application or the target)
\* and sends it to the other side as one block.  When the encoding did not
\* fit into dat, Buffer::resize refuses its size and it counts as empty: the
\* peer gives up, and the proxy sends a block of no bytes.
SendBlock(s) ==
  /\ open[s]
  /\ Len(link[Other(s)]) < LinkCap
  /\ \E n \in {m \in ReadSizes : m <= cap[s]} \union {cap[s]} :
       LET total == Alloc(dat[s], Asked(Packed(n), RsaSize - 11))
           fits  == user.cipher = "unknown" \/ Encoded(n) <= total
           sent  == IF fits THEN Encoded(n) ELSE 0
       IN
         /\ dat' = [dat EXCEPT ![s] = total]
         /\ over' = IF ~fits /\ Encoded(n) - total > over
                      THEN Encoded(n) - total ELSE over
         /\ IF s = "peer" /\ sent = 0
              THEN open' = [open EXCEPT ![s] = FALSE] /\ UNCHANGED link
              ELSE /\ link' = [link EXCEPT ![Other(s)] =
                                 Append(@, [len |-> sent, plain |-> n])]
                   /\ UNCHANGED open
  /\ UNCHANGED <<user, cap, split, stale, misread>>

\* recvall got a length that is not positive: the loop of s ends.
RefuseBlock(s) ==
  /\ open[s] /\ link[s] # <<>> /\ ~split[s]
  /\ LET b == Head(link[s]) IN
       /\ Header(b.len) <= 0
       /\ misread' = (misread \/ Header(b.len) # b.len)
  /\ open' = [open EXCEPT ![s] = FALSE]
  /\ UNCHANGED <<user, cap, dat, link, split, stale, over>>

\* Room for h bytes in res.  local_read took res.ptr() before recvall,
\* stage_strm_connect after.
MakesRoom(s, h) ==
  /\ h > 0
  /\ cap' = [cap EXCEPT ![s] = Alloc(@, h)]
  /\ stale' = (stale \/ (s = "proxy" /\ h > cap[s]))

\* h bytes are decoded into dat.
Decodes(s, h) == dat' = [dat EXCEPT ![s] = Alloc(@, Asked(h, RsaSize))]

\* What lzss_decode made of them, in a Buffer of its own, replaces it.
Unpacks(s, plain) == dat' = [dat EXCEPT ![s] = Alloc(BuffSize, plain)]

\* recvall makes room for the block and reads it; s decodes it and passes it
\* on.
RecvBlock(s) ==
  /\ open[s] /\ link[s] # <<>> /\ ~split[s]
  /\ LET b == Head(link[s])
         h == Header(b.len)
     IN  /\ MakesRoom(s, h)
         /\ IF user.compress /\ user.cipher # "unknown"
              THEN Unpacks(s, b.plain) ELSE Decodes(s, h)
         /\ misread' = (misread \/ h # b.len)
         \* after a wrong length the rest of the stream is not looked at
         /\ open' = [open EXCEPT ![s] = (h = b.len)]
  /\ link' = [link EXCEPT ![s] = Tail(@)]
  /\ UNCHANGED <<user, split, over>>

\* The same with bytes that are no block: decode may fail or unpack them to
\* anything.
DecodesTorn(s, h) ==
  \/ Decodes(s, h)
  \/ user.compress /\ \E p \in TornSizes : p > 0 /\ Unpacks(s, p)

\* The one recv for the block returns only a piece of it, which is decoded
\* and passed on as if it were all.
RecvPiece(s) ==
  /\ open[s] /\ link[s] # <<>> /\ ~split[s]
  /\ LET h == Header(Head(link[s]).len) IN
       /\ MakesRoom(s, h)
       /\ \E k \in TornSizes : 0 < k /\ k < h /\ DecodesTorn(s, k)
  /\ split' = [split EXCEPT ![s] = TRUE]
  /\ UNCHANGED <<user, link, open, misread, over>>

\* From then on any two bytes may be taken for a length, and what follows them
\* for a block.
RecvTorn(s) ==
  /\ open[s] /\ link[s] # <<>> /\ split[s]
  /\ misread' = TRUE
  /\ \E h \in TornSizes :
       \/ /\ h <= 0
          /\ open' = [open EXCEPT ![s] = FALSE]
          /\ UNCHANGED <<cap, dat, stale>>
       \/ /\ MakesRoom(s, h)
          /\ DecodesTorn(s, h)
          /\ UNCHANGED open
  /\ \/ UNCHANGED link
     \/ link' = [link EXCEPT ![s] = Tail(@)]
  /\ UNCHANGED <<user, split, over>>

Receive(s) ==
  RefuseBlock(s) \/ RecvBlock(s) \/ RecvPiece(s) \/ RecvTorn(s)

Next == \E s \in Sides : SendBlock(s) \/ Receive(s)

Spec == Init /\ [][Next]_vars

-----------------------------------------------------------------------------
(* Properties *)

\* Blocks are as long as the data in them.
KeepsLength ==
  \/ user.cipher = "unknown"
  \/ user.cipher = "stream" /\ ~user.compress

\* TCP delivered every block so far in one piece.
Whole == \A s \in Sides : ~split[s]

\* The variables have their types.
TypeOK ==
  /\ user \in Users
  /\ cap \in [Sides -> Nat]
  /\ dat \in [Sides -> Nat]
  /\ link \in [Sides -> Seq(BlockType)]
  /\ split \in [Sides -> BOOLEAN]
  /\ open \in [Sides -> BOOLEAN]
  /\ stale \in BOOLEAN
  /\ misread \in BOOLEAN
  /\ over \in Nat

\* Without compression and with a stream cipher every receiver reads the
\* length of the block that was sent, as long as blocks arrive whole: no length
\* leaves the range of a short (sendall, recvall and the two relay loops
\* together).
StreamLengths == KeepsLength /\ Whole => ~misread

\* Without expansion the two Buffers feed each other's read size but never
\* grow: what one side reads fits the other's capacity.  So local_read decodes
\* what recvall received: the pointer it took before the call is still the
\* Buffer's.
NoGrowth ==
  KeepsLength /\ Whole => ~stale /\ \A s \in Sides : cap[s] = BuffSize

\* However the encoding expands, and whatever is taken for a length behind a
\* torn block, a Buffer never grows past twice the largest length a block can
\* announce.
GrowthBounded ==
  \A s \in Sides : cap[s] <= BuffSize \/ cap[s] <= 2 * ShortMax

\* An encoding is written past the end of dat by less than a block of its
\* cipher, or one block of RSA, and never where blocks have no padding:
\* whatever dat was left at by earlier blocks of either direction.
OverrunBounded ==
  over <= CASE user.cipher = "cbc" -> 14
            [] user.cipher = "rsa" -> RsaSize
            [] OTHER               -> 0
-----------------------------------------------------------------------------
(* A claim of the source that the code does not keep *)

\* utils.cpp:191 and 211: the two bytes in front of a block are its length.
\* So no receiver of whole blocks ever reads a length that is not that of the
\* block sent.
LengthsAgree == Whole => ~misread
=============================================================================
