-------------------------------- MODULE Lzss --------------------------------
(***************************************************************************)
(* The compression of User::encode and the decompression of User::decode:   *)
(* Crypto::lzss_encode and Crypto::lzss_decode, one turn of their loops per *)
(* action.  The output is a sequence of bytes behind a header of four that  *)
(* holds the length of the input: groups of a control byte and the items    *)
(* its bits describe, each a literal byte or two bytes that refer to a      *)
(* pattern in the window of bytes before it.                                *)
(***************************************************************************)
EXTENDS Integers, Sequences

CONSTANTS
  Widths,     \* the values of LENGTHBITS tried: 4 in the code
  Inputs(_)   \* the inputs tried, for bytes of the given bits

\* The powers of two, of which the widths in bits and the shifts are made.
Pow2[n \in Nat] == IF n = 0 THEN 1 ELSE 2 * Pow2[n - 1]

\* User::encode is called with at least one byte.
ASSUME InputsAssumption ==
  /\ Widths \subseteq Nat \ {0}
  /\ \A w \in Widths : Inputs(2 * w) \subseteq Seq(0 .. Pow2[2 * w] - 1) \ {<<>>}

VARIABLES
  LengthBits, \* LENGTHBITS; the other widths follow from it, as 12 and 8 from 4
  pc,       \* encode, decode, done
  data,     \* the input
  tail,     \* position of the next byte to encode
  count,    \* items in the group (control_count)
  control,  \* the bits of the control byte that are known, or are left
  group,    \* the bytes of the group behind its control byte
  out,      \* the output behind its header
  src,      \* position of the next byte to decode
  dst       \* the decoded bytes

vars == <<LengthBits, pc, data, tail, count, control, group, out, src, dst>>

ByteBits == 2 * LengthBits      \* also the number of items in a group
OffsetBits == 3 * LengthBits
WindowSize == Pow2[OffsetBits]
MaxPattern == Pow2[LengthBits] + 1
Garbage == Pow2[ByteBits]      \* what is read outside of an array: no byte
Byte == 0 .. Pow2[ByteBits] - 1

Init ==
  /\ LengthBits \in Widths
  /\ pc = "encode"
  /\ data \in Inputs(ByteBits)
  /\ tail = 1 /\ src = 1
  /\ count = 0 /\ control = 0
  /\ group = <<>> /\ out = <<>> /\ dst = <<>>

-----------------------------------------------------------------------------
(* The pattern for the bytes at tail *)

WindowStart == IF tail - WindowSize > 1 THEN tail - WindowSize ELSE 1

\* Mutant of Matches: a pattern may begin at the very start of the window.
MatchesAtStart(p, i) ==
  \A j \in 0 .. i - 1 :
    /\ WindowStart <= p + j /\ p + j < tail
    /\ tail + j <= Len(data) /\ data[p + j] = data[tail + j]

\* The i bytes from p on are those from tail on.  They lie inside the window,
\* without its first byte, and end before tail.
Matches(p, i) ==
  \A j \in 0 .. i - 1 :
    /\ WindowStart < p + j /\ p + j < tail
    /\ tail + j <= Len(data) /\ data[p + j] = data[tail + j]

MatchLength(p) ==
  CHOOSE i \in 0 .. MaxPattern :
    Matches(p, i) /\ (i = MaxPattern \/ ~Matches(p, i + 1))

\* The longest match, and of several the nearest.
BestMatch ==
  CHOOSE p \in WindowStart .. tail - 1 :
    LET n == MatchLength(p)
    IN  \A q \in WindowStart .. tail - 1 :
          MatchLength(q) < n \/ (MatchLength(q) = n /\ q <= p)

\* Mutant of WorthSaving: any match is saved as a pattern.
AnyIsWorth(n) == n > 0

\* Only patterns of more than two bytes are shorter than what they replace.
WorthSaving(n) == n > 2

PatternBytes(offset, n) ==
  << (offset \div Pow2[LengthBits]) % Pow2[ByteBits],
     (offset * Pow2[LengthBits] + n - 2) % Pow2[ByteBits] >>

-----------------------------------------------------------------------------
(* lzss_encode *)

Full == count >= ByteBits
Flushed == out \o <<control>> \o group

\* One turn: a full group is moved to the output; then the next item is a
\* pattern, if one is worth it, or a literal byte.
EncodeItem ==
  /\ pc = "encode" /\ tail <= Len(data)
  /\ LET best  == IF tail > 1 THEN BestMatch ELSE 0
         size  == IF tail > 1 THEN MatchLength(best) ELSE 0
         bits  == IF Full THEN 0 ELSE control
         bytes == IF Full THEN <<>> ELSE group
     IN  IF WorthSaving(size)
           THEN /\ control' = 2 * bits + 1
                /\ group' = bytes \o PatternBytes(tail - best, size)
                /\ tail' = tail + size
           ELSE /\ control' = 2 * bits
                /\ group' = Append(bytes, data[tail])
                /\ tail' = tail + 1
  /\ out' = IF Full THEN Flushed ELSE out
  /\ count' = IF Full THEN 1 ELSE count + 1
  /\ UNCHANGED <<LengthBits, pc, data, src, dst>>

\* The last turn: the last group is moved to the output with its bits shifted
\* into place; a full one is followed by an empty one.  Then lzss_decode
\* reads its first control byte.
EncodeEnd ==
  /\ pc = "encode" /\ tail > Len(data)
  /\ out' = IF Full
              THEN Append(Flushed, 0)
              ELSE out \o <<control * Pow2[ByteBits - count]>> \o group
  /\ control' = out'[1]
  /\ src' = 2
  /\ count' = 0
  /\ pc' = "decode"
  /\ UNCHANGED <<LengthBits, data, tail, group, dst>>

-----------------------------------------------------------------------------
(* lzss_decode *)

ByteAt(s) == IF s <= Len(out) THEN out[s] ELSE Garbage

\* The copy of n decoded bytes from offset bytes back.
Copied(offset, n) ==
  [i \in 1 .. n |->
     IF offset \in 1 .. Len(dst)
       THEN dst[Len(dst) - offset + ((i - 1) % offset) + 1]
       ELSE Garbage]

\* Mutant of More: the length is counted from behind the header of four bytes.
MoreByHeader == src <= Len(out) + 4

\* The loop looks for the end before it reads a control byte, but not after.
More == src <= Len(out)

\* One turn: the next control byte when the bits are used up, and an item.
DecodeItem ==
  /\ pc = "decode" /\ More
  /\ LET bits == IF Full THEN ByteAt(src) ELSE control
         s    == IF Full THEN src + 1 ELSE src
         high == Pow2[ByteBits - 1]
     IN  /\ control' = (2 * bits) % Pow2[ByteBits]
         /\ IF bits >= high
              THEN LET low == ByteAt(s + 1)
                       offset == ByteAt(s) * Pow2[LengthBits]
                                   \* the bits of low above the length
                                   + low \div Pow2[LengthBits]
                   IN  /\ dst' = dst \o Copied(offset, (low % Pow2[LengthBits]) + 2)
                       /\ src' = s + 2
              ELSE /\ dst' = Append(dst, ByteAt(s))
                   /\ src' = s + 1
  /\ count' = IF Full THEN 1 ELSE count + 1
  /\ UNCHANGED <<LengthBits, pc, data, tail, group, out>>

DecodeEnd ==
  /\ pc = "decode" /\ ~More
  /\ pc' = "done"
  /\ UNCHANGED <<LengthBits, data, tail, count, control, group, out, src, dst>>

Next == EncodeItem \/ EncodeEnd \/ DecodeItem \/ DecodeEnd

Spec == Init /\ [][Next]_vars

-----------------------------------------------------------------------------
(* Properties *)

\* Decoding gives back what was encoded: every decoded byte within the
\* announced size is the input's, and all of them are there in the end.
RoundTrip ==
  /\ \A i \in DOMAIN dst : i <= Len(data) => dst[i] = data[i]
  /\ pc = "done" => Len(dst) >= Len(data)

\* No buffer is overrun by more than a byte: a group of the encoder never
\* outgrows buf, two bytes per item and the control byte, and the decoder
\* writes past the announced size by at most one byte, the empty item of a
\* control byte that has none.
OverrunByOne ==
  /\ Len(group) <= 2 * ByteBits
  /\ Len(dst) <= Len(data) + 1

\* No input grows by more than data without patterns does: four bytes of
\* header, a control byte per group of literals, and a trailing one
\* (LzssLength in module BlockSize).
GrowthOfLiterals ==
  pc # "encode" => 4 + Len(out) <= Len(data) + Len(data) \div ByteBits + 5
=============================================================================
