------------------------------ MODULE MCLzss ------------------------------
(* An instance of Lzss for TLC: lengths of one and two bits.  With one bit   *)
(* bytes have two, groups two items and the window eight bytes, fewer than   *)
(* the longest inputs have; with two bits patterns have three to five bytes. *)
EXTENDS Lzss

CONSTANTS MaxLen

MCInputs(b) == UNION {[1 .. n -> {0, Pow2[b] - 1}] : n \in 1 .. MaxLen}
===========================================================================
