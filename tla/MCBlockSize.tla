---------------------------- MODULE MCBlockSize ----------------------------
(* Instances of BlockSize for TLC, with the sizes of the source: a Buffer of *)
(* 256 bytes and a 16-bit short, and a key of 2048 bits.                      *)
EXTENDS BlockSize

\* One byte, a chunk that fills an RSA block and leaves no rest, and one that
\* two spare bytes do not make up for.
MCReadSizes == {1, 245, 512}
MCUsers == UserType

\* Pieces of one byte, the largest short, and what ends the loop.
MCTornSizes == {-1, 1, ShortMax}
=============================================================================
