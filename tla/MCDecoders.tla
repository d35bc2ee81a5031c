----------------------------- MODULE MCDecoders -----------------------------
(* ARC's codes of 3 and 4 bits for bytes of 2, in blocks of 2; V1 codes of *)
(* 3 bits; a CrLZH ring of 8 bytes with matches of up to 4; a line of      *)
(* MBASIC that the longest operand just fits; names of up to 2 bytes.      *)
EXTENDS Decoders
MCCodeLen == [c \in 0 .. 2 |-> IF c = 0 THEN 1 ELSE 2]
MCLowBits == [v2 \in BOOLEAN |-> IF v2 THEN 1 ELSE 2]
=============================================================================
