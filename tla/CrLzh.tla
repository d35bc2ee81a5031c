-------------------------------- MODULE CrLzh -------------------------------
(***************************************************************************)
(* What the CrLZH decoders do with the symbols of the Huffman tree (which  *)
(* LzhTree models): uncrlzh of src/un80/crlzh.py, which src/plm/lzh.plm    *)
(* follows line by line.  A byte stands for itself; a match is a length    *)
(* and a distance back, coded in bits of its own, and is copied byte by    *)
(* byte out of a ring of the last bytes written.                           *)
(***************************************************************************)
EXTENDS Lockstep

CONSTANTS N,            \* bytes of the ring: 2048
          F,            \* the longest match: 60
          THRESHOLD,    \* matches are longer: 2
          LzhUsed,      \* the bytes that occur
          Space,        \* what the ring holds at first
          LzhByte,      \* bits of a byte: 8
          CodeLen,      \* bits of the code of each of the upper parts of a position
          LowBits,      \* bits of its lower part: 6 before version 2.0, 5 from it on
          LzhOut        \* bytes of output, at most (a bound of the model)

Uppers == DOMAIN CodeLen                \* 0 .. 63
LzhBytes == Bits(LzhByte)

\* The first of the bytes that begin with the code of c: the codes follow one
\* another, the shortest first.
FirstOf[c \in Uppers] == IF c = 0 THEN 0 ELSE FirstOf[c - 1] + 2 ^ (LzhByte - CodeLen[c - 1])

ASSUME LzhAssumption == N \in Nat \ {0} /\ F \in 1 .. N /\ THRESHOLD \in Nat

\* The codes use up the bytes, a byte's worth of bits being the longest, and what
\* a byte has left after a code is no more than the lower part.
ASSUME CodesAssumption ==
    /\ IsFiniteSet(Uppers) /\ Uppers # {} /\ Uppers = 0 .. Cardinality(Uppers) - 1
    /\ LzhByte \in Nat /\ LowBits \in [BOOLEAN -> Nat]
    /\ \A c \in Uppers : /\ CodeLen[c] \in 0 .. LzhByte
                         /\ \A v2 \in BOOLEAN : LzhByte - CodeLen[c] <= LowBits[v2]
                         /\ c + 1 \in Uppers => CodeLen[c] <= CodeLen[c + 1]
    /\ FirstOf[Cardinality(Uppers) - 1] + 1 = 2 ^ LzhByte
    /\ \A v2 \in BOOLEAN : Powers(LzhByte + LowBits[v2])

D_CODE == [i \in LzhBytes |-> CHOOSE c \in Uppers :
             FirstOf[c] <= i /\ i < FirstOf[c] + 2 ^ (LzhByte - CodeLen[c])]
D_LEN == [i \in LzhBytes |-> CodeLen[D_CODE[i]]]
-----------------------------------------------------------------------------
\* Positions have 11 bits from version 2.0 on, and 12 before.
Low == LowBits[in.v2]

\* decode_position_v1 and _v2: a byte, and as many bits after it as its code
\* leaves of the lower part still to come
Further(i) == IF Low - (LzhByte - D_LEN[i]) < 0 THEN 0 ELSE Low - (LzhByte - D_LEN[i])
Position(i, more) == D_CODE[i] * 2 ^ Low + ((i * 2 ^ Further(i) + more) % 2 ^ Low)

LzhStart == /\ \E version \in {31, 32, 33} :
                 /\ in = [v2 |-> version >= 32, value |-> 0, count |-> 0]
                 /\ py = [ring |-> [i \in 0 .. N - 1 |-> Space], r |-> N - F, i |-> 0, left |-> 0,
                          out |-> <<>>, done |-> version >= 33]
            /\ plm = <<>>

LzhReads == ~py.done /\ py.left = 0 /\ Len(py.out) < LzhOut

Written(b) == [py EXCEPT !.out = Append(@, b), !.ring[py.r] = b, !.r = (@ + 1) % N]

LzhLiteral == /\ LzhReads
              /\ \E b \in LzhUsed : py' = Written(b)
              /\ UNCHANGED <<in, plm>>

LzhMatch == /\ LzhReads
            /\ \E length \in THRESHOLD + 1 .. F, i \in LzhBytes : \E more \in Bits(Further(i)) :
                 /\ py' = [py EXCEPT !.left = length, !.i = (py.r - Position(i, more) - 1) % N]
                 /\ in' = [in EXCEPT !.value = i * 2 ^ Further(i) + more, !.count = LzhByte + Further(i)]
            /\ UNCHANGED plm

\* Mutant of LzhCopy: the ring is not told of the bytes of a match.
LzhCopyOut == /\ py.left > 0
              /\ py' = [py EXCEPT !.out = Append(@, py.ring[py.i]), !.r = (@ + 1) % N,
                                  !.i = (@ + 1) % N, !.left = @ - 1]
              /\ UNCHANGED <<in, plm>>

\* A byte of a match, which may be one that the match itself has written
LzhCopy == /\ py.left > 0
           /\ py' = [Written(py.ring[py.i]) EXCEPT !.i = (@ + 1) % N, !.left = @ - 1]
           /\ UNCHANGED <<in, plm>>

LzhStop == /\ LzhReads
           /\ py' = [py EXCEPT !.done = TRUE]
           /\ UNCHANGED <<in, plm>>

LzhNext == LzhLiteral \/ LzhMatch \/ LzhCopy \/ LzhStop
-----------------------------------------------------------------------------
\* The byte written k bytes ago, as if spaces had been written before all
Ago(k) == IF k <= Len(py.out) THEN py.out[Len(py.out) + 1 - k] ELSE Space

\* The ring is the output: no byte of it is overtaken by its own copy, and it
\* goes round where the positions do.
RingIsOutput == \A k \in 1 .. N : py.ring[(py.r - k) % N] = Ago(k)

\* The bits of a position: the code of its upper part, then its lower part
Coded(pos) == LET c == pos \div 2 ^ Low
              IN  /\ in.count = CodeLen[c] + Low
                  /\ in.value = (FirstOf[c] \div 2 ^ (LzhByte - CodeLen[c])) * 2 ^ Low + (pos % 2 ^ Low)

(* A match is of the output, as far back as its bits say: exactly so many  *)
(* bits are read as its code and its lower part have, in either version,   *)
(* and every byte of it comes from one distance back, bytes the match has  *)
(* itself written and the spaces before the first byte included            *)
(* (src/un80/crlzh.py, uncrlzh).                                           *)
LzhWindow == /\ RingIsOutput
             /\ py.left > 0 => \E pos \in 0 .. 2 ^ Low * Cardinality(Uppers) - 1 :
                                 Coded(pos) /\ py.i = (py.r - pos - 1) % N
=============================================================================
