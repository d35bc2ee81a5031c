------------------------------- MODULE ArcLzw -------------------------------
(***************************************************************************)
(* The LZW decoders of ARC: crunched by the old methods (5 and 6, codes of *)
(* one width), crunched (7 and 8, codes that widen) and squashed (9).  The *)
(* Python tool (src/un80/arc.py) keeps a dictionary of strings, the CP/M   *)
(* program (src/plm/arc.plm, crunch.plm) one of prefixes and suffixes and  *)
(* the code to be given next.  Which codes a member holds is left open: a  *)
(* code is any number of its width, as long as there are bits for it.      *)
(***************************************************************************)
EXTENDS Lockstep

CONSTANTS LzwByte,      \* bits of a byte: 8
          LzwBlock,     \* codes of a block, which is padded out: 8
          LzwWrap,      \* what codes$in$block wraps at: 256
          LzwInitBits,  \* 9
          LzwMaxBits,   \* what the first byte of a method 8 member may say: 12
          LzwOldBits,   \* 12
          SquashBits,   \* 13
          LzwLeft,      \* what lzw$max$bits may hold from the members before
          LzwUsed,      \* the bytes that occur
          LzwSize       \* bytes of a member, at most

LzwRoots == 2 ^ LzwByte
Clear == LzwRoots                       \* 256
Methods == {"old", "crunched", "squashed"}

ASSUME LzwAssumption ==
    /\ {LzwByte, LzwBlock, LzwWrap} \subseteq Nat \ {0} /\ LzwWrap % LzwBlock = 0
    /\ LzwUsed \subseteq 0 .. LzwRoots - 1 /\ LzwSize \in Nat /\ LzwLeft \subseteq Nat
    /\ {LzwInitBits, LzwOldBits, SquashBits} \subseteq Nat
    /\ LzwByte < LzwInitBits /\ LzwByte < LzwOldBits
    /\ LzwMaxBits \union {SquashBits} \subseteq LzwInitBits .. 2 * LzwInitBits - 1
    /\ \A b \in LzwMaxBits \union LzwLeft \union {LzwOldBits, SquashBits} : Powers(b)
    /\ LzwRoots % LzwBlock = 0

Old == in.method = "old"
FirstCode == IF Old THEN LzwRoots ELSE LzwRoots + 1

\* The code each is about to give out, and the first one at the old methods'
\* 256, which is no clear code there
PyNext == FirstCode + Len(py.dict)
PlmNext == FirstCode + Len(plm.entries)

LzwStart == \E method \in Methods, size \in 0 .. LzwSize, most \in LzwMaxBits, left \in LzwLeft :
    LET width == IF method = "old" THEN LzwOldBits ELSE LzwInitBits
        max == CASE method = "old" -> LzwOldBits [] method = "crunched" -> most
                 [] method = "squashed" -> SquashBits
    IN  /\ in = [method |-> method, read |-> 0, alone |-> 0]
        /\ py = [dict |-> <<>>, size |-> width, max |-> max, prev |-> <<>>, block |-> 0,
                 bits |-> LzwByte * size, done |-> FALSE, out |-> <<>>]
        /\ plm = [entries |-> <<>>, size |-> width, max |-> IF method = "old" THEN left ELSE max,
                  prev |-> -1, block |-> 0, bits |-> LzwByte * size, done |-> FALSE, out |-> <<>>]
-----------------------------------------------------------------------------
(* The Python tool: read_bits raises when the bits are too few, and leaves *)
(* them where they are.                                                    *)
PyReads == ~py.done /\ py.bits >= py.size

PyKnows(c) == c < LzwRoots \/ c \in FirstCode .. PyNext - 1
PyString(c) == IF c < LzwRoots THEN <<c>>
               ELSE IF PyKnows(c) THEN py.dict[c - FirstCode + 1]
               ELSE Append(py.prev, py.prev[1])

\* Mutant of PyCode: a code widens one entry late.
PyTakesLate(c) ==
    LET grows == py.prev # <<>> /\ PyNext < 2 ^ py.max
        widens == grows /\ PyNext > 2 ^ py.size - 1 /\ py.size < py.max
    IN  [py EXCEPT !.bits = @ - py.size, !.block = @ + 1, !.out = PyString(c), !.prev = PyString(c),
                   !.dict = IF grows THEN Append(@, Append(py.prev, PyString(c)[1])) ELSE @,
                   !.size = IF widens THEN @ + 1 ELSE @]

PyTakes(c) ==
    LET grows == py.prev # <<>> /\ PyNext < 2 ^ py.max
        widens == grows /\ PyNext + 1 > 2 ^ py.size - 1 /\ py.size < py.max
    IN  [py EXCEPT !.bits = @ - py.size, !.block = @ + 1, !.out = PyString(c), !.prev = PyString(c),
                   !.dict = IF grows THEN Append(@, Append(py.prev, PyString(c)[1])) ELSE @,
                   !.size = IF widens THEN @ + 1 ELSE @]

Padding(block) == (LzwBlock - (block % LzwBlock)) % LzwBlock

\* skip_rest_of_block gives up at the first code it cannot read.
PyClears == LET left == py.bits - py.size
                codes == Padding(py.block + 1)
                there == left \div py.size
            IN  [py EXCEPT !.bits = left - py.size * (IF codes < there THEN codes ELSE there),
                           !.dict = <<>>, !.size = LzwInitBits, !.prev = <<>>, !.block = 0,
                           !.out = <<>>]

PyBreaks == [py EXCEPT !.done = TRUE, !.out = <<>>]

PyLzw(c) == IF ~Old /\ c = Clear THEN PyClears
            ELSE IF PyKnows(c) \/ (c = PyNext /\ py.prev # <<>>) THEN PyTakes(c)
            ELSE PyBreaks
-----------------------------------------------------------------------------
(* The CP/M program: its loop goes on while there is a byte to read, and   *)
(* bits past the end are those of a ^Z.                                    *)
PlmReads == ~plm.done /\ plm.bits \div LzwByte > 0
PlmRest(bits) == IF plm.bits < bits THEN 0 ELSE plm.bits - bits

\* A slot no entry was put into holds what was there before.
Stale == -1
PlmString(c) ==
    LET str[k \in 0 .. 2 ^ plm.size] ==
          IF k < LzwRoots THEN <<k>>
          ELSE IF k \notin FirstCode .. PlmNext - 1 THEN <<Stale>>
          ELSE Append(str[plm.entries[k - FirstCode + 1].prefix],
                      plm.entries[k - FirstCode + 1].suffix)
    IN  IF c < PlmNext THEN str[c] ELSE Append(str[plm.prev], str[plm.prev][1])

\* lzw$add$entry and the widening after it
PlmTakes(c) ==
    LET grows == /\ plm.prev # -1 /\ PlmNext < 2 ^ plm.max
                 /\ Old => PlmNext < 2 ^ LzwOldBits
        widens == ~Old /\ grows /\ PlmNext + 1 > 2 ^ plm.size - 1 /\ plm.size < plm.max
        new == [prefix |-> plm.prev, suffix |-> PlmString(c)[1]]
    IN  [plm EXCEPT !.bits = PlmRest(plm.size), !.block = (@ + 1) % LzwWrap, !.out = PlmString(c),
                    !.prev = c, !.entries = IF grows THEN Append(@, new) ELSE @,
                    !.size = IF widens THEN @ + 1 ELSE @]

PlmClears == LET codes == Padding((plm.block + 1) % LzwWrap)
             IN  [plm EXCEPT !.bits = PlmRest(plm.size * (codes + 1)), !.entries = <<>>,
                             !.size = LzwInitBits, !.prev = -1, !.block = 0, !.out = <<>>]

PlmEnds == [plm EXCEPT !.done = TRUE, !.out = <<>>]

PlmLzw(c) == IF ~Old /\ c = Clear THEN PlmClears
             ELSE IF c < PlmNext \/ (c = PlmNext /\ plm.prev # -1) THEN PlmTakes(c)
             ELSE PlmEnds
-----------------------------------------------------------------------------
\* The codes there is a reason to tell apart: those of the bytes that occur,
\* the clear code, the entries, and past them the next two.
Telling(width, next) == {c \in Bits(width) : c \in LzwUsed \/ c \in LzwRoots .. next + 1}

\* History: how many codes have been read at this width.
Counted(c) == [in EXCEPT !.read = IF py'.block = 0 \/ py'.size # py.size THEN 0 ELSE @ + 1]

LzwBoth == /\ PyReads /\ PlmReads /\ in.alone = 0
           /\ \E c \in Telling(py.size, PyNext) :
                /\ py' = PyLzw(c) /\ plm' = PlmLzw(c)
                /\ in' = Counted(c)

\* Bits of a code that was cut, and those of a ^Z after them
LzwPlmAlone == /\ ~PyReads /\ PlmReads
               /\ \E c \in Telling(plm.size, PlmNext) : plm' = PlmLzw(c)
               /\ in' = [in EXCEPT !.alone = @ + 1] /\ py' = PyBreaks

\* Padding that was cut, taken for codes
LzwPyAlone == /\ PyReads /\ ~PlmReads
              /\ \E c \in Telling(py.size, PyNext) : py' = PyLzw(c)
              /\ in' = [in EXCEPT !.alone = @ + 1] /\ plm' = PlmEnds

LzwEnd == /\ ~PyReads /\ ~PlmReads /\ ~(py.done /\ plm.done)
          /\ py' = PyBreaks /\ plm' = PlmEnds
          /\ UNCHANGED in

LzwNext == LzwBoth \/ LzwPlmAlone \/ LzwPyAlone \/ LzwEnd
-----------------------------------------------------------------------------
(* The two write the same strings at the same width of code, as far as     *)
(* there are whole codes for both (README.md: identical output); one whose *)
(* data is cut may write one string more than the other, never two.        *)
LzwSame == IF in.alone = 0
           THEN plm.out = py.out /\ plm.size = py.size /\ plm.done = py.done
           ELSE in.alone = 1

(* Only a clear code needs padding to be skipped: codes widen where a      *)
(* block of the narrower ones is full (src/un80/arc.py, skip_rest_of_block;*)
(* src/plm/arc.plm, which counts the codes in a byte that wraps).          *)
LzwBlocks == ~Old /\ ~py.done /\ in.alone = 0 =>
               \A side \in {py, plm} : in.read % LzwBlock = side.block % LzwBlock
=============================================================================
