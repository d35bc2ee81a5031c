--------------------------- MODULE MCCrunchV2Both ---------------------------
(* Two single bytes, three control codes, three entries and eleven hash    *)
(* slots with short probe chains.  The codes widen from 3 to 4 bits, and   *)
(* the last of them would number more entries than there are: the table is *)
(* full, and recycled, only after the count has run past it.               *)
EXTENDS CrunchV2Both
MCHome(p, s) == 1 + ((2 * p + s + 4) % 4)
=============================================================================
