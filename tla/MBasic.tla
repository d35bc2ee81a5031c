------------------------------- MODULE MBasic -------------------------------
(***************************************************************************)
(* MBASIC programs as text again: detokenize (src/un80/bas.py) and         *)
(* 80UNBAS (src/plm/bas.plm, basmain.plm).  A program is lines, each a     *)
(* link, a number and tokens up to a 0; some tokens have operands, which   *)
(* hold any bytes.  Which bytes a file holds is left open: a byte is one   *)
(* of the kinds the two programs tell apart, found out as it is read.      *)
(***************************************************************************)
EXTENDS Lockstep

CONSTANTS BasSizes,     \* bytes after the magic one (a bound of the model)
          BasBuf        \* what 80UNBAS reads of them: its buffer of 4096 bytes holds so many

ASSUME BasAssumption == BasSizes \subseteq Nat /\ BasBuf \in Nat

\* Tokens that are words.  Python knows some as taking a space after them.  then: TO THEN
\* STEP ELSE USING, and: AND OR XOR EQV, imp: IMP MOD, pair: FFH and a byte, call: TAB( SPC(
Listed == {"keyword", "then", "and", "imp"}
Words == Listed \union {"word", "rem", "ark", "pair", "call"}
Constants == {"one", "two", "four", "eight", "digit"}   \* digit: 11H to 1AH
\* paren: a right one, a left one being a mark; sigil: $ % ! #
Plain == {"char", "paren", "sigil", "mark", "space", "quote"}
Signs == {"sign", "divide"}                     \* sign: EFH to F6H, divide: FCH
\* Bytes that are no token: unknown ones from 80H to FEH and pairs; ten, 1BH and 1EH, which
\* Python takes for numbers; control, the others below 20H, for which it writes an escape or
\* a newline.
Others == {"unknown", "unpair", "ten", "tab", "cr", "control"}
BasBytes == Words \union Constants \union Plain \union Signs \union Others \union {"end"}

\* Operand bytes
PyWidth(b) == CASE b \in {"one", "pair", "unpair"} -> 1 [] b = "two" -> 2 [] b = "four" -> 4
                [] b = "eight" -> 8 [] OTHER -> 0
PlmWidth(b) == CASE b \in {"one", "pair", "unpair"} -> 1 [] b = "two" -> 2 [] b = "four" -> 4
                 [] b = "eight" -> 8 [] OTHER -> 0

\* prev: the token before, or none
NewSide == [pos |-> 0, prev |-> "none", tail |-> "none", text |-> <<>>, lines |-> 0, done |-> FALSE]

BasStart == \E size \in BasSizes :
              /\ in = [left |-> size, size |-> size, next |-> "end", header |-> TRUE,
                       failed |-> FALSE]
              /\ py = NewSide /\ plm = NewSide

\* The bytes 80UNBAS has not come to: it never sees those past its buffer.
PlmLeft == (IF in.size < BasBuf THEN in.size ELSE BasBuf) - plm.pos
-----------------------------------------------------------------------------
(* A line's header.  Four bytes of it and one more have to be there; a     *)
(* link or a line number of 0 ends the program.  Both write a space after  *)
(* the number, and only 80UNBAS remembers it.                              *)
Stopped(side) == [side EXCEPT !.done = TRUE, !.text = <<>>]
Opened(side) == [side EXCEPT !.pos = @ + 4, !.prev = "none", !.tail = "gap", !.text = <<>>]
SpaceAfterNumber(side) == [Opened(side) EXCEPT !.prev = "space"]

BasHeader ==
    /\ in.header /\ ~(py.done /\ plm.done)
    /\ \E last \in BOOLEAN, next \in BasBytes :
         /\ py' = IF py.done \/ in.left < 5 \/ last THEN Stopped(py) ELSE Opened(py)
         /\ plm' = IF plm.done \/ PlmLeft < 5 \/ last THEN Stopped(plm) ELSE SpaceAfterNumber(plm)
         /\ in' = IF py'.done /\ plm'.done THEN in
                  ELSE [in EXCEPT !.left = @ - 4, !.header = FALSE, !.next = next]
-----------------------------------------------------------------------------
(* _needs_space_before and _needs_space_after                              *)

\* Mutant of PyBefore: it does not ask whether the word before has a space after it.
PyBeforeAnyWord(b) == /\ b \in Words /\ py.prev \notin {"none", "space"}
                      /\ ~(b = "ark" /\ py.prev = "rem")
                      /\ py.prev \notin {"mark", "sigil", "call"} \union Signs
PyBefore(b) == /\ b \in Words /\ py.prev \notin {"none", "space"}
               /\ ~(b = "ark" /\ py.prev = "rem")
               /\ py.prev \notin {"mark", "sigil", "call"} \union Signs \union Listed

PyAfter(b, next) == /\ b \in Listed
                    /\ next \notin {"end", "none", "space", "paren", "sigil", "mark", "sign", "and"}

If(cond, s) == IF cond THEN s ELSE <<>>

\* What is written for a byte, with the spaces it gives rise to: gaps.  A tab is
\* written as a space, which the byte after it and prev_token know nothing of.
PyText(b, next) ==
    CASE b \in Words -> If(PyBefore(b), <<"gap">>) \o <<b>> \o If(PyAfter(b, next), <<"gap">>)
      [] b = "cr" -> <<>>
      [] OTHER -> <<b>>

\* prev_token
PyPrev(b) == CASE b \in {"unknown", "unpair"} -> "none"
               [] b \in {"tab", "cr", "control", "end"} -> py.prev
               [] OTHER -> b

\* need$space$before$kw
NeedSpace == plm.prev \in Words \union Constants \union
                          {"char", "paren", "sigil", "unknown", "unpair"}

\* The bytes below 20H that are no constants, left out by 80UNBAS
Skipped == {"ten", "tab", "cr", "control"}

PlmText(b) ==
    CASE b = "space" -> If(plm.prev # "space", <<"space">>)
      [] b \in {"and", "imp"} -> If(NeedSpace, <<"gap">>) \o <<b, "gap">>
      [] b = "then" -> If(plm.prev # "space", <<"gap">>) \o <<b>>
      [] b \in (Words \ {"and", "imp", "then"}) \union {"unknown", "unpair"} ->
           If(NeedSpace, <<"gap">>) \o <<b>>
      [] b \in Constants \union (Plain \ {"space"}) \union Signs -> <<b>>
      [] OTHER -> <<>>

PlmPrev(b) == CASE b \in {"and", "imp"} -> "space" [] b \in Skipped \union {"end"} -> plm.prev
                [] OTHER -> b

\* Of a number or a pair whose byte is past the buffer nothing is written; only the
\* number is remembered.
CutShort(b) == PlmLeft < 1 + PlmWidth(b) /\ b \in {"one", "pair", "unpair"}

\* A side that has written s for a byte and its operand, after tail
Last(side) == IF side.text = <<>> THEN side.tail ELSE side.text[Len(side.text)]
Wrote(side, s, prev, width) ==
    [side EXCEPT !.pos = @ + 1 + width, !.text = s, !.prev = prev, !.tail = Last(side)]
Ended(side) == [side EXCEPT !.lines = @ + 1, !.pos = @ + 1, !.text = <<>>]
-----------------------------------------------------------------------------
(* A byte of a line and its operand.  Python raises on an operand the file *)
(* does not have, and nothing is written; 80UNBAS reads what its buffer    *)
(* held before, and ends the line.                                         *)
PyByte(b, next) == IF py.done THEN py
                   ELSE IF b = "end" THEN Ended(py)
                   ELSE IF in.left < 1 + PyWidth(b) THEN [Stopped(py) EXCEPT !.lines = 0]
                   ELSE Wrote(py, PyText(b, next), PyPrev(b), PyWidth(b))

PlmByte(b) == IF plm.done THEN plm
              ELSE IF PlmLeft <= 0 THEN Stopped(Ended(plm))
              ELSE IF b = "end" THEN Ended(plm)
              ELSE Wrote(plm, IF CutShort(b) THEN <<>> ELSE PlmText(b),
                         IF CutShort(b) /\ b # "one" THEN plm.prev ELSE PlmPrev(b), PlmWidth(b))

BasByte ==
    /\ ~in.header /\ in.left > 0 /\ ~(py.done /\ plm.done)
    /\ \E next \in BasBytes \union {"none"} :
         LET b == in.next
             left == in.left - 1 - PyWidth(b)
         IN  /\ (next = "none") = (left <= 0 \/ b = "end")
             /\ py' = PyByte(b, next) /\ plm' = PlmByte(b)
             /\ in' = [in EXCEPT !.left = IF left < 0 THEN 0 ELSE left, !.next = next,
                                 !.header = (b = "end"), !.failed = left < 0]

\* The file ends inside a line.
BasCut == /\ ~in.header /\ in.left = 0 /\ ~(py.done /\ plm.done)
          /\ py' = IF py.done THEN py ELSE Stopped(Ended(py))
          /\ plm' = IF plm.done THEN plm ELSE Stopped(Ended(plm))
          /\ UNCHANGED in

BasNext == BasHeader \/ BasByte \/ BasCut
-----------------------------------------------------------------------------
(* The two come to the same bytes of a program, so that no operand is      *)
(* taken for a token, and write the same lines, as long as the program     *)
(* fits 80UNBAS's buffer; a file that ends inside an operand loses its     *)
(* whole text in Python, and the operand only on CP/M.                     *)
BasLines == in.size <= BasBuf =>
    IF in.failed THEN py.done /\ py.lines = 0 ELSE py.lines = plm.lines /\ py.pos = plm.pos

(* Every line of a program is in the text either writes (README.md: both   *)
(* support the same formats and produce identical output).                 *)
BasSame == py.done /\ plm.done /\ ~in.failed => py.lines = plm.lines

Letters == Words \union Constants \union {"char", "ten"}
Spaces == {"gap", "space", "tab"}
Follows(side, before, after) == side.text # <<>> /\ side.tail \in before /\ side.text[1] \in after

(* Words that were stored without spaces are told apart again.  In         *)
(* 80UNBAS no word touches a letter, a digit or a word before it, and no   *)
(* two spaces are side by side; what comes after FOR, TO or THEN is left   *)
(* as stored ("let file provide spacing": FORI).  In Python a word touches *)
(* one before it only after TAB( and SPC(, as REMARK, and as AND after a   *)
(* word that takes a space; nothing else that begins like a word touches   *)
(* the end of such a word.  And Python puts no space right after one that  *)
(* is written but a tab's, which prev_token does not tell; what comes      *)
(* after the space it puts may be a tab or, past a CR, a space.            *)
BasWords ==
    /\ ~Follows(plm, Letters, Words) /\ ~Follows(plm, Spaces, Spaces)
    /\ Follows(py, Letters, Words) => \/ py.tail = "call"
                                      \/ py.tail = "rem" /\ py.text[1] = "ark"
                                      \/ py.tail \in Listed /\ py.text[1] = "and"
    /\ ~Follows(py, Listed, Letters \ {"and"})
    /\ Follows(py, Spaces, {"gap"}) => py.tail = "tab"
=============================================================================
