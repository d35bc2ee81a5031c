------------------------------- MODULE Headers ------------------------------
(***************************************************************************)
(* What comes before the codes of a squeezed, crunched or CrLZH file: a    *)
(* name, and fields that say how to decode.  The decoders of src/un80      *)
(* parse a header that is whole in memory; those of src/plm take it from   *)
(* getbyte, which gives a ^Z at the end of the file and says so in         *)
(* input$short.                                                            *)
(***************************************************************************)
EXTENDS Lockstep

CONSTANT NameField      \* _MAX_NAME_FIELD of a crunched file: 128
ASSUME NameFieldAssumption == NameField \in Nat \ {0}

Formats == {"squeeze", "crunch", "crlzh"}

\* How far each is: in the name, at the fields after it, at codes it decodes in
\* one way or another, or nowhere, the file being refused.
HeadStart == /\ \E format \in Formats : in = [format |-> format, name |-> 0, apart |-> "no"]
             /\ py = [at |-> "name"] /\ plm = [at |-> "name", short |-> FALSE]

(* A byte of the name, or the end of the file.  The CP/M program takes a   *)
(* ^Z for the name's end; Python has a limit for a crunched file's name.   *)
HeadName ==
    /\ py.at = "name" /\ plm.at = "name"
    /\ \E b \in {"nul", "eof", "char", "end"} :
         /\ py' = IF b = "nul" THEN [at |-> "fields"]
                  ELSE IF b = "end" \/ (in.format = "crunch" /\ in.name + 1 >= NameField)
                  THEN [at |-> "refused"] ELSE py
         /\ plm' = IF b = "char" THEN plm ELSE [at |-> "fields", short |-> b = "end"]
         /\ in' = [in EXCEPT !.name = IF @ < NameField THEN @ + 1 ELSE @,
                             !.apart = IF plm'.at = py'.at THEN "no" ELSE b]

\* What a version or level byte may say, or a count of nodes
Says(format) == CASE format = "squeeze" -> {"tree", "refused"}      \* 0 to 256 nodes, or not
                  [] format = "crunch" -> {"V1", "V2", "refused"}   \* up to 10H, from 20H, between
                  [] format = "crlzh" -> {"1.x", "2.0", "refused"}  \* below 20H, 20H, above

\* The bits past the end of a CrLZH file are zeros, its version then 0.
PyFields(says, cut) == IF in.format # "crlzh" THEN (IF cut = "no" THEN says ELSE "refused")
                       ELSE IF cut = "level" THEN "1.x" ELSE says

\* ... and ^Zs to the CP/M program, 1AH being a version too.
PlmFields(says, cut) ==
    LET short == plm.short \/ cut # "no"
    IN  IF in.format # "crlzh" THEN (IF short THEN "refused" ELSE says)
        ELSE IF plm.short \/ cut = "level" THEN "1.x" ELSE says

\* The file may end before the byte that tells, or after it.
HeadFields ==
    /\ plm.at = "fields" /\ in.apart = "no"
    /\ \E says \in Says(in.format), cut \in {"no", "level", "later"} :
         /\ py' = [at |-> PyFields(says, cut)]
         /\ plm' = [plm EXCEPT !.at = PlmFields(says, cut)]
    /\ UNCHANGED in

\* A file that has ended, for the CP/M program alone
HeadAlone == /\ plm.at = "fields" /\ in.apart = "end"
             /\ plm' = [plm EXCEPT !.at = PlmFields("refused", "level")]
             /\ UNCHANGED <<in, py>>

HeadNext == HeadName \/ HeadFields \/ HeadAlone
-----------------------------------------------------------------------------
(* The two find the codes at the same byte and decode them in the same     *)
(* way, or both refuse the file, where the fields are cut short too; but   *)
(* a ^Z in a name, or a name past the limit, parts them, and a CrLZH file  *)
(* that ends in its name is refused by Python only.                        *)
HeadSame == \/ in.apart = "no" /\ py.at = plm.at
            \/ in.apart = "end" /\ py.at = "refused"
               /\ plm.at \in {"fields", IF in.format = "crlzh" THEN "1.x" ELSE "refused"}
            \/ in.apart = "eof" \/ (in.apart = "char" /\ in.name >= NameField)
=============================================================================
