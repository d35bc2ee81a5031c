----------------------------- MODULE ArcExtract -----------------------------
(***************************************************************************)
(* The ARC driver of the CP/M program (extract$arc, extract$arc$member in  *)
(* src/plm/arc.plm), reading through the stream that MemberInput is shown  *)
(* to implement, beside what extract_arc of src/un80/arc.py makes of the   *)
(* same archive.                                                           *)
(*                                                                         *)
(* An archive is a row of cells.  A member is a marker, a method, a name,  *)
(* a size, for every method but the old one an original size, and then     *)
(* `size' cells of data.  A method is "end" (0), "old" (1), "known" (2 to  *)
(* 9) or "unknown".  The file may be cut short anywhere.                   *)
(***************************************************************************)
EXTENDS Integers, Sequences

CONSTANTS Members,     \* the members an archive can hold
          Archives,    \* sequences of them
          Huge         \* the size read from ^Z bytes: past any end of file

ASSUME MembersAssumption ==
    Members \subseteq [method : {"old", "known", "unknown"}, name : STRING, size : Nat]
ASSUME ArchivesAssumption == Archives \subseteq Seq(Members)
ASSUME HugeAssumption == Huge \in Nat

VARIABLES fileLen, taken, limited, left, short, skipping, ret,  \* MemberStream
          members,     \* what was archived ...
          ended,       \* ... and whether the end mark was written
          pc,          \* where the driver is
          method, name, size,   \* of the member being read
          result,      \* of its decoder, and of the writes to its file
          log          \* the members done with: <<name, outcome>>

Str == INSTANCE MemberStream WITH MaxLimit <- Huge
stream == <<fileLen, taken, limited, left, short, skipping, ret>>
header == <<method, name, size>>
vars == <<fileLen, taken, limited, left, short, skipping, ret,
          members, ended, pc, method, name, size, result, log>>
-----------------------------------------------------------------------------
(* The archive as it lies in the file.                                     *)
Header(m) == <<<<"mark">>, <<"method", m.method>>, <<"name", m.name>>, <<"size", m.size>>>>
             \o (IF m.method = "old" THEN <<>> ELSE <<<<"orig">>>>)
Cells(m) == Header(m) \o [i \in 1 .. m.size |-> <<"data">>]
EndMark == <<<<"mark">>, <<"method", "end">>>>

\* Where the i'th member begins, were nothing cut off, and which one the
\* p'th cell belongs to.
Start[i \in 1 .. Len(members) + 1] ==
    IF i = 1 THEN 0 ELSE Start[i - 1] + Len(Cells(members[i - 1]))
MemberAt(p) == CHOOSE i \in DOMAIN members : p \in Start[i] + 1 .. Start[i + 1]

Layout == [p \in 1 .. Start[Len(members) + 1] |->
             Cells(members[MemberAt(p)])[p - Start[MemberAt(p)]]]
          \o (IF ended THEN EndMark ELSE <<>>)
Min2(a, b) == IF a <= b THEN a ELSE b

\* What a byte read means; past the end it is a ^Z, the marker's own code.
Cell(b) == IF b = Str!Eof THEN <<"mark">> ELSE Layout[b + 1]
IsMark(b) == Cell(b) = <<"mark">>
AsMethod(b) == IF Cell(b)[1] = "method" THEN Cell(b)[2] ELSE "unknown"
AsName(b) == IF Cell(b)[1] = "name" THEN Cell(b)[2] ELSE "^Z"
AsSize(b) == IF Cell(b)[1] = "size" THEN Cell(b)[2] ELSE Huge
-----------------------------------------------------------------------------
Init == /\ members \in Archives
        /\ ended \in BOOLEAN
        /\ fileLen \in 0 .. Len(Layout)
        /\ taken = 0 /\ limited = FALSE /\ left = 0 /\ short = FALSE
        /\ skipping = FALSE /\ ret = Str!Eof
        /\ pc = "scan"
        /\ method = "end" /\ name = "" /\ size = 0 /\ result = 1
        /\ log = <<>>

Goto(from, to) == pc = from /\ pc' = to
Archive == <<members, ended>>

\* Mutant of Scan: the loop does not look for the end of the file.
ScanOn == /\ pc = "scan"
          /\ Str!SAvail
          /\ pc' = "marker"
          /\ UNCHANGED <<Archive, header, result, log>>

\* extract$arc: do while input$avail
Scan == /\ pc = "scan"
        /\ Str!SAvail
        /\ pc' = IF ret' = 0 THEN "done" ELSE "marker"
        /\ UNCHANGED <<Archive, header, result, log>>

\* The byte there must be a marker; anything else ends the archive.
Marker == /\ pc = "marker"
          /\ Str!SPeek
          /\ pc' = IF IsMark(ret') THEN "eat" ELSE "done"
          /\ UNCHANGED <<Archive, header, result, log>>

EatMarker == /\ Goto("eat", "look")
             /\ Str!SGet
             /\ UNCHANGED <<Archive, header, result, log>>

\* A method of 0 ends the archive.
LookAtMethod == /\ pc = "look"
                /\ Str!SPeek
                /\ pc' = IF AsMethod(ret') = "end" THEN "done" ELSE "method"
                /\ UNCHANGED <<Archive, header, result, log>>

\* extract$arc$member: the header, field by field ...
ReadMethod == /\ Goto("method", "name")
              /\ Str!SGet
              /\ method' = AsMethod(ret')
              /\ UNCHANGED <<Archive, name, size, result, log>>
ReadName == /\ Goto("name", "size")
            /\ Str!SGet
            /\ name' = AsName(ret')
            /\ UNCHANGED <<Archive, method, size, result, log>>
\* Mutant of ReadSize: an original size is read whatever the method.
ReadSizeAlways == /\ Goto("size", "orig")
                  /\ Str!SGet
                  /\ size' = AsSize(ret')
                  /\ UNCHANGED <<Archive, method, name, result, log>>

ReadSize == /\ pc = "size"
            /\ Str!SGet
            /\ size' = AsSize(ret')
            /\ pc' = IF method = "old" THEN "limit" ELSE "orig"
            /\ UNCHANGED <<Archive, method, name, result, log>>
ReadOrig == /\ Goto("orig", "limit")
            /\ Str!SGet
            /\ UNCHANGED <<Archive, header, result, log>>

\* ... after which the data is read through a limit of its size.
SetLimit == /\ Goto("limit", "create")
            /\ Str!SSetLimit /\ left' = size
            /\ UNCHANGED <<Archive, header, result, log>>

\* Mutant of CreateFile: a file that cannot be made ends the run.
CreateOrStop == /\ pc = "create"
                /\ \/ /\ pc' = IF method = "unknown" THEN "skip" ELSE "decode"
                      /\ result' = 1
                   \/ pc' = "done" /\ result' = 2
                /\ UNCHANGED <<stream, Archive, header, log>>

\* makefile fails on a full directory, and the member is skipped over.
CreateFile == /\ pc = "create"
              /\ \/ /\ pc' = IF method = "unknown" THEN "skip" ELSE "decode"
                    /\ result' = 1
                 \/ pc' = "skip" /\ result' = 2
              /\ UNCHANGED <<stream, Archive, header, log>>

\* A decoder takes bytes while it likes, past the end of the member too,
\* where it gets ^Z; putbyte fails when the disk is full.
DecodeByte == /\ pc = "decode"
              /\ Str!SGet
              /\ \/ pc' = "decode" /\ result' = 1
                 \/ pc' = "skip" /\ result' = 0
              /\ UNCHANGED <<Archive, header, log>>

\* It ends where its own code says, or on data it cannot decode.
DecodeEnd == /\ Goto("decode", "skip")
             /\ result' \in {0, 1}
             /\ UNCHANGED <<stream, Archive, header, log>>

\* Mutants of SkipRest: what the decoder left is not skipped; the loop goes on.
SkipNothing == /\ Goto("skip", "clear")
               /\ UNCHANGED <<stream, Archive, header, result, log>>
SkipForever == /\ pc = "skip"
               /\ Str!SSkip
               /\ pc' = "skip"
               /\ UNCHANGED <<Archive, header, result, log>>

SkipRest == /\ pc = "skip"
            /\ Str!SSkip
            /\ pc' = IF skipping' THEN "skip" ELSE "clear"
            /\ UNCHANGED <<Archive, header, result, log>>

ClearLimit == /\ Goto("clear", "close")
              /\ Str!SClearLimit
              /\ UNCHANGED <<Archive, header, result, log>>

\* The last partial record is flushed, which may fail too; the file is closed.
Outcome == IF result = 2 THEN "nocreate"
           ELSE IF method = "unknown" THEN "unsupported"
           ELSE IF result = 1 THEN "ok" ELSE "error"
Close == /\ Goto("close", "scan")
         /\ \/ log' = Append(log, <<name, Outcome>>)
            \/ Outcome = "ok" /\ log' = Append(log, <<name, "error">>)
         /\ UNCHANGED <<stream, Archive, header, result>>

\* main prints the count and returns to CP/M.
Finished == pc = "done" /\ UNCHANGED vars

Program == \/ Scan \/ Marker \/ EatMarker \/ LookAtMethod
           \/ ReadMethod \/ ReadName \/ ReadSize \/ ReadOrig
           \/ SetLimit \/ CreateFile \/ DecodeByte \/ DecodeEnd
           \/ SkipRest \/ ClearLimit \/ Close
Next == Program \/ Finished

\* One thread of control, which always runs on.
Spec == Init /\ [][Next]_vars /\ WF_vars(Program)
-----------------------------------------------------------------------------
(* extract_arc of src/un80/arc.py on the same file: the names it gives the *)
(* members, in order, and whether parse_header raised ArcError, which      *)
(* nothing catches below the CLI; the CLI writes files only afterwards.    *)
Present(from, n) == from + n <= fileLen
HeaderLen(m) == IF m = "old" THEN 4 ELSE 5

\* From an offset on: parse_header, and the data it finds put by, again and
\* again.
Parse[o \in 0 .. fileLen] ==
    IF o = fileLen \/ (o + 1 = fileLen /\ IsMark(o)) THEN [names |-> <<>>, raised |-> FALSE]
    ELSE IF ~IsMark(o) THEN [names |-> <<>>, raised |-> TRUE]
    ELSE IF AsMethod(o + 1) = "end" THEN [names |-> <<>>, raised |-> FALSE]
    ELSE IF ~Present(o, HeaderLen(AsMethod(o + 1))) THEN [names |-> <<>>, raised |-> TRUE]
    ELSE LET data == o + HeaderLen(AsMethod(o + 1))
             rest == Parse[Min2(data + AsSize(o + 3), fileLen)]
         IN  [names |-> <<AsName(o + 2)>> \o rest.names, raised |-> rest.raised]
PyExtract == Parse[0]

PyWrites == IF PyExtract.raised THEN <<>> ELSE PyExtract.names
PlmWrites == [i \in DOMAIN log |-> log[i][1]]
-----------------------------------------------------------------------------
\* What a name can be: a member's, none yet, or what is read past the end.
Names == {m.name : m \in Members} \union {"", "^Z"}

TypeOK == /\ members \in Archives /\ ended \in BOOLEAN
          /\ taken \in 0 .. fileLen /\ left \in 0 .. Huge
          /\ {limited, short, skipping} \subseteq BOOLEAN
          /\ pc \in {"scan", "marker", "eat", "look", "method", "name", "size", "orig",
                     "limit", "create", "decode", "skip", "clear", "close", "done"}
          /\ method \in {"end", "old", "known", "unknown"} /\ name \in Names
          /\ size \in Nat /\ result \in 0 .. 2
          /\ Len(log) <= Len(members) + 1

(* Whatever became of the members before it, in decoding or on the disk,   *)
(* the scan of extract$arc (arc.plm) stands where the next header begins,  *)
(* with no limit left over, or at the end of a file that was cut short.    *)
Aligned == pc = "scan" =>
              /\ ~limited
              /\ taken = IF Len(log) <= Len(members)
                          THEN Min2(Start[Len(log) + 1], fileLen) ELSE fileLen

(* One bad member never costs the rest (the comment at the end of          *)
(* extract$arc$member, arc.plm): every member whose header is in the file  *)
(* has been gone to, in order, when the driver returns.                    *)
NoMemberLost ==
    pc = "done" =>
        \A i \in DOMAIN members :
            Start[i] + Len(Header(members[i])) <= fileLen
                => i <= Len(log) /\ log[i][1] = members[i].name

(* The two programs give out the same members in the same order (README.md:*)
(* identical output), of every archive, cut short or not, unless it is cut *)
(* inside a header or the end mark: there the Python tool gives up on all  *)
(* of them, and the CP/M program makes one more out of ^Z.                 *)
CutInHeader == \E i \in 1 .. Len(members) + 1 :
                  /\ Start[i] < fileLen
                  /\ fileLen < Start[i] + (IF i \in DOMAIN members THEN Len(Header(members[i]))
                                          ELSE Len(EndMark))
WholeArchiveAgrees == pc = "done" /\ ~CutInHeader => PlmWrites = PyWrites

(* The driver comes to an end on every archive, whole or cut short.        *)
Terminates == <>(pc = "done")
=============================================================================
