------------------------------ MODULE Decoders ------------------------------
(***************************************************************************)
(* The decoders, one of which is picked for each file or member: by        *)
(* decompress$file in the CP/M program, and by cmd_extract, extract_lbr    *)
(* and decompress_member in the Python tool.  A header comes before the    *)
(* codes of some; what it says is what the job starts with.                *)
(***************************************************************************)
EXTENDS ArcLzw, CrunchV1, CrLzh, MBasic, Headers

Init == \/ job = "lzw" /\ LzwStart
        \/ job = "v1" /\ V1Start
        \/ job = "crlzh" /\ LzhStart
        \/ job = "bas" /\ BasStart
        \/ job = "header" /\ HeadStart

Next == /\ \/ job = "lzw" /\ LzwNext
           \/ job = "v1" /\ V1Next
           \/ job = "crlzh" /\ LzhNext
           \/ job = "bas" /\ BasNext
           \/ job = "header" /\ HeadNext
        /\ UNCHANGED job

Spec == Init /\ [][Next]_lvars
-----------------------------------------------------------------------------
(* The CP/M program and the Python tool decode the same data to the same   *)
(* (README.md: "Both support the same formats and produce identical        *)
(* output"), as far as the parts that go before say: the same strings at   *)
(* the same width of code, the same slots of the same table, the same      *)
(* lines, and codes found at the same byte.                                *)
SameOutput == CASE job = "lzw" -> LzwSame
                [] job = "v1" -> V1Same
                [] job = "crlzh" -> TRUE
                [] job = "bas" -> BasLines
                [] job = "header" -> HeadSame

(* The properties of the single decoders, each for its own job.            *)
LzwBlocksSkipped == job = "lzw" => LzwBlocks
V1StringsKept == job = "v1" => V1Strings
LzhWindowKept == job = "crlzh" => LzhWindow
BasWordsApart == job = "bas" => BasWords

(* No line of an MBASIC program is left out by either (README.md: "Both    *)
(* support the same formats and produce identical output").                *)
BasWhole == job = "bas" => BasSame
=============================================================================
