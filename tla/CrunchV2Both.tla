---------------------------- MODULE CrunchV2Both ----------------------------
(***************************************************************************)
(* The CP/M program and the Python tool read the same Crunch V2 stream.    *)
(* README.md says of the two that they support the same formats and        *)
(* produce identical output: here they take every code together, and must  *)
(* write the same bytes for it.                                            *)
(***************************************************************************)
EXTENDS CrunchV2, PyCrunchV2

BothInit == Init /\ PyInit

\* No compressor begins a stream, or goes on after a reset, by naming the entry
\* about to be made: there is no string yet for the entry to extend.
Streams(c) == prev # None \/ c # next

ReadSame == \E c \in Readable :
              /\ Streams(c)
              /\ DecodeCode(c) \/ DecodeUnknown(c) \/ DecodeReset(c) \/ DecodeFiller(c)
              /\ PyStep(c)

EndSame == DecodeEnd /\ PyEnd

\* The CP/M disk is full: the two part here, and nothing is left to compare.
DiskFull == (\E c \in Readable : OutputFails(c)) /\ PyEnd

BothNext == ~done /\ ~stopped /\ (ReadSame \/ EndSame \/ DiskFull)

BothSpec == BothInit /\ [][BothNext]_<<vars, py_vars>>
-----------------------------------------------------------------------------
(* The two write the same bytes for every code, and stop at the same one.  *)
SameOutput == out = result /\ done = stopped

(* They write the same because they keep the same dictionary: the same     *)
(* entries, named or not by a code so far, in the same hash slots (which   *)
(* decide what is recycled), at the same code width; the CP/M program      *)
(* finds out what exists from lzw$next$code alone, the Python tool from    *)
(* what its table holds.                                                   *)
SameDictionary ==
    ~done /\ ~stopped =>
      /\ prev = prev_code /\ next = tab.next_code
      /\ bits = tab.code_size /\ threshold = tab.threshold /\ replacing = py_replacing
      /\ hash = tab.hash
      /\ Entries(tab) = {c \in Codes : Live(c)}
      /\ \A c \in Entries(tab) :
           tab.entry[c] = [prefix |-> prefix[c], suffix |-> suffix[c], used |-> used[c]]
=============================================================================
