---------------------------- MODULE OutputBuffer ----------------------------
(***************************************************************************)
(* The buffered output of the CP/M programs: putbyte and flush$outbuf of   *)
(* src/plm/io.plm.  A file is written in whole records, the last of them   *)
(* padded, and the disk may refuse any of them.                            *)
(***************************************************************************)
EXTENDS Integers, SequencesExt

CONSTANTS RecSize,      \* bytes in a record: 128
          BufRecs,      \* records in outbuf: 1 in 80UN, 32 in 80UNBAS
          Pad           \* cpm$eof: 1AH

ASSUME BufferAssumption == RecSize \in Nat \ {0} /\ BufRecs \in Nat \ {0}

VARIABLES outbuf,       \* outbuf up to outbuf$pos
          file,         \* the bytes in the output file
          ok            \* what the last call returned

output == <<outbuf, file, ok>>

OutSize == RecSize * BufRecs

OutputInit == outbuf = <<>> /\ file = <<>> /\ ok = TRUE

\* The whole records of s, the last one padded.
Padded(s) == s \o [i \in 1 .. (RecSize - (Len(s) % RecSize)) % RecSize |-> Pad]

\* flush$outbuf with s in the buffer: all its records are written, or the
\* first n of them are and the next is refused.
Flushing(s) ==
    \/ /\ file' = file \o Padded(s)
       /\ outbuf' = <<>> /\ ok' = TRUE
    \/ \E n \in 0 .. BufRecs - 1 :
         /\ RecSize * n < Len(s)
         /\ file' = file \o SubSeq(s, 1, RecSize * n)
         /\ outbuf' = s /\ ok' = FALSE

FlushOutbuf == Flushing(outbuf)

PutByte(b) == LET s == Append(outbuf, b)
              IN  IF Len(s) >= OutSize THEN Flushing(s)
                  ELSE outbuf' = s /\ ok' = TRUE /\ UNCHANGED file
=============================================================================
