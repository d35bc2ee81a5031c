---------------------------- MODULE MemberStream ----------------------------
(***************************************************************************)
(* What the buffered input of the CP/M program (src/plm/io.plm) promises   *)
(* its callers, the decoders and the archive drivers, with no buffer and   *)
(* no 16-bit words in sight: a file is a row of bytes, `taken' of which    *)
(* have been given out; when a limit is set, `left' more may be.  A byte   *)
(* is named by its offset in the file, so "the right byte" means something.*)
(***************************************************************************)
EXTENDS Integers

CONSTANTS MaxLimit    \* the largest member size that can be asked for

VARIABLES fileLen,    \* bytes in the open file
          taken,      \* bytes given out since the file was opened
          limited,    \* is a member limit set?
          left,       \* bytes the limit still allows
          short,      \* a byte was asked for that was not there
          skipping,   \* inside skip$input
          ret         \* what the last call returned

svars == <<fileLen, taken, limited, left, short, skipping, ret>>

\* The ^Z that getbyte and peekbyte return when there is no byte.  A data
\* byte may be a ^Z too; `short' is what tells a caller the two apart.
Eof == -1

\* No byte may be given: the member is used up, or the file is.
Nothing == (limited /\ left = 0) \/ taken = fileLen

SInit == /\ fileLen \in Nat
         /\ taken = 0
         /\ limited \in BOOLEAN
         /\ left \in 0 .. MaxLimit
         /\ short \in BOOLEAN
         /\ skipping = FALSE
         /\ ret = Eof

\* One byte leaves the stream.
Advance == /\ ~Nothing
           /\ taken' = taken + 1
           /\ left' = IF limited THEN left - 1 ELSE left

SGet == /\ ~skipping
        /\ \/ Advance /\ ret' = taken /\ short' = short
           \/ Nothing /\ ret' = Eof /\ short' = TRUE /\ UNCHANGED <<taken, left>>
        /\ UNCHANGED <<fileLen, limited, skipping>>

SPeek == /\ ~skipping
         /\ ret' = IF Nothing THEN Eof ELSE taken
         /\ UNCHANGED <<fileLen, taken, limited, left, short, skipping>>

SAvail == /\ ~skipping
          /\ ret' = IF Nothing THEN 0 ELSE 1
          /\ UNCHANGED <<fileLen, taken, limited, left, short, skipping>>

SSetLimit == /\ ~skipping
             /\ left' \in 0 .. MaxLimit
             /\ limited' = TRUE
             /\ UNCHANGED <<fileLen, taken, short, skipping, ret>>

SClearLimit == /\ ~skipping
               /\ limited' = FALSE
               /\ UNCHANGED <<fileLen, taken, left, short, skipping, ret>>

SClearShort == /\ ~skipping
               /\ short' = FALSE
               /\ UNCHANGED <<fileLen, taken, limited, left, skipping, ret>>

SSkip == \/ /\ ~skipping
            /\ skipping' = TRUE
            /\ UNCHANGED <<fileLen, taken, limited, left, short, ret>>
         \/ /\ skipping
            /\ Advance
            /\ UNCHANGED <<fileLen, limited, short, skipping, ret>>
         \/ /\ skipping /\ Nothing
            /\ skipping' = FALSE
            /\ UNCHANGED <<fileLen, taken, limited, left, short, ret>>

\* The file is opened again and some of it passed over.
SReopen == /\ ~skipping /\ ~limited
           /\ taken' \in 0 .. fileLen
           /\ UNCHANGED <<fileLen, limited, left, short, skipping, ret>>

SNext == \/ SGet \/ SPeek \/ SAvail \/ SSkip
         \/ SSetLimit \/ SClearLimit \/ SClearShort \/ SReopen

StreamSpec == SInit /\ [][SNext]_svars
=============================================================================
