---------------------------- MODULE MemberInput -----------------------------
(***************************************************************************)
(* The buffered, limited input of src/plm/io.plm.                          *)
(*                                                                         *)
(* The file is read through `inbuf', a buffer of BufSize bytes; the limit  *)
(* of an archive member is a 32-bit count kept in two words of base W      *)
(* (65536 in the program), and getbyte borrows from the high one.  A byte  *)
(* is its offset in the file, so the buffer holds offsets.                 *)
(***************************************************************************)
EXTENDS Integers

CONSTANTS W,          \* base of a word: 2^16 in the program
          BufSize,    \* inbuf$size: 128 in 80UN, 4096 in 80UNBAS
          FileLens    \* the lengths of file considered

ASSUME WAssumption == W \in Nat /\ W >= 2
ASSUME BufAssumption == BufSize \in Nat \ {0}
ASSUME FileAssumption == FileLens \subseteq Nat

VARIABLES fileLen,    \* bytes in the input file
          filePos,    \* bytes read from it into inbuf so far (or passed over)
          inbuf,      \* [0 .. BufSize-1 -> offset]
          inPos,      \* inbuf$pos
          inEnd,      \* inbuf$end
          limited,    \* input$limited
          lo,         \* input$limit
          hi,         \* input$limit$hi
          short,      \* input$short
          skipping,   \* the loop of skip$input is running
          ret,        \* the value the last call returned
          stop        \* history: the offset at which the member set ends

vars == <<fileLen, filePos, inbuf, inPos, inEnd, limited, lo, hi, short,
          skipping, ret, stop>>
fileVars == <<filePos, inbuf, inPos, inEnd>>
limitVars == <<limited, lo, hi, stop>>

Word == 0 .. W - 1
Slots == 0 .. BufSize - 1
Eof == -1
Stale == -2           \* a slot of inbuf nothing was ever read into

Least(a, b) == IF a <= b THEN a ELSE b

\* x - 1 in a word
Dec(x) == IF x = 0 THEN W - 1 ELSE x - 1

\* Bytes given to the callers: what was read less what still waits in inbuf.
Taken == filePos - (inEnd - inPos)
Left == hi * W + lo

TypeOK == /\ fileLen \in FileLens
          /\ filePos \in Nat
          /\ inbuf \in [Slots -> Nat \union {Stale}]
          /\ inPos \in Nat /\ inEnd \in Nat
          /\ limited \in BOOLEAN /\ lo \in Word /\ hi \in Word
          /\ short \in BOOLEAN /\ skipping \in BOOLEAN
          /\ ret \in Nat \union {Eof}
          /\ stop \in Nat

Init == /\ fileLen \in FileLens
        /\ filePos = 0 /\ inPos = 0 /\ inEnd = 0
        /\ inbuf = [p \in Slots |-> Stale]
        /\ limited = FALSE          \* clear$input$limit in every entry point
        /\ lo \in Word /\ hi \in Word   \* whatever memory held
        /\ short \in BOOLEAN
        /\ skipping = FALSE
        /\ ret = Eof
        /\ stop = 0
-----------------------------------------------------------------------------
(* fill$inbuf: reads records until inbuf is full or the file ends.  It     *)
(* succeeds if it read any, and it throws away what inbuf held.            *)
Fetched == Least(BufSize, fileLen - filePos)

\* Mutant of FillInbuf: a buffer filled in part counts as full.
FillWhole(pos) ==
    /\ inbuf' = [p \in Slots |-> IF p < Fetched THEN filePos + p ELSE inbuf[p]]
    /\ filePos' = filePos + Fetched
    /\ inEnd' = IF Fetched = 0 THEN 0 ELSE BufSize
    /\ inPos' = pos

FillInbuf(pos) ==
    /\ inbuf' = [p \in Slots |-> IF p < Fetched THEN filePos + p ELSE inbuf[p]]
    /\ filePos' = filePos + Fetched
    /\ inEnd' = Fetched
    /\ inPos' = pos

\* input$spent
Spent == limited /\ lo = 0 /\ hi = 0

Empty == inPos >= inEnd

\* A byte moves out of inbuf, which is filled first if it is empty.
Fetch == /\ ~Spent
         /\ \/ ~Empty /\ inPos' = inPos + 1 /\ UNCHANGED <<filePos, inbuf, inEnd>>
            \/ Empty /\ Fetched > 0 /\ FillInbuf(1)

\* Mutant of Count: the limit is one word, as it used to be.
CountLowWord == /\ lo' = IF limited THEN Dec(lo) ELSE lo
                /\ UNCHANGED <<hi, limited, stop>>

\* ... and is counted off the limit, borrowing from the high word.
Count == IF limited
           THEN /\ hi' = IF lo = 0 THEN Dec(hi) ELSE hi
                /\ lo' = Dec(lo)
                /\ UNCHANGED <<limited, stop>>
           ELSE UNCHANGED limitVars

\* No byte to give: the member or the file is used up.  Finding the file
\* used up goes through fill$inbuf, which leaves inbuf empty.
Dry == \/ Spent /\ UNCHANGED fileVars
       \/ ~Spent /\ Empty /\ Fetched = 0 /\ FillInbuf(0)

\* A byte to give, which stays in inbuf.
Ready == /\ ~Spent
         /\ \/ ~Empty /\ UNCHANGED fileVars
            \/ Empty /\ Fetched > 0 /\ FillInbuf(0)
-----------------------------------------------------------------------------
GetByte == /\ ~skipping
           /\ \/ /\ Fetch /\ Count
                 /\ ret' = IF Empty THEN inbuf'[0] ELSE inbuf[inPos]
                 /\ short' = short
              \/ /\ Dry /\ ret' = Eof /\ short' = TRUE
                 /\ UNCHANGED limitVars
           /\ UNCHANGED <<fileLen, skipping>>

\* Mutant of PeekByte: it looks in inbuf before it looks at the limit.
PeekPastLimit == /\ ~skipping
                 /\ \/ ~Empty /\ UNCHANGED fileVars /\ ret' = inbuf[inPos]
                    \/ Empty /\ Ready /\ ret' = inbuf'[inPos']
                    \/ Empty /\ Dry /\ ret' = Eof
                 /\ UNCHANGED <<fileLen, limitVars, short, skipping>>

PeekByte == /\ ~skipping
            /\ \/ Ready /\ ret' = inbuf'[inPos']
               \/ Dry /\ ret' = Eof
            /\ UNCHANGED <<fileLen, limitVars, short, skipping>>

InputAvail == /\ ~skipping
              /\ \/ Ready /\ ret' = 1
                 \/ Dry /\ ret' = 0
              /\ UNCHANGED <<fileLen, limitVars, short, skipping>>

SetInputLimit(l, h) ==
    /\ ~skipping
    /\ lo' = l /\ hi' = h /\ limited' = TRUE
    /\ stop' = Taken + h * W + l
    /\ UNCHANGED <<fileLen, fileVars, short, skipping, ret>>

ClearInputLimit == /\ ~skipping
                   /\ limited' = FALSE
                   /\ UNCHANGED <<fileLen, fileVars, lo, hi, stop, short,
                                  skipping, ret>>

\* A decoder that has to know whether its input ran out clears the flag first.
ClearShort == /\ ~skipping
              /\ short' = FALSE
              /\ UNCHANGED <<fileLen, fileVars, limitVars, skipping, ret>>

\* skip$input: do while input$avail; b = getbyte; end
SkipInput == /\ ~skipping /\ skipping' = TRUE
             /\ UNCHANGED <<fileLen, fileVars, limitVars, short, ret>>

SkipOne == /\ skipping /\ Fetch /\ Count
           /\ UNCHANGED <<fileLen, short, skipping, ret>>

\* Mutant of SkipEnd: the loop ends with the limit, and not with the file.
SkipToLimit == /\ skipping /\ Dry /\ Spent /\ skipping' = FALSE
               /\ UNCHANGED <<fileLen, limitVars, short, ret>>

SkipEnd == /\ skipping /\ Dry /\ skipping' = FALSE
           /\ UNCHANGED <<fileLen, limitVars, short, ret>>

\* extract$lbr opens the file again for a member, reads `index' sectors past
\* it into the DMA buffer and starts with an empty inbuf.
Reopen(index) == /\ ~skipping /\ ~limited
                 /\ filePos' = Least(index, fileLen)
                 /\ inPos' = 0 /\ inEnd' = 0
                 /\ UNCHANGED <<fileLen, inbuf, limitVars, short, skipping, ret>>

Next == \/ GetByte \/ PeekByte \/ InputAvail
        \/ \E l, h \in Word : SetInputLimit(l, h)
        \/ ClearInputLimit \/ ClearShort
        \/ SkipInput \/ SkipOne \/ SkipEnd
        \/ \E index \in 0 .. fileLen : Reopen(index)

\* The loop of skip$input runs on; nothing makes a caller call.
Spec == Init /\ [][Next]_vars
FairSpec == Spec /\ WF_vars(SkipOne \/ SkipEnd)
-----------------------------------------------------------------------------
(* What inbuf holds between inPos and inEnd is the piece of the file that  *)
(* ends at filePos, in order: fill$inbuf (io.plm) loses, repeats and       *)
(* reorders nothing, wherever the callers were when it was called.         *)
BufferIsFile == /\ inPos <= inEnd /\ inEnd <= BufSize
                /\ inEnd <= filePos /\ filePos <= fileLen
                /\ \A p \in inPos .. inEnd - 1 : inbuf[p] = filePos - inEnd + p

(* The two-word count and the buffer agree on where the member ends, on    *)
(* every path and through every borrow: getbyte (io.plm) used to keep one  *)
(* 16-bit count, which stopped a member of 75584 bytes after 10048.        *)
LimitIsMemberEnd == limited => Taken + Left = stop

\* What holds of every reachable state, and is preserved by every step.
IInv == TypeOK /\ BufferIsFile /\ LimitIsMemberEnd

(* skip$input (io.plm) comes to an end, whatever is left of the member     *)
(* and of the file: with no limit set it runs to the end of the file.      *)
SkipEnds == skipping ~> ~skipping

(* The buffered input implements the plain stream of MemberStream: every   *)
(* call returns the byte, or the lack of one, that the stream has there,   *)
(* and skip$input stops at the end of the member and nowhere else.         *)
Stream == INSTANCE MemberStream WITH MaxLimit <- W * W - 1,
                                     taken <- Taken, left <- Left
Implements == Stream!StreamSpec
=============================================================================
