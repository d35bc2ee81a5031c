------------------------- MODULE MemberInput_proofs -------------------------
(***************************************************************************)
(* The buffered input keeps its invariant and implements MemberStream, for *)
(* every word size, buffer size and set of file lengths.                   *)
(***************************************************************************)
EXTENDS MemberInput, TLAPS

USE WAssumption, BufAssumption, FileAssumption

-----------------------------------------------------------------------------
(* The two words as one number. *)

\* Two words of base W hold the numbers up to W*W - 1.
LEMMA TwoWordsRange ==
    ASSUME NEW l \in Word, NEW h \in Word
    PROVE  /\ h * W + l \in 0 .. W * W - 1
           /\ h * W + l = 0 <=> l = 0 /\ h = 0
<1>1. h * W \in Nat /\ (h = 0 => h * W = 0)
  BY DEF Word
<1>2. h > 0 => h * W >= W
  BY SMT DEF Word
<1>3. h * W <= (W - 1) * W
  BY SMT DEF Word
<1>4. (W - 1) * W = W * W - W
  BY SMT
<1>. QED
  BY <1>1, <1>2, <1>3, <1>4, SMT DEF Word

\* Taking one off the low word, with the borrow of getbyte, takes one off.
LEMMA BorrowCounts ==
    ASSUME NEW l \in Word, NEW h \in Word, ~(l = 0 /\ h = 0)
    PROVE  /\ Dec(l) \in Word
           /\ (IF l = 0 THEN Dec(h) ELSE h) \in Word
           /\ (IF l = 0 THEN Dec(h) ELSE h) * W + Dec(l) = (h * W + l) - 1
<1>1. CASE l = 0
  <2>1. h > 0 /\ Dec(h) = h - 1 /\ Dec(l) = W - 1
    BY <1>1 DEF Word, Dec
  <2>2. (h - 1) * W = h * W - W
    BY SMT DEF Word
  <2>. QED
    BY <1>1, <2>1, <2>2, SMT DEF Word
<1>2. CASE l # 0
  BY <1>2, SMT DEF Word, Dec
<1>. QED
  BY <1>1, <1>2
-----------------------------------------------------------------------------
(* Each part of a call keeps the invariant of the piece of state it changes. *)

\* fill$inbuf leaves inbuf holding the next piece of the file.
LEMMA FillKeepsBuffer ==
    ASSUME TypeOK, BufferIsFile, NEW n \in {0, 1}, n <= Fetched, Empty,
           FillInbuf(n), fileLen' = fileLen
    PROVE  /\ filePos' \in Nat /\ inPos' \in Nat /\ inEnd' \in Nat
           /\ inbuf' \in [Slots -> Nat \union {Stale}]
           /\ BufferIsFile'
           /\ Taken' = Taken + n
           /\ n < Fetched => inbuf'[n] = Taken'
           /\ 0 < Fetched => inbuf'[0] = Taken
<1>1. Fetched \in Nat /\ Fetched <= BufSize /\ filePos + Fetched <= fileLen
  BY DEF Fetched, Least, TypeOK, BufferIsFile
<1>2. inPos = inEnd
  BY DEF Empty, BufferIsFile, TypeOK
<1>3. \A p \in 0 .. Fetched - 1 : p \in Slots /\ inbuf'[p] = filePos + p
  BY <1>1 DEF FillInbuf, Slots, TypeOK
<1>4. inbuf' \in [Slots -> Nat \union {Stale}]
  BY <1>1 DEF FillInbuf, Slots, TypeOK
<1>5. filePos' = filePos + Fetched /\ inEnd' = Fetched /\ inPos' = n
  BY DEF FillInbuf
<1>. QED
  BY <1>1, <1>2, <1>3, <1>4, <1>5 DEF BufferIsFile, Taken, TypeOK

\* A byte fetched is the one the stream has next.
LEMMA FetchTakesNext ==
    ASSUME TypeOK, BufferIsFile, Fetch, fileLen' = fileLen
    PROVE  /\ filePos' \in Nat /\ inPos' \in Nat /\ inEnd' \in Nat
           /\ inbuf' \in [Slots -> Nat \union {Stale}]
           /\ BufferIsFile'
           /\ Taken' = Taken + 1
           /\ Taken \in Nat /\ Taken # fileLen /\ ~Spent
           /\ (IF Empty THEN inbuf'[0] ELSE inbuf[inPos]) = Taken
<1>1. CASE ~Empty /\ inPos' = inPos + 1 /\ UNCHANGED <<filePos, inbuf, inEnd>>
  <2>1. inPos < inEnd
    BY <1>1 DEF Empty, TypeOK
  <2>. QED
    BY <1>1, <2>1 DEF BufferIsFile, Taken, TypeOK, Fetch
<1>2. CASE Empty /\ Fetched > 0 /\ FillInbuf(1)
  <2>1. Fetched \in Nat /\ inPos = inEnd
    BY <1>2 DEF Fetched, Least, TypeOK, BufferIsFile, Empty
  <2>2. Taken = filePos /\ filePos # fileLen
    BY <1>2, <2>1 DEF Taken, TypeOK, Fetched, Least, BufferIsFile
  <2>. QED
    BY <1>2, <2>1, <2>2, FillKeepsBuffer DEF TypeOK, Fetch
<1>. QED
  BY <1>1, <1>2 DEF Fetch

\* Looking for a byte that is not there changes nothing the callers can see.
LEMMA DryKeeps ==
    ASSUME TypeOK, BufferIsFile, Dry, fileLen' = fileLen
    PROVE  /\ filePos' \in Nat /\ inPos' \in Nat /\ inEnd' \in Nat
           /\ inbuf' \in [Slots -> Nat \union {Stale}]
           /\ BufferIsFile'
           /\ Taken' = Taken
           /\ Spent \/ Taken = fileLen
<1>1. CASE Spent /\ UNCHANGED fileVars
  BY <1>1 DEF fileVars, BufferIsFile, Taken, TypeOK
<1>2. CASE ~Spent /\ Empty /\ Fetched = 0 /\ FillInbuf(0)
  <2>1. Taken = fileLen
    BY <1>2 DEF Taken, TypeOK, Fetched, Least, BufferIsFile, Empty
  <2>. QED
    BY <1>2, <2>1, FillKeepsBuffer DEF TypeOK
<1>. QED
  BY <1>1, <1>2 DEF Dry

\* Nor does looking at one that is.
LEMMA ReadyKeeps ==
    ASSUME TypeOK, BufferIsFile, Ready, fileLen' = fileLen
    PROVE  /\ filePos' \in Nat /\ inPos' \in Nat /\ inEnd' \in Nat
           /\ inbuf' \in [Slots -> Nat \union {Stale}]
           /\ BufferIsFile'
           /\ Taken' = Taken
           /\ Taken \in Nat /\ Taken # fileLen /\ ~Spent
           /\ inbuf'[inPos'] = Taken
<1>1. CASE ~Empty /\ UNCHANGED fileVars
  <2>1. inPos < inEnd
    BY <1>1 DEF Empty, TypeOK
  <2>. QED
    BY <1>1, <2>1 DEF fileVars, BufferIsFile, Taken, TypeOK, Ready
<1>2. CASE Empty /\ Fetched > 0 /\ FillInbuf(0)
  <2>1. Fetched \in Nat /\ inPos' = 0
    BY <1>2 DEF Fetched, Least, TypeOK, BufferIsFile, FillInbuf
  <2>2. Taken = filePos /\ filePos # fileLen
    BY <1>2 DEF Taken, TypeOK, Fetched, Least, BufferIsFile, Empty
  <2>. QED
    BY <1>2, <2>1, <2>2, FillKeepsBuffer DEF TypeOK, Ready
<1>. QED
  BY <1>1, <1>2 DEF Ready

\* Counting a byte off the limit takes one off what is left of the member.
LEMMA CountKeeps ==
    ASSUME TypeOK, ~Spent, Count
    PROVE  /\ limited' = limited /\ stop' = stop
           /\ lo' \in Word /\ hi' \in Word
           /\ Left' = IF limited THEN Left - 1 ELSE Left
<1>1. CASE limited
  <2>1. ~(lo = 0 /\ hi = 0)
    BY <1>1 DEF Spent
  <2>2. lo' = Dec(lo) /\ hi' = IF lo = 0 THEN Dec(hi) ELSE hi
    BY <1>1 DEF Count
  <2>3. lo \in Word /\ hi \in Word
    BY DEF TypeOK
  <2>4. lo' \in Word /\ hi' \in Word /\ hi' * W + lo' = (hi * W + lo) - 1
    BY <2>1, <2>2, <2>3, BorrowCounts
  <2>5. limited' = limited /\ stop' = stop
    BY <1>1 DEF Count
  <2>6. Left' = Left - 1
    BY <2>4 DEF Left
  <2>. QED
    BY <1>1, <2>4, <2>5, <2>6
<1>2. CASE ~limited
  BY <1>2 DEF Count, limitVars, TypeOK, Left
<1>. QED
  BY <1>1, <1>2 DEF TypeOK
-----------------------------------------------------------------------------
(* The inductive invariant: types, inbuf is a piece of the file, and the   *)
(* two counts agree.  LimitIsMemberEnd needs the other two: a byte counted *)
(* off the limit is a byte that left inbuf.                                *)
LEMMA InitIInv == Init => IInv
<1>. SUFFICES ASSUME Init PROVE IInv
  OBVIOUS
<1>1. TypeOK
  BY DEF Init, TypeOK
<1>2. BufferIsFile
  BY DEF Init, BufferIsFile
<1>3. LimitIsMemberEnd
  BY DEF Init, LimitIsMemberEnd
<1>. QED
  BY <1>1, <1>2, <1>3 DEF IInv

LEMMA NextIInv == IInv /\ [Next]_vars => IInv'
<1>. SUFFICES ASSUME TypeOK, BufferIsFile, LimitIsMemberEnd, [Next]_vars
              PROVE  IInv'
  BY DEF IInv
<1>0. Taken \in Nat /\ Left \in Nat
  BY TwoWordsRange DEF Taken, Left, TypeOK, BufferIsFile
<1>1. CASE GetByte
  <2>1. CASE Fetch /\ Count /\ ret' = (IF Empty THEN inbuf'[0] ELSE inbuf[inPos])
             /\ short' = short
    <3>1. fileLen' = fileLen /\ skipping' = skipping
      BY <1>1 DEF GetByte
    <3>2. Taken' = Taken + 1 /\ BufferIsFile' /\ ret' = Taken /\ ~Spent
      BY <2>1, <3>1, FetchTakesNext
    <3>3. limited' = limited /\ stop' = stop
          /\ Left' = IF limited THEN Left - 1 ELSE Left
      BY <2>1, <3>2, CountKeeps
    <3>4. LimitIsMemberEnd'
      BY <1>0, <3>2, <3>3 DEF LimitIsMemberEnd, TypeOK
    <3>5. TypeOK'
      BY <1>0, <2>1, <3>1, <3>2, FetchTakesNext, CountKeeps DEF TypeOK
    <3>. QED
      BY <3>2, <3>4, <3>5 DEF IInv
  <2>2. CASE Dry /\ ret' = Eof /\ short' = TRUE /\ UNCHANGED limitVars
    <3>1. fileLen' = fileLen /\ skipping' = skipping
      BY <1>1 DEF GetByte
    <3>. QED
      BY <2>2, <3>1, DryKeeps
      DEF IInv, TypeOK, LimitIsMemberEnd, limitVars, Left
  <2>. QED
    BY <1>1, <2>1, <2>2 DEF GetByte
<1>2. CASE PeekByte
  <2>1. fileLen' = fileLen /\ UNCHANGED <<limitVars, short, skipping>>
    BY <1>2 DEF PeekByte
  <2>2. CASE Ready /\ ret' = inbuf'[inPos']
    BY <1>0, <2>1, <2>2, ReadyKeeps
    DEF IInv, TypeOK, LimitIsMemberEnd, limitVars, Left
  <2>3. CASE Dry /\ ret' = Eof
    BY <2>1, <2>3, DryKeeps DEF IInv, TypeOK, LimitIsMemberEnd, limitVars, Left
  <2>. QED
    BY <1>2, <2>2, <2>3 DEF PeekByte
<1>3. CASE InputAvail
  <2>1. fileLen' = fileLen /\ UNCHANGED <<limitVars, short, skipping>>
    BY <1>3 DEF InputAvail
  <2>2. CASE Ready /\ ret' = 1
    BY <2>1, <2>2, ReadyKeeps DEF IInv, TypeOK, LimitIsMemberEnd, limitVars, Left
  <2>3. CASE Dry /\ ret' = 0
    BY <2>1, <2>3, DryKeeps DEF IInv, TypeOK, LimitIsMemberEnd, limitVars, Left
  <2>. QED
    BY <1>3, <2>2, <2>3 DEF InputAvail
<1>4. ASSUME NEW l \in Word, NEW h \in Word, SetInputLimit(l, h)
      PROVE  IInv'
  <2>1. Taken' = Taken /\ BufferIsFile'
    BY <1>4 DEF SetInputLimit, fileVars, BufferIsFile, Taken
  <2>2. h * W + l \in Nat /\ Left' = h * W + l /\ stop' = Taken + h * W + l
    BY <1>4, TwoWordsRange DEF SetInputLimit, Left
  <2>3. h * W \in Nat /\ l \in Nat
    BY DEF Word
  <2>4. stop' \in Nat /\ LimitIsMemberEnd'
    BY <1>0, <2>1, <2>2, <2>3 DEF LimitIsMemberEnd
  <2>. QED
    BY <1>4, <2>1, <2>4 DEF IInv, TypeOK, SetInputLimit, fileVars
<1>5. CASE ClearInputLimit
  BY <1>5 DEF ClearInputLimit, fileVars, IInv, TypeOK, BufferIsFile,
              LimitIsMemberEnd
<1>6. ASSUME UNCHANGED <<fileLen, fileVars, limitVars>>,
             short' \in BOOLEAN, skipping' \in BOOLEAN, ret' = ret
      PROVE  IInv'
  <2>1. TypeOK'
    BY <1>6 DEF fileVars, limitVars, TypeOK
  <2>2. BufferIsFile'
    BY <1>6 DEF fileVars, BufferIsFile
  <2>3. LimitIsMemberEnd'
    BY <1>6 DEF fileVars, limitVars, LimitIsMemberEnd, Taken, Left
  <2>. QED
    BY <2>1, <2>2, <2>3 DEF IInv
<1>10. CASE ClearShort \/ SkipInput \/ UNCHANGED vars
  BY <1>6, <1>10 DEF ClearShort, SkipInput, vars, fileVars, limitVars, TypeOK
<1>7. CASE SkipOne
  <2>1. fileLen' = fileLen /\ UNCHANGED <<short, skipping, ret>>
    BY <1>7 DEF SkipOne
  <2>2. Taken' = Taken + 1 /\ BufferIsFile' /\ ~Spent
    BY <1>7, <2>1, FetchTakesNext DEF SkipOne
  <2>3. limited' = limited /\ stop' = stop
        /\ Left' = IF limited THEN Left - 1 ELSE Left
    BY <1>7, <2>2, CountKeeps DEF SkipOne
  <2>4. LimitIsMemberEnd'
    BY <1>0, <2>2, <2>3 DEF LimitIsMemberEnd, TypeOK
  <2>5. TypeOK'
    BY <1>7, <2>1, <2>2, FetchTakesNext, CountKeeps DEF TypeOK, SkipOne
  <2>. QED
    BY <2>2, <2>4, <2>5 DEF IInv
<1>8. CASE SkipEnd
  <2>1. fileLen' = fileLen /\ UNCHANGED <<limitVars, short, ret>>
        /\ skipping' = FALSE /\ Dry
    BY <1>8 DEF SkipEnd
  <2>. QED
    BY <2>1, DryKeeps DEF IInv, TypeOK, LimitIsMemberEnd, limitVars, Left
<1>9. ASSUME NEW index \in 0 .. fileLen, Reopen(index)
      PROVE  IInv'
  <2>1. Least(index, fileLen) \in 0 .. fileLen /\ ~limited /\ fileLen \in Nat
    BY <1>9 DEF Least, TypeOK, Reopen
  <2>. QED
    BY <1>9, <2>1 DEF Reopen, limitVars, IInv, TypeOK, BufferIsFile,
                      LimitIsMemberEnd
<1>. QED
  BY <1>1, <1>2, <1>3, <1>4, <1>5, <1>7, <1>8, <1>9, <1>10 DEF Next

(* Whatever the callers do, inbuf holds the right piece of the file and    *)
(* the 32-bit limit says exactly how far the member's end is.              *)
THEOREM InputInvariant == Spec => []IInv
<1>. QED
  BY InitIInv, NextIInv, PTL DEF Spec

\* LimitIsMemberEnd, by itself: getbyte's borrow is right for every W.
THEOREM MemberEndKept == Spec => []LimitIsMemberEnd
<1>1. IInv => LimitIsMemberEnd
  BY DEF IInv
<1>. QED
  BY <1>1, InputInvariant, PTL
-----------------------------------------------------------------------------
(* The refinement. *)

\* The stream has nothing to give exactly when the input finds nothing.
LEMMA SpentIsNothing ==
    ASSUME TypeOK
    PROVE  Spent <=> limited /\ Left = 0
  BY TwoWordsRange DEF Spent, Left, TypeOK

LEMMA InitRefines == Init => Stream!SInit
<1>. SUFFICES ASSUME Init PROVE Stream!SInit
  OBVIOUS
<1>1. hi * W + lo \in 0 .. W * W - 1
  BY TwoWordsRange DEF Init
<1>2. fileLen \in Nat /\ Taken = 0
  BY DEF Init, Taken
<1>3. Left \in 0 .. W * W - 1
  BY <1>1 DEF Left
<1>4. limited \in BOOLEAN /\ short \in BOOLEAN /\ skipping = FALSE
  BY DEF Init
<1>5. ret = Stream!Eof
  BY DEF Init, Eof, Stream!Eof
<1>. QED
  BY <1>2, <1>3, <1>4, <1>5 DEF Stream!SInit

LEMMA NextRefines == IInv /\ [Next]_vars => [Stream!SNext]_(Stream!svars)
<1>. SUFFICES ASSUME TypeOK, BufferIsFile, [Next]_vars
              PROVE  [Stream!SNext]_(Stream!svars)
  BY DEF IInv
<1>. USE DEF Stream!Nothing
<1>0. Spent <=> limited /\ Left = 0
  BY SpentIsNothing
<1>1. CASE GetByte
  <2>0. ~skipping /\ UNCHANGED <<fileLen, skipping>>
    BY <1>1 DEF GetByte
  <2>1. CASE Fetch /\ Count /\ ret' = (IF Empty THEN inbuf'[0] ELSE inbuf[inPos])
             /\ short' = short
    <3>1. Taken' = Taken + 1 /\ ret' = Taken /\ ~Spent /\ Taken # fileLen
      BY <2>0, <2>1, FetchTakesNext
    <3>2. limited' = limited /\ Left' = IF limited THEN Left - 1 ELSE Left
      BY <2>1, <3>1, CountKeeps
    <3>. QED
      BY <1>0, <2>0, <2>1, <3>1, <3>2
      DEF Stream!SNext, Stream!SGet, Stream!Advance
  <2>2. CASE Dry /\ ret' = Eof /\ short' = TRUE /\ UNCHANGED limitVars
    BY <1>0, <2>0, <2>2, DryKeeps
    DEF Stream!SNext, Stream!SGet, limitVars, Left, Eof, Stream!Eof
  <2>. QED
    BY <1>1, <2>1, <2>2 DEF GetByte
<1>2. CASE PeekByte
  <2>1. ~skipping /\ UNCHANGED <<fileLen, limitVars, short, skipping>>
    BY <1>2 DEF PeekByte
  <2>2. CASE Ready /\ ret' = inbuf'[inPos']
    BY <1>0, <2>1, <2>2, ReadyKeeps
    DEF Stream!SNext, Stream!SPeek, limitVars, Left
  <2>3. CASE Dry /\ ret' = Eof
    BY <1>0, <2>1, <2>3, DryKeeps
    DEF Stream!SNext, Stream!SPeek, limitVars, Left, Eof, Stream!Eof
  <2>. QED
    BY <1>2, <2>2, <2>3 DEF PeekByte
<1>3. CASE InputAvail
  <2>1. ~skipping /\ UNCHANGED <<fileLen, limitVars, short, skipping>>
    BY <1>3 DEF InputAvail
  <2>2. CASE Ready /\ ret' = 1
    BY <1>0, <2>1, <2>2, ReadyKeeps
    DEF Stream!SNext, Stream!SAvail, limitVars, Left
  <2>3. CASE Dry /\ ret' = 0
    BY <1>0, <2>1, <2>3, DryKeeps
    DEF Stream!SNext, Stream!SAvail, limitVars, Left
  <2>. QED
    BY <1>3, <2>2, <2>3 DEF InputAvail
<1>4. ASSUME NEW l \in Word, NEW h \in Word, SetInputLimit(l, h)
      PROVE  [Stream!SNext]_(Stream!svars)
  <2>1. Left' \in 0 .. W * W - 1
    BY <1>4, TwoWordsRange DEF SetInputLimit, Left
  <2>. QED
    BY <1>4, <2>1 DEF Stream!SNext, Stream!SSetLimit, SetInputLimit, fileVars, Taken
<1>5. CASE ClearInputLimit
  BY <1>5 DEF Stream!SNext, Stream!SClearLimit, ClearInputLimit, fileVars, Taken, Left
<1>6. CASE ClearShort
  BY <1>6 DEF Stream!SNext, Stream!SClearShort, ClearShort, fileVars, limitVars,
              Taken, Left
<1>7. CASE SkipInput
  BY <1>7 DEF Stream!SNext, Stream!SSkip, SkipInput, fileVars, limitVars, Taken, Left
<1>8. CASE SkipOne
  <2>1. skipping /\ UNCHANGED <<fileLen, short, skipping, ret>>
    BY <1>8 DEF SkipOne
  <2>2. Taken' = Taken + 1 /\ ~Spent /\ Taken # fileLen
    BY <1>8, <2>1, FetchTakesNext DEF SkipOne
  <2>3. limited' = limited /\ Left' = IF limited THEN Left - 1 ELSE Left
    BY <1>8, <2>2, CountKeeps DEF SkipOne
  <2>. QED
    BY <1>0, <2>1, <2>2, <2>3 DEF Stream!SNext, Stream!SSkip, Stream!Advance
<1>9. CASE SkipEnd
  <2>1. skipping /\ Dry /\ skipping' = FALSE /\ UNCHANGED <<fileLen, limitVars, short, ret>>
    BY <1>9 DEF SkipEnd
  <2>. QED
    BY <1>0, <2>1, DryKeeps DEF Stream!SNext, Stream!SSkip, limitVars, Left
<1>10. ASSUME NEW index \in 0 .. fileLen, Reopen(index)
       PROVE  [Stream!SNext]_(Stream!svars)
  <2>1. Taken' \in 0 .. fileLen
    BY <1>10 DEF Reopen, Least, Taken, TypeOK
  <2>. QED
    BY <1>10, <2>1 DEF Stream!SNext, Stream!SReopen, Reopen, limitVars, Left
<1>11. CASE UNCHANGED vars
  BY <1>11 DEF vars, Stream!svars, Taken, Left
<1>. QED
  BY <1>1, <1>2, <1>3, <1>4, <1>5, <1>6, <1>7, <1>8, <1>9, <1>10, <1>11 DEF Next

(* The buffered input of io.plm, with its two-word limit, implements the   *)
(* plain stream: its callers may reason about MemberStream instead.        *)
THEOREM InputImplementsStream == Spec => Implements
<1>. QED
  BY InputInvariant, InitRefines, NextRefines, PTL
  DEF Spec, Implements, Stream!StreamSpec
=============================================================================
