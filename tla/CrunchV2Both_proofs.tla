------------------------- MODULE CrunchV2Both_proofs -------------------------
(***************************************************************************)
(* The Crunch V2 dictionary stays sound, for every size of its tables and  *)
(* every sequence of codes: IInv of CrunchV2 is inductive, and from it an  *)
(* entry that others are built on is never recycled.  And the two Crunch   *)
(* V2 decoders write the same bytes for every stream, for every hash       *)
(* function too: they keep the same dictionary.                            *)
(*                                                                         *)
(* First the dictionary of the CP/M program: the hash table decides which  *)
(* unused entry is recycled; that it is an unused one is all the argument  *)
(* needs, so nothing is proved of what the hash table holds.  Then what    *)
(* the walk from a code to its first byte gives (Walked), what the CP/M    *)
(* program writes, and the two side by side.                               *)
(***************************************************************************)
EXTENDS CrunchV2Both, FiniteSets, FiniteSetTheorems, SequenceTheorems,
        WellFoundedInduction, TLAPS


(* What crunch$replace (crunch.plm) recycles, no code has named.           *)
LEMMA VictimsUnused ==
    ASSUME NEW p, NEW s, NEW isUsed, NEW c \in Victims(p, s, isUsed), c \in Codes
    PROVE  ~isUsed[c]
<1> DEFINE stops == {i \in Slots : \/ hash[i] = Free
                                   \/ /\ hash[i] \in Codes
                                      /\ ~isUsed[hash[i]]}
<1>1. PICK i \in FirstSlot(p, s, stops) : c = hash[i]
  BY DEF Victims
<1>2. i \in stops
  BY DEF FirstSlot
<1> QED
  BY <1>1, <1>2, c # Free DEF Codes, Free

(* A byte divided by what its high half counts: high(n) = t means n has    *)
(* come as far as t times 256 (the test of crunch$add$entry).              *)
LEMMA HighReached ==
    ASSUME NEW n \in Nat, NEW t \in Nat, NEW u \in Nat \ {0}, n \div u = t
    PROVE  u * t <= n
  BY SMT

LEMMA HighNat == ASSUME NEW n \in Nat, NEW u \in Nat \ {0} PROVE n \div u \in Nat
BY SMT

(* The width of the codes keeps up with an entry made.                     *)
LEMMA AddKeepsWidth ==
    ASSUME TypeOK, WidthKeepsUp, FullWhenReplacing, ~replacing,
           NEW p, NEW s, AddEntry(p, s)
    PROVE  /\ next' = next + 1 /\ next' \in Nat
           /\ bits' \in InitBits .. MaxBits /\ threshold' \in Nat
           /\ state' \in {"filling", "last"} /\ replacing' \in BOOLEAN
           /\ WidthKeepsUp' /\ FullWhenReplacing'
<1> DEFINE full == (next + 2) \div HighUnit = threshold
<1>1. /\ next \in Nat /\ bits \in InitBits .. MaxBits /\ threshold \in Nat
      /\ InitBits \in Nat /\ MaxBits \in Nat /\ HighUnit \in Nat \ {0}
      /\ state \in {"filling", "last"} /\ TableSize \in Nat
  BY BitsAssumption, SizeAssumption DEF TypeOK
<1>2. 2 ^ bits \in Nat \ {0} /\ 2 ^ (bits + 1) = 2 * 2 ^ bits
  BY <1>1, PowerAssumption
<1>3. /\ next' = next + 1
      /\ threshold' = IF full THEN 2 * threshold ELSE threshold
      /\ bits' = IF full /\ bits < MaxBits THEN bits + 1 ELSE bits
      /\ state' = IF (full /\ bits >= MaxBits) \/ state # "filling" THEN "last" ELSE state
      /\ replacing' \in BOOLEAN /\ (replacing' => state = "last")
  <2>1. replacing' = (state = "last" /\ ~(full /\ bits >= MaxBits))
    BY DEF AddEntry
  <2> QED
    BY <2>1 DEF AddEntry
<1>4. full => HighUnit * threshold <= next + 2
  BY <1>1, HighReached
<1>5. ~full /\ state = "filling" => next + 2 # 2 ^ bits
  <2> SUFFICES ASSUME state = "filling", next + 2 = 2 ^ bits
               PROVE  full
    OBVIOUS
  <2>1. next + 2 = HighUnit * threshold
    BY DEF FullWhenReplacing
  <2> QED
    BY <2>1, <1>1, SMT
<1> HIDE DEF full
<1>6. CASE state = "filling"
  <2>1. HighUnit * threshold = 2 ^ bits /\ next + 2 <= 2 ^ bits
    BY <1>6 DEF FullWhenReplacing, WidthKeepsUp
  <2>2. CASE full /\ bits < MaxBits
    <3>1. 2 ^ bits' = 2 * 2 ^ bits
      BY <1>2, <1>3, <2>2
    <3>2. HighUnit * (2 * threshold) = 2 * (HighUnit * threshold)
      BY <1>1, SMT
    <3>3. next' + 2 <= 2 ^ bits' /\ HighUnit * threshold' = 2 ^ bits'
      BY <1>1, <1>2, <1>3, <2>1, <2>2, <3>1, <3>2
    <3>4. state' = "filling" /\ ~replacing' /\ bits' \in InitBits .. MaxBits
      BY <1>1, <1>3, <1>6, <2>2
    <3> QED
      BY <1>1, <1>3, <3>3, <3>4 DEF WidthKeepsUp, FullWhenReplacing
  <2>3. CASE full /\ bits >= MaxBits
    <3>1. bits = MaxBits /\ TableSize <= next + 2
      BY <1>1, <1>4, <2>1, <2>3, SizeAssumption
    <3> QED
      BY <1>1, <1>2, <1>3, <1>6, <2>3, <3>1 DEF WidthKeepsUp, FullWhenReplacing
  <2>4. CASE ~full
    <3>1. next' + 2 <= 2 ^ bits' /\ HighUnit * threshold' = 2 ^ bits'
      BY <1>1, <1>2, <1>3, <1>5, <1>6, <2>1, <2>4
    <3>2. state' = "filling" /\ ~replacing'
      BY <1>1, <1>3, <1>6, <2>4
    <3> QED
      BY <1>1, <1>3, <2>4, <3>1, <3>2 DEF WidthKeepsUp, FullWhenReplacing
  <2> QED
    BY <1>1, <2>2, <2>3, <2>4
<1>7. CASE state = "last"
  <2>1. next + 1 >= TableSize /\ bits = MaxBits
    BY <1>7 DEF FullWhenReplacing
  <2> QED
    BY <1>1, <1>3, <1>7, <2>1 DEF WidthKeepsUp, FullWhenReplacing
<1> QED
  BY <1>1, <1>6, <1>7

(* The width a stream starts with, and starts with again after a reset.    *)
LEMMA StartWidth ==
    /\ Seeds \in Nat /\ InitBits \in InitBits .. MaxBits
    /\ 2 ^ InitBits \div HighUnit \in Nat
    /\ HighUnit * (2 ^ InitBits \div HighUnit) = 2 ^ InitBits
    /\ Seeds + 2 <= 2 ^ InitBits
<1>1. InitBits \in InitBits .. MaxBits /\ Seeds \in Nat
  BY BitsAssumption, SizeAssumption DEF Seeds
<1>2. 2 ^ InitBits \in Nat /\ HighUnit \in Nat \ {0}
  BY <1>1, PowerAssumption, BitsAssumption
<1> QED
  BY <1>1, <1>2, HighNat, SizeAssumption, BitsAssumption

LEMMA InitIInv == Init => IInv
<1> SUFFICES ASSUME Init PROVE IInv
  OBVIOUS
<1>1. /\ NRoots \in Nat \ {0} /\ NControl \in Nat /\ NControl >= 2 /\ TableSize \in Nat
      /\ Seeds \in Nat /\ next = Seeds
  BY SizeAssumption DEF Seeds, Init
<1>2. /\ next \in Nat /\ next >= Seeds /\ bits \in InitBits .. MaxBits
      /\ threshold \in Nat /\ state \in {"filling", "last"} /\ replacing \in BOOLEAN
      /\ WidthKeepsUp /\ FullWhenReplacing
  <2>1. replacing \in BOOLEAN /\ ~replacing
    BY DEF Init
  <2> QED
    BY <2>1, StartWidth DEF Init, WidthKeepsUp, FullWhenReplacing
<1>3. prefix \in [Codes -> Codes \union {None, Reserved}]
  <2>1. \A c \in Codes : [d \in Codes |-> Reserved][c] = Reserved
                         /\ [d \in Codes |-> None][c] = None
    OBVIOUS
  <2>2. prefix = Seeded([c \in Codes |-> Reserved], [c \in Codes |-> None], Reserved)
    BY DEF Init
  <2> QED
    BY <2>1, <2>2 DEF Seeded
<1>4. len \in [Codes -> Nat]
  <2>1. \A c \in Codes : [d \in Codes |-> 0][c] = 0 /\ [d \in Codes |-> 1][c] = 1
    OBVIOUS
  <2>2. len = Seeded([c \in Codes |-> 0], [c \in Codes |-> 1], 0)
    BY DEF Init
  <2> QED
    BY <2>1, <2>2 DEF Seeded
<1>5. used = [c \in Codes |-> c < Seeds] /\ used \in [Codes -> BOOLEAN]
  BY DEF Init
<1>6. prev = None /\ done = FALSE
  BY DEF Init
<1>7. TypeOK
  BY <1>2, <1>3, <1>4, <1>5, <1>6 DEF TypeOK
<1>8. PrefixUsed /\ LengthsFall
  BY <1>1 DEF PrefixUsed, LengthsFall, Entry, Codes
<1>9. PrevUsed /\ SeedsUsed
  BY <1>5, <1>6 DEF PrevUsed, SeedsUsed
<1> QED
  BY <1>2, <1>7, <1>8, <1>9 DEF IInv

(* Each step that makes or recycles an entry, apart from the width.        *)
LEMMA AddKeepsDictionary ==
    ASSUME IInv, prev # None, ~done, ~replacing,
           NEW c \in Codes \ Control, ~Unknown(c), NEW s, AddEntry(prev, s),
           used' = [used EXCEPT ![c] = TRUE], prev' = c, done' = done
    PROVE  IInv'
<1>1. TypeOK /\ PrefixUsed /\ LengthsFall /\ PrevUsed /\ SeedsUsed
      /\ WidthKeepsUp /\ FullWhenReplacing
  BY DEF IInv
<1>2. /\ next' = next + 1 /\ next' \in Nat
      /\ bits' \in InitBits .. MaxBits /\ threshold' \in Nat
      /\ state' \in {"filling", "last"} /\ replacing' \in BOOLEAN
      /\ WidthKeepsUp' /\ FullWhenReplacing'
  BY <1>1, AddKeepsWidth
<1>3. /\ next \in Nat /\ next >= Seeds /\ Seeds \in Nat /\ TableSize \in Nat
      /\ NRoots \in Nat /\ NControl \in Nat /\ Seeds = NRoots + NControl
  BY <1>1, SizeAssumption DEF TypeOK, Seeds
<1>4. prev \in Codes \ Control /\ prev < next /\ used[prev] /\ len[prev] \in Nat
  BY <1>1 DEF PrevUsed, Live, TypeOK
<1>5. /\ prefix' = IF next \in Codes THEN [prefix EXCEPT ![next] = prev] ELSE prefix
      /\ len' = IF next \in Codes THEN [len EXCEPT ![next] = len[prev] + 1] ELSE len
  BY DEF AddEntry
<1>6. /\ prefix \in [Codes -> Codes \union {None, Reserved}]
      /\ len \in [Codes -> Nat] /\ used \in [Codes -> BOOLEAN]
      /\ done \in BOOLEAN
  BY <1>1 DEF TypeOK
<1>7. TypeOK'
  <2>1. prefix' \in [Codes -> Codes \union {None, Reserved}] /\ len' \in [Codes -> Nat]
    BY <1>4, <1>5, <1>6
  <2>2. used' \in [Codes -> BOOLEAN] /\ prev' \in Codes \union {None} /\ done' \in BOOLEAN
    BY <1>6
  <2>3. next' >= Seeds
    BY <1>2, <1>3
  <2> QED
    BY <1>2, <2>1, <2>2, <2>3 DEF TypeOK
<1>8. \A d \in Codes : used[d] => used'[d]
  BY <1>6
<1>9. used'[c]
  BY <1>6
<1>10. ASSUME NEW d \in Codes, Entry(d)', d # next
       PROVE  /\ prefix'[d] = prefix[d] /\ prefix[d] \in Codes \ Control
              /\ Live(prefix[d]) /\ prefix[d] < next' /\ used'[prefix[d]]
              /\ len'[d] = len[d] /\ len'[prefix[d]] = len[prefix[d]]
              /\ len[d] = len[prefix[d]] + 1
  <2>1. Entry(d)
    BY <1>2, <1>3, <1>10 DEF Entry, Codes
  <2>2. prefix[d] \in Codes \ Control /\ Live(prefix[d]) /\ used[prefix[d]]
        /\ len[d] = len[prefix[d]] + 1
    BY <1>1, <2>1 DEF PrefixUsed, LengthsFall
  <2>3. prefix[d] # next /\ prefix[d] < next'
    BY <1>2, <1>3, <2>2 DEF Live, Codes
  <2> QED
    BY <1>5, <1>6, <1>8, <1>10, <2>2, <2>3
<1>11. ASSUME next \in Codes
       PROVE  /\ prefix'[next] = prev /\ prev < next' /\ used'[prev]
              /\ len'[next] = len[prev] + 1 /\ len'[prev] = len[prev]
  <2>1. prev # next /\ prev < next + 1
    BY <1>3, <1>4 DEF Codes
  <2> QED
    BY <1>2, <1>4, <1>5, <1>6, <1>8, <1>11, <2>1 DEF Live
<1>12. PrefixUsed'
  BY <1>4, <1>10, <1>11 DEF PrefixUsed, Live
<1>13. LengthsFall'
  BY <1>4, <1>10, <1>11 DEF LengthsFall
<1>14. PrevUsed'
  <2>1. c <= next
    BY <1>3 DEF Unknown, Codes
  <2>2. c < next'
    BY <1>2, <1>3, <2>1 DEF Codes
  <2> QED
    BY <1>9, <2>2 DEF PrevUsed, Live
<1>15. SeedsUsed'
  BY <1>1, <1>8 DEF SeedsUsed
<1> QED
  BY <1>2, <1>7, <1>12, <1>13, <1>14, <1>15 DEF IInv

LEMMA ReplaceKeepsDictionary ==
    ASSUME IInv, prev # None, ~done, replacing,
           NEW c \in Codes \ Control, ~Unknown(c), NEW s, Replace(prev, s),
           used' = [used EXCEPT ![c] = TRUE], prev' = c, done' = done
    PROVE  IInv'
<1> DEFINE victims == Victims(prev, s, used')
<1>1. TypeOK /\ PrefixUsed /\ LengthsFall /\ PrevUsed /\ SeedsUsed
      /\ WidthKeepsUp /\ FullWhenReplacing
  BY DEF IInv
<1>2. /\ prefix' = [d \in Codes |-> IF d \in victims THEN prev ELSE prefix[d]]
      /\ len' = [d \in Codes |-> IF d \in victims THEN len[prev] + 1 ELSE len[d]]
      /\ next' = next /\ bits' = bits /\ threshold' = threshold
      /\ state' = state /\ replacing' = replacing
  BY DEF Replace, width
<1>3. \A d \in Codes : d \in victims => ~used'[d]
  BY VictimsUnused
<1> HIDE DEF victims
<1>4. prev \in Codes \ Control /\ prev < next /\ used[prev] /\ len[prev] \in Nat
  BY <1>1 DEF PrevUsed, Live, TypeOK
<1>5. /\ prefix \in [Codes -> Codes \union {None, Reserved}]
      /\ len \in [Codes -> Nat] /\ used \in [Codes -> BOOLEAN]
      /\ done \in BOOLEAN
  BY <1>1 DEF TypeOK
<1>6. (\A d \in Codes : used[d] => used'[d]) /\ used'[c] /\ used' \in [Codes -> BOOLEAN]
  BY <1>5
<1>7. TypeOK'
  <2>1. prefix' \in [Codes -> Codes \union {None, Reserved}] /\ len' \in [Codes -> Nat]
    BY <1>2, <1>4, <1>5
  <2>2. prev' \in Codes \union {None} /\ done' \in BOOLEAN
    BY <1>5
  <2> QED
    BY <1>1, <1>2, <1>6, <2>1, <2>2 DEF TypeOK
<1>8. \A d \in Codes : used[d] => d \notin victims /\ prefix'[d] = prefix[d] /\ len'[d] = len[d]
  BY <1>2, <1>3, <1>6
<1>9. ASSUME NEW d \in Codes, Entry(d)'
      PROVE  /\ prefix'[d] \in Codes \ Control /\ prefix'[d] < next' /\ used'[prefix'[d]]
             /\ len'[d] = len'[prefix'[d]] + 1
  <2>1. Entry(d)
    BY <1>2, <1>9 DEF Entry
  <2>2. prefix[d] \in Codes \ Control /\ prefix[d] < next /\ used[prefix[d]]
        /\ len[d] = len[prefix[d]] + 1
    BY <1>1, <2>1 DEF PrefixUsed, LengthsFall, Live
  <2>3. CASE d \in victims
    <3>1. prefix'[d] = prev /\ len'[d] = len[prev] + 1
      BY <1>2, <2>3
    <3> QED
      BY <1>2, <1>4, <1>6, <1>8, <3>1
  <2>4. CASE d \notin victims
    <3>1. prefix'[d] = prefix[d] /\ len'[d] = len[d]
      BY <1>2, <2>4
    <3> QED
      BY <1>2, <1>6, <1>8, <2>2, <3>1
  <2> QED
    BY <2>3, <2>4
<1>10. PrefixUsed'
  BY <1>9 DEF PrefixUsed, Live
<1>11. LengthsFall'
  BY <1>9 DEF LengthsFall
<1>12. PrevUsed'
  <2>1. TableSize \in Nat /\ next \in Nat
    BY <1>1, SizeAssumption DEF TypeOK
  <2>2. next >= TableSize
    BY <1>1 DEF FullWhenReplacing
  <2>3. c < next'
    BY <1>2, <2>1, <2>2 DEF Codes
  <2> QED
    BY <1>6, <2>3 DEF PrevUsed, Live
<1>13. SeedsUsed'
  BY <1>1, <1>6 DEF SeedsUsed
<1>14. WidthKeepsUp' /\ FullWhenReplacing'
  BY <1>1, <1>2 DEF WidthKeepsUp, FullWhenReplacing
<1> QED
  BY <1>7, <1>10, <1>11, <1>12, <1>13, <1>14 DEF IInv

(* A step that makes no entry may still mark one used.                     *)
LEMMA MarkKeepsDictionary ==
    ASSUME IInv, UNCHANGED <<prefix, len, width>>, NEW c \in Codes,
           used' \in {used, [used EXCEPT ![c] = TRUE]},
           prev' \in Codes \union {None}, done' \in BOOLEAN, PrevUsed'
    PROVE  IInv'
<1>1. TypeOK /\ PrefixUsed /\ LengthsFall /\ PrevUsed /\ SeedsUsed
      /\ WidthKeepsUp /\ FullWhenReplacing
  BY DEF IInv
<1>2. /\ prefix' = prefix /\ len' = len /\ next' = next /\ bits' = bits
      /\ threshold' = threshold /\ state' = state /\ replacing' = replacing
  BY DEF width
<1>3. used' \in [Codes -> BOOLEAN] /\ \A d \in Codes : used[d] => used'[d]
  BY <1>1 DEF TypeOK
<1>4. TypeOK'
  BY <1>1, <1>2, <1>3 DEF TypeOK
<1>5. PrefixUsed' /\ LengthsFall'
  BY <1>1, <1>2, <1>3 DEF PrefixUsed, LengthsFall, Entry, Live
<1>6. SeedsUsed'
  BY <1>1, <1>3 DEF SeedsUsed
<1>7. WidthKeepsUp' /\ FullWhenReplacing'
  BY <1>1, <1>2 DEF WidthKeepsUp, FullWhenReplacing
<1> QED
  BY <1>4, <1>5, <1>6, <1>7 DEF IInv

(* A reset seeds the dictionary and the width again.                       *)
LEMMA ResetKeepsDictionary ==
    ASSUME IInv, NEW c, DecodeReset(c)
    PROVE  IInv'
<1>1. TypeOK
  BY DEF IInv
<1>2. /\ next' = Seeds /\ bits' = InitBits /\ threshold' = 2 ^ InitBits \div HighUnit
      /\ state' = "filling" /\ replacing' = FALSE /\ prev' = None /\ done' = done
      /\ used' = [d \in Codes |-> d < Seeds]
      /\ prefix' = Seeded(prefix, [d \in Codes |-> None], Reserved)
      /\ len' = Seeded(len, [d \in Codes |-> 1], 0)
  BY DEF DecodeReset, InitLzw
<1>3. /\ next' \in Nat /\ next' >= Seeds /\ bits' \in InitBits .. MaxBits
      /\ threshold' \in Nat /\ state' \in {"filling", "last"} /\ replacing' \in BOOLEAN
      /\ WidthKeepsUp' /\ FullWhenReplacing'
  <2>1. replacing' \in BOOLEAN /\ ~replacing'
    BY <1>2
  <2> QED
    BY <1>2, <2>1, StartWidth DEF WidthKeepsUp, FullWhenReplacing
<1>4. TypeOK'
  <2>1. prefix' \in [Codes -> Codes \union {None, Reserved}]
    <3>1. \A d \in Codes : [e \in Codes |-> None][d] = None
      OBVIOUS
    <3> QED
      BY <1>1, <1>2, <3>1 DEF Seeded, TypeOK
  <2>2. len' \in [Codes -> Nat]
    <3>1. \A d \in Codes : [e \in Codes |-> 1][d] = 1
      OBVIOUS
    <3> QED
      BY <1>1, <1>2, <3>1 DEF Seeded, TypeOK
  <2>3. used' \in [Codes -> BOOLEAN] /\ prev' \in Codes \union {None} /\ done' \in BOOLEAN
    BY <1>1, <1>2 DEF TypeOK
  <2> QED
    BY <1>3, <2>1, <2>2, <2>3 DEF TypeOK
<1>5. \A d \in Codes : ~Entry(d)'
  BY <1>2, SizeAssumption DEF Entry, Codes, Seeds
<1>6. PrefixUsed' /\ LengthsFall'
  BY <1>5 DEF PrefixUsed, LengthsFall
<1>7. PrevUsed' /\ SeedsUsed'
  BY <1>2 DEF PrevUsed, SeedsUsed
<1> QED
  BY <1>3, <1>4, <1>6, <1>7 DEF IInv

LEMMA NextIInv == IInv /\ [Next]_vars => IInv'
<1> SUFFICES ASSUME IInv, [Next]_vars PROVE IInv'
  OBVIOUS
<1>1. TypeOK /\ PrevUsed /\ NRoots \in Nat \ {0} /\ Seeds \in Nat /\ TableSize \in Nat
      /\ Seeds <= TableSize
  BY SizeAssumption DEF IInv, Seeds
<1>2. 0 \in Codes
  BY <1>1, SizeAssumption DEF Codes, Seeds
<1>3. CASE UNCHANGED vars
  <2>1. PrevUsed'
    BY <1>1, <1>3 DEF PrevUsed, Live, vars, width, table
  <2> QED
    BY <1>1, <1>2, <1>3, <2>1, MarkKeepsDictionary DEF vars, table, TypeOK
<1>4. ASSUME NEW c \in Readable, ~done, DecodeCode(c)
      PROVE  IInv'
  <2>1. c \in Codes \ Control /\ ~Unknown(c) /\ prev' = c /\ done' = done
        /\ used' = [used EXCEPT ![c] = TRUE]
    BY <1>4 DEF DecodeCode, Readable
  <2>2. CASE prev = None
    <3>1. UNCHANGED <<prefix, len, width>>
      BY <1>4, <2>2 DEF DecodeCode, table
    <3>2. PrevUsed'
      <4>1. used'[c]
        BY <1>1, <2>1 DEF TypeOK
      <4>2. c < next'
        BY <1>1, <2>1, <2>2, <3>1 DEF Unknown, TypeOK, width, Codes
      <4> QED
        BY <2>1, <4>1, <4>2 DEF PrevUsed, Live
    <3> QED
      BY <1>1, <2>1, <3>1, <3>2, MarkKeepsDictionary DEF TypeOK
  <2>3. CASE prev # None /\ replacing
    BY <1>4, <2>1, <2>3, ReplaceKeepsDictionary DEF DecodeCode
  <2>4. CASE prev # None /\ ~replacing
    BY <1>4, <2>1, <2>4, AddKeepsDictionary DEF DecodeCode
  <2> QED
    BY <2>2, <2>3, <2>4
<1>5. ASSUME NEW c \in Readable, DecodeUnknown(c)
      PROVE  IInv'
  BY <1>5, MarkKeepsDictionary DEF DecodeUnknown, Readable, table, PrevUsed
<1>6. ASSUME NEW c \in Readable, OutputFails(c)
      PROVE  IInv'
  BY <1>1, <1>6, MarkKeepsDictionary DEF OutputFails, Readable, table, PrevUsed, TypeOK
<1>7. CASE DecodeEnd
  BY <1>1, <1>2, <1>7, MarkKeepsDictionary DEF DecodeEnd, table, PrevUsed, TypeOK
<1>8. ASSUME NEW c \in Readable, DecodeReset(c)
      PROVE  IInv'
  BY <1>8, ResetKeepsDictionary
<1>9. ASSUME NEW c \in Readable, DecodeFiller(c)
      PROVE  IInv'
  BY <1>3, <1>9 DEF DecodeFiller
<1> QED
  BY <1>3, <1>4, <1>5, <1>6, <1>7, <1>8, <1>9 DEF Next

(* The dictionary stays sound: every entry rests on one a code has named,  *)
(* one byte shorter than itself, so lzw$output and lzw$first$byte          *)
(* (crunch.plm) come to a single byte whatever codes the stream holds.     *)
THEOREM DictionaryInvariant == Spec => []IInv
<1>1. Init => IInv
  BY InitIInv
<1>2. IInv /\ [Next]_vars => IInv'
  BY NextIInv
<1> QED
  BY <1>1, <1>2, PTL DEF Spec

(* The width of the codes keeps up with the dictionary, so that a code can *)
(* always name the entry crunch$add$entry (crunch.plm) is about to make.   *)
THEOREM WidthInvariant == Spec => []WidthKeepsUp
BY DictionaryInvariant, PTL DEF IInv

(* crunch$replace (crunch.plm) never recycles an entry others rest on: one *)
(* is recycled only while unused, and the prefix of an entry is used.      *)
LEMMA NextMeaning ==
    IInv /\ [Next]_vars =>
      (next' >= next =>
         \A c, d \in Codes : Entry(c) /\ Entry(d) /\ prefix[d] = c
                               => prefix'[c] = prefix[c] /\ suffix'[c] = suffix[c])
<1> SUFFICES ASSUME IInv, [Next]_vars, next' >= next,
                    NEW c \in Codes, NEW d \in Codes,
                    Entry(c), Entry(d), prefix[d] = c
             PROVE  prefix'[c] = prefix[c] /\ suffix'[c] = suffix[c]
  OBVIOUS
<1>1. TypeOK /\ used[c] /\ next \in Nat /\ Seeds \in Nat
  BY SizeAssumption DEF IInv, PrefixUsed, TypeOK, Seeds
<1>2. CASE UNCHANGED <<prefix, suffix>>
  BY <1>2
<1>3. ASSUME NEW e \in Readable, DecodeReset(e)
      PROVE  FALSE
  BY <1>1, <1>3 DEF DecodeReset, InitLzw, Entry, Codes
<1>4. ASSUME NEW e \in Readable, DecodeCode(e)
      PROVE  prefix'[c] = prefix[c] /\ suffix'[c] = suffix[c]
  <2>1. CASE prev = None
    BY <1>4, <2>1, <1>2 DEF DecodeCode, table
  <2>2. CASE prev # None /\ replacing
    <3>1. Replace(prev, Head(out')) /\ used' = [used EXCEPT ![e] = TRUE]
      BY <1>4, <2>2 DEF DecodeCode
    <3>2. used'[c]
      BY <1>1, <3>1 DEF TypeOK, Readable
    <3>3. c \notin Victims(prev, Head(out'), used')
      BY <3>2, VictimsUnused
    <3> QED
      BY <3>1, <3>3 DEF Replace
  <2>3. CASE prev # None /\ ~replacing
    <3>1. AddEntry(prev, Head(out'))
      BY <1>4, <2>3 DEF DecodeCode
    <3>2. c # next
      BY <1>1 DEF Entry, Codes
    <3>3. /\ prefix'[c] = prefix[c]
          /\ suffix' = IF next \in Codes THEN [suffix EXCEPT ![next] = Head(out')] ELSE suffix
      BY <1>1, <3>1, <3>2 DEF AddEntry, TypeOK
    <3> QED
      BY <3>2, <3>3
  <2> QED
    BY <2>1, <2>2, <2>3
<1> QED
  BY <1>2, <1>3, <1>4
     DEF Next, DecodeUnknown, OutputFails, DecodeEnd, DecodeFiller, table, vars

THEOREM MeaningIsKept == Spec => MeaningKept
<1>1. IInv /\ [Next]_vars =>
        [next' >= next =>
           \A c, d \in Codes : Entry(c) /\ Entry(d) /\ prefix[d] = c
                                 => prefix'[c] = prefix[c] /\ suffix'[c] = suffix[c]]_vars
  BY NextMeaning
<1> QED
  BY <1>1, DictionaryInvariant, PTL DEF Spec, MeaningKept
-----------------------------------------------------------------------------
\* A set of numbers that is not empty has a least one.
LEMMA LeastOf ==
    ASSUME NEW S, S \subseteq Nat, S # {}
    PROVE  \E m \in S : \A n \in S : m <= n
<1>1. PICK m \in S : \A n \in S : ~(<<n, m>> \in OpToRel(<, Nat))
  BY NatLessThanWellFounded, WFMin, Zenon
<1>2. \A n \in S : ~(n < m)
  BY <1>1 DEF OpToRel
<1> QED
  BY <1>2
-----------------------------------------------------------------------------
(* The walk.                                                               *)
WalkStep(f, pre, suf, n, k) == IF pre[k] = None \/ n = 0 THEN <<suf[k]>>
                               ELSE Append(f[n - 1][pre[k]], suf[k])
Steps == 0 .. TableSize - 1
IsWalk(f, pre, suf) == f = [n \in Steps |-> [k \in Codes |-> WalkStep(f, pre, suf, n, k)]]

\* There is always a first step, and at least one entry.
LEMMA SomeSteps == TableSize \in Nat /\ TableSize >= 1 /\ 0 \in Steps /\ TableSize - 1 \in Steps
<1>1. TableSize \in Nat /\ TableSize >= 1
  BY SizeAssumption DEF Seeds
<1> QED
  BY <1>1 DEF Steps

\* Walked is the recursion its definition describes.
LEMMA WalkedIs ==
    ASSUME NEW pre, NEW suf
    PROVE  \E f : IsWalk(f, pre, suf) /\ \A c : Walked(pre, suf, c) = f[TableSize - 1][c]
<1> DEFINE UpTo(f, n) == f = [m \in 0 .. n |-> [k \in Codes |-> WalkStep(f, pre, suf, m, k)]]
           Bad == {n \in Nat : ~\E f : UpTo(f, n)}
<1>1. Bad = {}
  <2> SUFFICES ASSUME Bad # {} PROVE FALSE
    OBVIOUS
  <2>1. PICK n \in Bad : \A m \in Bad : n <= m
    <3>1. Bad \subseteq Nat
      OBVIOUS
    <3> HIDE DEF Bad
    <3> QED
      BY <3>1, LeastOf
  <2>2. n \in Nat /\ ~\E f : UpTo(f, n)
    BY <2>1
  <2>3. \E g : \A m \in 0 .. n - 1 : g[m] = [k \in Codes |-> WalkStep(g, pre, suf, m, k)]
    <3>1. CASE n = 0
      <4>1. 0 .. n - 1 = {}
        BY <3>1
      <4> QED
        BY <4>1
    <3>2. CASE n # 0
      <4>1. n - 1 \in Nat /\ ~(n <= n - 1)
        BY <2>2, <3>2
      <4>2. n - 1 \notin Bad
        <5> HIDE DEF Bad
        <5> QED
          BY <2>1, <4>1
      <4>3. PICK g : UpTo(g, n - 1)
        BY <4>1, <4>2
      <4>4. \A m \in 0 .. n - 1 : g[m] = [k \in Codes |-> WalkStep(g, pre, suf, m, k)]
        BY <4>3
      <4> QED
        BY <4>4
    <3> QED
      BY <3>1, <3>2
  <2>4. PICK g : \A m \in 0 .. n - 1 : g[m] = [k \in Codes |-> WalkStep(g, pre, suf, m, k)]
    BY <2>3
  <2> DEFINE h == [m \in 0 .. n |-> IF m = n THEN [k \in Codes |-> WalkStep(g, pre, suf, n, k)]
                                    ELSE g[m]]
  <2>5. ASSUME NEW m \in 0 .. n
        PROVE  h[m] = [k \in Codes |-> WalkStep(h, pre, suf, m, k)]
    <3>1. h[m] = [k \in Codes |-> WalkStep(g, pre, suf, m, k)]
      <4>1. m # n => m \in 0 .. n - 1
        BY <2>2
      <4> QED
        BY <2>4, <4>1
    <3>2. m # 0 => m - 1 \in 0 .. n /\ m - 1 # n
      BY <2>2
    <3>3. m # 0 => h[m - 1] = g[m - 1]
      BY <3>2
    <3> HIDE DEF h
    <3>4. \A k \in Codes : WalkStep(g, pre, suf, m, k) = WalkStep(h, pre, suf, m, k)
      BY <3>3 DEF WalkStep
    <3> QED
      BY <3>1, <3>4
  <2>6. h = [m \in 0 .. n |-> [k \in Codes |-> WalkStep(h, pre, suf, m, k)]]
    BY <2>5
  <2> QED
    BY <2>2, <2>6
<1>2. PICK f : UpTo(f, TableSize - 1)
  <2>1. TableSize - 1 \in Nat
    BY SomeSteps
  <2> QED
    BY <1>1, <2>1
<1> DEFINE str == CHOOSE g : g = [n \in 0 .. TableSize - 1 |->
                     [k \in Codes |-> IF pre[k] = None \/ n = 0 THEN <<suf[k]>>
                                      ELSE Append(g[n - 1][pre[k]], suf[k])]]
<1>3. \E g : g = [n \in 0 .. TableSize - 1 |->
                     [k \in Codes |-> IF pre[k] = None \/ n = 0 THEN <<suf[k]>>
                                      ELSE Append(g[n - 1][pre[k]], suf[k])]]
  BY <1>2, Zenon DEF WalkStep
<1>4. str = [n \in 0 .. TableSize - 1 |->
               [k \in Codes |-> IF pre[k] = None \/ n = 0 THEN <<suf[k]>>
                                ELSE Append(str[n - 1][pre[k]], suf[k])]]
  BY <1>3, Zenon
<1>5. \A c : Walked(pre, suf, c) = str[TableSize - 1][c]
  BY Zenon DEF Walked
<1> HIDE DEF str
<1>6. IsWalk(str, pre, suf)
  BY <1>4, Zenon DEF IsWalk, WalkStep, Steps
<1> QED
  BY <1>5, <1>6

\* Codes whose prefixes lead to a single byte, one code shorter each time.
Chained(G, pre, ln) ==
    /\ G \subseteq Codes
    /\ \A k \in G : /\ ln[k] \in Nat
                    /\ \/ pre[k] = None /\ ln[k] = 1
                       \/ pre[k] # None /\ pre[k] \in G /\ ln[k] = ln[pre[k]] + 1

\* The walk goes by what the codes it meets hold, and by nothing else.
LEMMA SameWalk ==
    ASSUME NEW pre, NEW suf, NEW pre2, NEW suf2, NEW G, G \subseteq Codes,
           \A k \in G : /\ pre2[k] = pre[k] /\ suf2[k] = suf[k]
                        /\ pre[k] = None \/ pre[k] \in G
    PROVE  \A c \in G : Walked(pre2, suf2, c) = Walked(pre, suf, c)
<1>1. PICK f : IsWalk(f, pre, suf) /\ \A c : Walked(pre, suf, c) = f[TableSize - 1][c]
  BY WalkedIs
<1>2. PICK g : IsWalk(g, pre2, suf2) /\ \A c : Walked(pre2, suf2, c) = g[TableSize - 1][c]
  BY WalkedIs
<1>3. /\ \A n \in Steps, k \in Codes : f[n][k] = WalkStep(f, pre, suf, n, k)
      /\ \A n \in Steps, k \in Codes : g[n][k] = WalkStep(g, pre2, suf2, n, k)
  <2>1. \A n \in Steps : /\ f[n] = [k \in Codes |-> WalkStep(f, pre, suf, n, k)]
                         /\ g[n] = [k \in Codes |-> WalkStep(g, pre2, suf2, n, k)]
    BY <1>1, <1>2 DEF IsWalk
  <2> QED
    BY <2>1
<1> DEFINE Bad == {n \in Steps : ~\A k \in G : g[n][k] = f[n][k]}
<1>4. Bad = {}
  <2> SUFFICES ASSUME Bad # {} PROVE FALSE
    OBVIOUS
  <2>1. PICK n \in Bad : \A m \in Bad : n <= m
    <3>1. Bad \subseteq Nat
      BY SomeSteps DEF Steps
    <3> HIDE DEF Bad
    <3> QED
      BY <3>1, LeastOf
  <2>2. PICK k \in G : g[n][k] # f[n][k]
    BY <2>1
  <2>3. n \in Steps /\ k \in Codes /\ n \in Nat
    BY <2>1, SomeSteps DEF Steps
  <2>4. f[n][k] = WalkStep(f, pre, suf, n, k) /\ g[n][k] = WalkStep(g, pre2, suf2, n, k)
    BY <1>3, <2>3
  <2>5. n # 0 /\ pre[k] # None
    <3> SUFFICES ASSUME n = 0 \/ pre[k] = None PROVE FALSE
      OBVIOUS
    <3> QED
      BY <2>2, <2>4 DEF WalkStep
  <2>6. n - 1 \in Steps /\ ~(n <= n - 1)
    BY <2>3, <2>5, SomeSteps DEF Steps
  <2>7. n - 1 \notin Bad
    <3> HIDE DEF Bad
    <3> QED
      BY <2>1, <2>6
  <2>8. pre[k] \in G /\ pre2[k] = pre[k] /\ suf2[k] = suf[k]
    BY <2>5
  <2>9. g[n - 1][pre[k]] = f[n - 1][pre[k]]
    BY <2>6, <2>7, <2>8
  <2> QED
    BY <2>2, <2>4, <2>8, <2>9 DEF WalkStep
<1> QED
  BY <1>1, <1>2, <1>4, SomeSteps

\* No string is longer than there are codes: the codes on its chain differ.
LEMMA LengthsBounded ==
    ASSUME NEW G, NEW pre, NEW ln, Chained(G, pre, ln)
    PROVE  \A k \in G : ln[k] <= TableSize
<1>1. /\ G \subseteq Codes
      /\ \A k \in G : /\ ln[k] \in Nat
                      /\ \/ pre[k] = None /\ ln[k] = 1
                         \/ pre[k] # None /\ pre[k] \in G /\ ln[k] = ln[pre[k]] + 1
  BY DEF Chained
<1>2. \A k \in G : \A l \in 1 .. ln[k] : \E d \in G : ln[d] = l
  <2> DEFINE Lacks(k) == \E l \in 1 .. ln[k] : ~\E d \in G : ln[d] = l
             Bad == {ln[k] : k \in {j \in G : Lacks(j)}}
  <2> SUFFICES ASSUME \E k \in G : Lacks(k) PROVE FALSE
    OBVIOUS
  <2>1. PICK n \in Bad : \A m \in Bad : n <= m
    <3>1. Bad \subseteq Nat /\ Bad # {}
      BY <1>1
    <3> HIDE DEF Bad
    <3> QED
      BY <3>1, LeastOf
  <2>2. PICK k \in G : Lacks(k) /\ n = ln[k]
    BY <2>1
  <2>3. PICK l \in 1 .. ln[k] : ~\E d \in G : ln[d] = l
    BY <2>2
  <2>4. ln[k] \in Nat /\ l # ln[k]
    BY <1>1, <2>3
  <2>5. pre[k] \in G /\ ln[k] = ln[pre[k]] + 1 /\ ln[pre[k]] \in Nat
    BY <1>1, <2>3, <2>4
  <2>6. l \in 1 .. ln[pre[k]]
    BY <2>4, <2>5
  <2>7. Lacks(pre[k])
    BY <2>3, <2>6
  <2>8. ln[pre[k]] \in Bad /\ ~(n <= ln[pre[k]])
    <3>1. ln[pre[k]] \in Bad
      BY <2>5, <2>7
    <3> QED
      BY <2>2, <2>4, <2>5, <3>1
  <2> HIDE DEF Bad
  <2> QED
    BY <2>1, <2>8
<1> SUFFICES ASSUME NEW c \in G, ~(ln[c] <= TableSize) PROVE FALSE
  OBVIOUS
<1> DEFINE Ls == 1 .. TableSize + 1
           f == [l \in Ls |-> CHOOSE d \in G : ln[d] = l]
<1>3. TableSize \in Nat /\ ln[c] \in Nat /\ Ls \subseteq 1 .. ln[c]
  BY <1>1, SomeSteps
<1>4. \A l \in Ls : f[l] \in G /\ ln[f[l]] = l
  <2> SUFFICES ASSUME NEW l \in Ls PROVE f[l] \in G /\ ln[f[l]] = l
    OBVIOUS
  <2>1. \E d \in G : ln[d] = l
    BY <1>2, <1>3
  <2> QED
    BY <2>1
<1>5. f \in [Ls -> Codes]
  BY <1>1, <1>4
<1>6. IsFiniteSet(Ls) /\ Cardinality(Ls) = TableSize + 1
  BY <1>3, FS_Interval
<1>7. IsFiniteSet(Codes) /\ Cardinality(Codes) = TableSize
  <2>1. 0 \in Int /\ TableSize - 1 \in Int /\ ~(0 > TableSize - 1) /\ TableSize - 1 - 0 + 1 = TableSize
    BY SomeSteps
  <2> QED
    BY <2>1, FS_Interval DEF Codes
<1> HIDE DEF f, Ls
<1>8. PICK x \in Ls, y \in Ls : x # y /\ f[x] = f[y]
  <2>1. Cardinality(Codes) < Cardinality(Ls)
    BY <1>3, <1>6, <1>7
  <2> QED
    BY <1>5, <1>6, <1>7, <2>1, FS_PigeonHole
<1> QED
  BY <1>4, <1>8
\* The string of a code is its prefix's string and one byte more, as long as
\* its history says.
Grown(pre, suf, ln, c) ==
    /\ \E S : Walked(pre, suf, c) \in Seq(S)
    /\ Len(Walked(pre, suf, c)) = ln[c] /\ ln[c] \in Nat /\ ln[c] >= 1
    /\ pre[c] = None => Walked(pre, suf, c) = <<suf[c]>>
    /\ pre[c] # None => Walked(pre, suf, c) = Append(Walked(pre, suf, pre[c]), suf[c])

LEMMA WalkedGrows ==
    ASSUME NEW pre, NEW suf, NEW G, NEW ln, Chained(G, pre, ln), NEW c \in G
    PROVE  Grown(pre, suf, ln, c)
<1>1. PICK f : IsWalk(f, pre, suf) /\ \A d : Walked(pre, suf, d) = f[TableSize - 1][d]
  BY WalkedIs
<1>2. \A n \in Steps, k \in Codes : f[n][k] = WalkStep(f, pre, suf, n, k)
  <2>1. \A n \in Steps : f[n] = [k \in Codes |-> WalkStep(f, pre, suf, n, k)]
    BY <1>1 DEF IsWalk
  <2> QED
    BY <2>1
<1>2b. \A n \in Nat, k \in Codes :
          n + 1 \in Steps /\ pre[k] # None => f[n + 1][k] = Append(f[n][pre[k]], suf[k])
  <2> SUFFICES ASSUME NEW n \in Nat, NEW k \in Codes, n + 1 \in Steps, pre[k] # None
               PROVE  f[n + 1][k] = Append(f[n][pre[k]], suf[k])
    OBVIOUS
  <2> DEFINE m == n + 1
  <2>1. m # 0 /\ m - 1 = n /\ m \in Steps
    OBVIOUS
  <2> HIDE DEF m
  <2>2. f[m][k] = WalkStep(f, pre, suf, m, k)
    BY <1>2, <2>1
  <2>3. f[m][k] = Append(f[m - 1][pre[k]], suf[k])
    BY <2>1, <2>2 DEF WalkStep
  <2> QED
    BY <2>1, <2>3 DEF m
<1>3. /\ G \subseteq Codes
      /\ \A k \in G : /\ ln[k] \in Nat /\ ln[k] >= 1
                      /\ \/ pre[k] = None /\ ln[k] = 1
                         \/ pre[k] # None /\ pre[k] \in G /\ ln[k] = ln[pre[k]] + 1
  BY DEF Chained
<1> DEFINE S == {suf[k] : k \in Codes}
           Whole(n, k) == f[n][k] \in Seq(S) /\ Len(f[n][k]) = ln[k]
           Stays(n, k) == n + 1 \in Steps => f[n + 1][k] = f[n][k]
           Fits(n) == \A k \in G : ln[k] <= n + 1 => Whole(n, k) /\ Stays(n, k)
           Bad == {n \in Steps : ~Fits(n)}
<1>4. \A k \in Codes : suf[k] \in S
  OBVIOUS
<1> HIDE DEF S
<1>5. Bad = {}
  <2> SUFFICES ASSUME Bad # {} PROVE FALSE
    OBVIOUS
  <2>1. PICK n \in Bad : \A m \in Bad : n <= m
    <3>1. Bad \subseteq Nat
      BY SomeSteps DEF Steps
    <3> HIDE DEF Bad
    <3> QED
      BY <3>1, LeastOf
  <2>2. n \in Steps /\ n \in Nat /\ ~Fits(n)
    BY <2>1, SomeSteps DEF Steps
  <2>3. PICK k \in G : ln[k] <= n + 1 /\ ~(Whole(n, k) /\ Stays(n, k))
    BY <2>2
  <2>4. k \in Codes /\ ln[k] \in Nat /\ ln[k] >= 1 /\ suf[k] \in S
    BY <1>3, <1>4
  <2>5. f[n][k] = WalkStep(f, pre, suf, n, k)
    BY <1>2, <2>2, <2>4
  <2>6. n + 1 \in Steps => f[n + 1][k] = WalkStep(f, pre, suf, n + 1, k)
    BY <1>2, <2>4
  <2>7. CASE pre[k] = None
    <3>1. f[n][k] = <<suf[k]>> /\ (n + 1 \in Steps => f[n + 1][k] = <<suf[k]>>)
      BY <2>5, <2>6, <2>7 DEF WalkStep
    <3>2. ln[k] = 1
      BY <1>3, <2>7
    <3>3. \A x \in S : <<x>> \in Seq(S) /\ Len(<<x>>) = 1
      OBVIOUS
    <3> QED
      BY <2>3, <2>4, <3>1, <3>2, <3>3
  <2>8. CASE pre[k] # None
    <3>1. pre[k] \in G /\ ln[k] = ln[pre[k]] + 1 /\ ln[pre[k]] \in Nat /\ ln[pre[k]] >= 1
      BY <1>3, <2>8
    <3>2. /\ n - 1 \in Steps /\ ~(n <= n - 1) /\ n # 0 /\ n + 1 # 0 /\ n + 1 - 1 = n
          /\ n - 1 + 1 = n /\ ln[pre[k]] <= n - 1 + 1
      BY <2>2, <2>3, <2>4, <3>1, SomeSteps DEF Steps
    <3>3. n - 1 \notin Bad
      <4> HIDE DEF Bad
      <4> QED
        BY <2>1, <3>2
    <3>4. Fits(n - 1)
      BY <3>2, <3>3
    <3>5. Whole(n - 1, pre[k]) /\ Stays(n - 1, pre[k])
      BY <3>1, <3>2, <3>4
    <3>6. f[n][pre[k]] = f[n - 1][pre[k]]
      BY <2>2, <3>2, <3>5
    <3>7. f[n][k] = Append(f[n - 1][pre[k]], suf[k])
      BY <2>5, <2>8, <3>2 DEF WalkStep
    <3>8. n + 1 \in Steps => f[n + 1][k] = Append(f[n][pre[k]], suf[k])
      BY <1>2b, <2>2, <2>4, <2>8
    <3>9. Stays(n, k)
      BY <3>6, <3>7, <3>8
    <3>10. f[n][k] \in Seq(S) /\ Len(f[n][k]) = ln[k]
      <4>1. \A s \in Seq(S), x \in S : Append(s, x) \in Seq(S) /\ Len(Append(s, x)) = Len(s) + 1
        OBVIOUS
      <4>2. f[n - 1][pre[k]] \in Seq(S) /\ Len(f[n - 1][pre[k]]) = ln[pre[k]]
        BY <3>5
      <4> QED
        BY <2>4, <3>1, <3>7, <4>1, <4>2
    <3> QED
      BY <2>3, <3>9, <3>10
  <2> QED
    BY <2>7, <2>8
<1>6. \A n \in Steps : Fits(n)
  BY <1>5
<1>7. /\ TableSize \in Nat /\ TableSize - 1 \in Steps /\ ln[c] <= TableSize - 1 + 1
      /\ c \in Codes /\ ln[c] \in Nat /\ ln[c] >= 1
  BY <1>3, SomeSteps, LengthsBounded
<1>8. Whole(TableSize - 1, c)
  BY <1>6, <1>7
<1>9. f[TableSize - 1][c] = WalkStep(f, pre, suf, TableSize - 1, c)
  BY <1>2, <1>7
<1>10. pre[c] = None => f[TableSize - 1][c] = <<suf[c]>>
  BY <1>9 DEF WalkStep
<1>11. ASSUME pre[c] # None
       PROVE  f[TableSize - 1][c] = Append(f[TableSize - 1][pre[c]], suf[c])
  <2>1. pre[c] \in G /\ ln[c] = ln[pre[c]] + 1 /\ ln[pre[c]] \in Nat /\ ln[pre[c]] >= 1
    BY <1>3, <1>11
  <2> DEFINE n == TableSize - 2
  <2>2. /\ n \in Steps /\ n + 1 \in Steps /\ n + 1 = TableSize - 1 /\ TableSize - 1 # 0
        /\ TableSize - 1 - 1 = n /\ ln[pre[c]] <= n + 1
    BY <1>7, <2>1 DEF Steps
  <2> HIDE DEF n
  <2>3. Stays(n, pre[c])
    BY <1>6, <2>1, <2>2
  <2>4. f[TableSize - 1][pre[c]] = f[n][pre[c]]
    BY <2>2, <2>3
  <2>5. f[TableSize - 1][c] = Append(f[n][pre[c]], suf[c])
    BY <1>9, <1>11, <2>2 DEF WalkStep
  <2> QED
    BY <2>1, <2>4, <2>5
<1> QED
  BY <1>1, <1>7, <1>8, <1>10, <1>11 DEF Grown
-----------------------------------------------------------------------------
(* The dictionary of the CP/M program.                                     *)

\* The codes that stand for a string.
Named == {c \in Codes \ Control : c < next}

\* The single bytes stay what they are.
RootsKept == \A c \in Codes : c < NRoots => prefix[c] = None /\ len[c] = 1

\* No entry still to be made is marked used: the next one starts unmarked.
FreshUnused == ~done => \A c \in Codes : c >= next => ~used[c]

SuffixTable == DOMAIN suffix = Codes

\* Inductive: IInv, and what the walk from a code to its first byte gives.
DictInv == IInv /\ RootsKept /\ SuffixTable /\ FreshUnused /\ WrittenIsEntry

(* The codes named chain down to single bytes.                             *)
LEMMA NamedChained == IInv /\ RootsKept => Chained(Named, prefix, len)
<1> SUFFICES ASSUME IInv, RootsKept, NEW k \in Named
             PROVE  /\ len[k] \in Nat
                    /\ \/ prefix[k] = None /\ len[k] = 1
                       \/ prefix[k] # None /\ prefix[k] \in Named /\ len[k] = len[prefix[k]] + 1
  BY DEF Chained, Named
<1>1. k \in Codes /\ k \notin Control /\ k < next /\ len[k] \in Nat
  BY DEF Named, IInv, TypeOK
<1>2. CASE k < NRoots
  BY <1>1, <1>2 DEF RootsKept
<1>3. CASE ~(k < NRoots)
  <2>1. Entry(k)
    BY <1>1, <1>3, SizeAssumption DEF Entry, Control, Seeds, Codes
  <2>2. prefix[k] \in Codes \ Control /\ prefix[k] < next /\ len[k] = len[prefix[k]] + 1
    BY <1>1, <2>1 DEF IInv, PrefixUsed, LengthsFall, Live
  <2>3. prefix[k] # None
    BY <2>2 DEF Codes, None
  <2> QED
    BY <1>1, <2>2, <2>3 DEF Named
<1> QED
  BY <1>2, <1>3

\* Every entry's string is as long as its history says, and fits the buffer.
LEMMA StringsWhole ==
    IInv /\ RootsKept => \A c \in Codes : Entry(c) => Len(StringOf(c)) = len[c] /\ len[c] <= TableSize
<1> SUFFICES ASSUME IInv, RootsKept, NEW c \in Codes, Entry(c)
             PROVE  Len(StringOf(c)) = len[c] /\ len[c] <= TableSize
  OBVIOUS
<1>1. Chained(Named, prefix, len)
  BY NamedChained
<1>2. c \in Named
  BY SizeAssumption DEF Entry, Named, Control, Seeds, Codes
<1>3. Grown(prefix, suffix, len, c)
  BY <1>1, <1>2, WalkedGrows
<1>4. len[c] <= TableSize
  BY <1>1, <1>2, LengthsBounded
<1> QED
  BY <1>3, <1>4 DEF StringOf, Grown

\* The first byte of a string stays first when a byte is put at its end.
LEMMA HeadStays ==
    ASSUME NEW S, NEW s \in Seq(S), Len(s) >= 1, NEW e
    PROVE  Head(Append(s, e)) = Head(s)
<1> DEFINE T == S \union {e}
<1>1. s \in Seq(T) /\ e \in T
  OBVIOUS
<1> HIDE DEF T
<1> QED
  BY <1>1

\* What a named code stands for is at least a byte.
LEMMA NamedString ==
    ASSUME IInv, RootsKept, NEW c \in Named
    PROVE  \A e : Head(Append(StringOf(c), e)) = Head(StringOf(c))
<1>1. Chained(Named, prefix, len)
  BY NamedChained
<1>2. /\ \E S : StringOf(c) \in Seq(S)
      /\ Len(StringOf(c)) = len[c] /\ len[c] \in Nat /\ len[c] >= 1
  <2>1. Grown(prefix, suffix, len, c)
    BY <1>1, WalkedGrows
  <2> QED
    BY <2>1 DEF StringOf, Grown
<1> QED
  BY <1>2, HeadStays
LEMMA InitDict == Init => DictInv
<1> SUFFICES ASSUME Init PROVE DictInv
  OBVIOUS
<1>1. IInv
  BY InitIInv
<1>2. /\ prefix = Seeded([c \in Codes |-> Reserved], [c \in Codes |-> None], Reserved)
      /\ len = Seeded([c \in Codes |-> 0], [c \in Codes |-> 1], 0)
      /\ used = [c \in Codes |-> c < Seeds] /\ next = Seeds /\ prev = None
  BY DEF Init
<1>3. Seeds \in Nat /\ \A c \in Codes : c \in Int
  BY SizeAssumption DEF Seeds, Codes
<1>4. RootsKept /\ SuffixTable
  <2>1. SuffixTable
    BY DEF SuffixTable, Init, Seeded
  <2> QED
    BY <1>2, <2>1 DEF RootsKept, Seeded
<1>5. FreshUnused
  <2> SUFFICES ASSUME NEW c \in Codes, c >= next PROVE ~used[c]
    BY DEF FreshUnused
  <2>1. ~(c < Seeds)
    BY <1>2, <1>3
  <2> QED
    BY <1>2, <2>1
<1>6. WrittenIsEntry
  BY <1>1, <1>2, <1>4, StringsWhole DEF WrittenIsEntry
<1> QED
  BY <1>1, <1>4, <1>5, <1>6 DEF DictInv

\* What a code that is named stands for does not go by what is recycled or made.
LEMMA StringKept ==
    ASSUME IInv, RootsKept, NEW c \in Named,
           \A k \in Named : used'[k] => prefix'[k] = prefix[k] /\ suffix'[k] = suffix[k],
           \A k \in Codes : used[k] => used'[k],
           used'[c]
    PROVE  Walked(prefix', suffix', c) = StringOf(c)
<1> DEFINE G == {k \in Named : used'[k]}
<1>1. \A k \in Named : prefix[k] = None \/ (prefix[k] \in Named /\ used[prefix[k]])
  <2> SUFFICES ASSUME NEW k \in Named, prefix[k] # None
               PROVE  prefix[k] \in Named /\ used[prefix[k]]
    OBVIOUS
  <2>1. k \in Codes /\ k \notin Control /\ k < next
    BY DEF Named
  <2>2. ~(k < NRoots)
    BY <2>1 DEF RootsKept
  <2>3. Entry(k)
    BY <2>1, <2>2, SizeAssumption DEF Entry, Control, Seeds, Codes
  <2> QED
    BY <2>1, <2>3 DEF IInv, PrefixUsed, Live, Named
<1>2. \A k \in G : /\ prefix'[k] = prefix[k] /\ suffix'[k] = suffix[k]
                   /\ prefix[k] = None \/ prefix[k] \in G
  BY <1>1 DEF Named
<1>3. G \subseteq Codes /\ c \in G
  BY DEF Named
<1> HIDE DEF G
<1>4. Walked(prefix', suffix', c) = Walked(prefix, suffix, c)
  BY <1>2, <1>3, SameWalk
<1> QED
  BY <1>4 DEF StringOf

LEMMA NextRoots == IInv /\ RootsKept /\ [Next]_vars => RootsKept'
<1> SUFFICES ASSUME IInv, RootsKept, [Next]_vars, NEW c \in Codes, c < NRoots
             PROVE  prefix'[c] = None /\ len'[c] = 1
  BY DEF RootsKept
<1>1. /\ prefix[c] = None /\ len[c] = 1 /\ used[c] /\ c < Seeds /\ Seeds \in Nat /\ next \in Nat
      /\ next >= Seeds /\ TypeOK
  BY SizeAssumption DEF RootsKept, IInv, SeedsUsed, TypeOK, Seeds, Codes
<1>2. CASE UNCHANGED <<prefix, len>>
  BY <1>1, <1>2
<1>3. ASSUME NEW e \in Readable, DecodeReset(e)
      PROVE  prefix'[c] = None /\ len'[c] = 1
  BY <1>3 DEF DecodeReset, InitLzw, Seeded
<1>4. ASSUME NEW e \in Readable, DecodeCode(e)
      PROVE  prefix'[c] = None /\ len'[c] = 1
  <2>1. CASE prev = None
    BY <1>1, <1>4, <2>1 DEF DecodeCode, table
  <2>2. CASE prev # None /\ replacing
    <3>1. Replace(prev, Head(out')) /\ used' = [used EXCEPT ![e] = TRUE]
      BY <1>4, <2>2 DEF DecodeCode
    <3>2. used'[c]
      BY <1>1, <3>1 DEF TypeOK, Readable
    <3>3. c \notin Victims(prev, Head(out'), used')
      BY <3>2, VictimsUnused
    <3> QED
      BY <1>1, <3>1, <3>3 DEF Replace
  <2>3. CASE prev # None /\ ~replacing
    <3>1. AddEntry(prev, Head(out'))
      BY <1>4, <2>3 DEF DecodeCode
    <3>2. c # next
      BY <1>1 DEF Codes
    <3> QED
      BY <1>1, <3>1, <3>2 DEF AddEntry, TypeOK
  <2> QED
    BY <2>1, <2>2, <2>3
<1> QED
  BY <1>2, <1>3, <1>4
     DEF Next, DecodeUnknown, OutputFails, DecodeEnd, DecodeFiller, table, vars
LEMMA NextSuffix == SuffixTable /\ [Next]_vars => SuffixTable'
BY DEF SuffixTable, Next, DecodeCode, AddEntry, Replace, DecodeReset, InitLzw, Seeded,
       DecodeUnknown, OutputFails, DecodeEnd, DecodeFiller, table, vars

\* No code is named for more than is, nor less, by a code that is taken.
LEMMA CodeTaken ==
    ASSUME DictInv, ~done, NEW c \in Readable, DecodeCode(c)
    PROVE  /\ c \in Codes \ Control /\ used' = [used EXCEPT ![c] = TRUE] /\ used'[c]
           /\ \A k \in Codes : used[k] => used'[k]
           /\ prev' = c /\ done' = done
           /\ \/ c \in Named
              \/ c = next /\ prev \in Named /\ ~replacing
           /\ next \in Nat /\ c < next'
<1>1. IInv /\ TypeOK
  BY DEF DictInv, IInv
<1>2. /\ c \in Codes \ Control /\ used' = [used EXCEPT ![c] = TRUE] /\ prev' = c /\ done' = done
      /\ ~Unknown(c)
  BY DEF DecodeCode, Readable
<1>3. used'[c] /\ \A k \in Codes : used[k] => used'[k]
  BY <1>1, <1>2 DEF TypeOK
<1>4. /\ next \in Nat /\ c \in Nat /\ c < TableSize /\ TableSize \in Nat
      /\ (c < next \/ (c = next /\ prev # None))
  BY <1>1, <1>2, SizeAssumption DEF Unknown, TypeOK, Codes
<1>5. prev # None => prev \in Named
  BY <1>1 DEF IInv, PrevUsed, Live, Named
<1>6. c < next => c \in Named
  BY <1>2 DEF Named
<1>7. replacing => c < next
  <2>1. replacing => next >= TableSize
    BY <1>1 DEF IInv, FullWhenReplacing
  <2> QED
    BY <1>4, <2>1
<1>8. next' = next \/ (next' = next + 1 /\ prev # None /\ ~replacing)
  BY DEF DecodeCode, width, AddEntry, Replace
<1>9. c = next => prev # None /\ ~replacing /\ next' = next + 1
  <2>1. c = next => prev # None /\ ~replacing
    BY <1>4, <1>7
  <2>2. prev # None /\ ~replacing => next' = next + 1
    BY DEF DecodeCode, AddEntry
  <2> QED
    BY <2>1, <2>2
<1>10. c < next'
  BY <1>4, <1>8, <1>9
<1> QED
  BY <1>2, <1>3, <1>4, <1>5, <1>6, <1>9, <1>10

LEMMA NextFresh == DictInv /\ [Next]_vars => FreshUnused'
<1> SUFFICES ASSUME DictInv, [Next]_vars, ~done', NEW d \in Codes, d >= next'
             PROVE  ~used'[d]
  BY DEF FreshUnused
<1>1. FreshUnused /\ TypeOK /\ next \in Nat /\ d \in Nat
  BY SizeAssumption DEF DictInv, IInv, TypeOK, Codes
<1>2. CASE UNCHANGED vars
  BY <1>1, <1>2 DEF vars, width, FreshUnused
<1>3. ASSUME NEW c \in Readable, ~done, DecodeCode(c)
      PROVE  ~used'[d]
  <2>1. used' = [used EXCEPT ![c] = TRUE] /\ c < next' /\ c \in Codes
    BY <1>3, CodeTaken
  <2>2. next' = next \/ next' = next + 1
    BY <1>3 DEF DecodeCode, width, AddEntry, Replace
  <2>3. d # c /\ d >= next
    BY <1>1, <2>1, <2>2
  <2> QED
    BY <1>1, <1>3, <2>1, <2>3 DEF FreshUnused, TypeOK
<1>4. ASSUME NEW c \in Readable, DecodeReset(c)
      PROVE  ~used'[d]
  <2>1. used' = [k \in Codes |-> k < Seeds] /\ next' = Seeds /\ Seeds \in Nat
    BY <1>4, SizeAssumption DEF DecodeReset, InitLzw, Seeds
  <2>2. ~(d < Seeds)
    BY <1>1, <2>1
  <2> QED
    BY <2>1, <2>2
<1> QED
  BY <1>2, <1>3, <1>4 DEF Next, DecodeUnknown, OutputFails, DecodeEnd, DecodeFiller
\* The string of the code taken is the one its entry now holds.
LEMMA TextKept ==
    ASSUME DictInv, IInv', RootsKept', ~done, NEW c \in Readable, DecodeCode(c)
    PROVE  out' = StringOf(c)'
<1>1. IInv /\ TypeOK /\ RootsKept /\ SeedsUsed /\ SuffixTable
  BY DEF DictInv, IInv
<1>2. /\ c \in Codes \ Control /\ used' = [used EXCEPT ![c] = TRUE] /\ used'[c]
      /\ \A k \in Codes : used[k] => used'[k]
      /\ \/ c \in Named
         \/ c = next /\ prev \in Named /\ ~replacing
      /\ next \in Nat
  BY CodeTaken
<1>3. out' = Text(c)
  BY DEF DecodeCode
<1>4. \A k \in Named : used'[k] => prefix'[k] = prefix[k] /\ suffix'[k] = suffix[k]
  <2> SUFFICES ASSUME NEW k \in Named, used'[k]
               PROVE  prefix'[k] = prefix[k] /\ suffix'[k] = suffix[k]
    OBVIOUS
  <2>1. k \in Codes /\ k # next
    BY <1>2 DEF Named, Codes
  <2>2. CASE prev = None
    BY <2>2 DEF DecodeCode, table
  <2>3. CASE prev # None /\ replacing
    <3>1. Replace(prev, Head(out'))
      BY <2>3 DEF DecodeCode
    <3>2. k \notin Victims(prev, Head(out'), used')
      BY <2>1, VictimsUnused
    <3> QED
      BY <2>1, <3>1, <3>2 DEF Replace
  <2>4. CASE prev # None /\ ~replacing
    <3>1. AddEntry(prev, Head(out'))
      BY <2>4 DEF DecodeCode
    <3>2. prefix'[k] = prefix[k]
      BY <1>1, <2>1, <3>1 DEF AddEntry, TypeOK
    <3>3. suffix' = IF next \in Codes THEN [suffix EXCEPT ![next] = Head(out')] ELSE suffix
      BY <3>1 DEF AddEntry
    <3> QED
      BY <2>1, <3>2, <3>3
  <2> QED
    BY <2>2, <2>3, <2>4
<1>5. CASE c \in Named
  <2>1. out' = StringOf(c)
    BY <1>2, <1>3, <1>5 DEF Text, Named
  <2>2. Walked(prefix', suffix', c) = StringOf(c)
    BY <1>1, <1>2, <1>4, <1>5, StringKept
  <2> QED
    BY <2>1, <2>2 DEF StringOf
<1>6. CASE c = next /\ prev \in Named /\ ~replacing
  <2>1. out' = Append(StringOf(prev), FirstByte(prev))
    BY <1>2, <1>3, <1>6 DEF Text
  <2>2. Head(out') = FirstByte(prev)
    BY <1>1, <1>6, <2>1, NamedString DEF FirstByte
  <2>3. prev # None /\ used[prev]
    <3>1. prev # None
      BY <1>6 DEF Named, Codes, None
    <3> QED
      BY <1>1, <3>1 DEF IInv, PrevUsed
  <2>4. AddEntry(prev, FirstByte(prev))
    BY <1>6, <2>2, <2>3 DEF DecodeCode
  <2>5. prefix'[c] = prev /\ suffix' = [suffix EXCEPT ![c] = FirstByte(prev)] /\ next' = next + 1
    BY <1>1, <1>2, <1>6, <2>4 DEF AddEntry, TypeOK
  <2>6. Walked(prefix', suffix', prev) = StringOf(prev)
    <3>1. used'[prev]
      BY <1>2, <1>6, <2>3 DEF Named
    <3> QED
      BY <1>1, <1>2, <1>4, <1>6, <3>1, StringKept
  <2>7. c \in Named'
    BY <1>2, <1>6, <2>5 DEF Named
  <2>8. Chained(Named, prefix, len)'
    BY NamedChained, PTL
  <2>9. Walked(prefix', suffix', c) = Append(Walked(prefix', suffix', prev), suffix'[c])
    <3>1. Grown(prefix', suffix', len', c)
      BY <2>7, <2>8, WalkedGrows
    <3> QED
      BY <2>3, <2>5, <3>1 DEF Grown
  <2>10. suffix'[c] = FirstByte(prev)
    BY <1>1, <1>2, <2>5 DEF SuffixTable
  <2>11. StringOf(c)' = Append(StringOf(prev), FirstByte(prev))
    BY <2>6, <2>9, <2>10 DEF StringOf
  <2> QED
    BY <2>1, <2>11
<1> QED
  BY <1>2, <1>5, <1>6
LEMMA NextDict == DictInv /\ [Next]_vars => DictInv'
<1> SUFFICES ASSUME DictInv, [Next]_vars PROVE DictInv'
  OBVIOUS
<1>1. IInv'
  BY NextIInv DEF DictInv
<1>2. RootsKept' /\ SuffixTable'
  BY NextRoots, NextSuffix DEF DictInv
<1>3. FreshUnused'
  BY NextFresh
<1>4. (\A c \in Codes : Entry(c) => Len(StringOf(c)) = len[c] /\ len[c] <= TableSize)'
  <2>1. (IInv /\ RootsKept)'
    BY <1>1, <1>2
  <2> QED
    BY <2>1, StringsWhole, PTL
<1>5. (prev # None /\ ~done => out = StringOf(prev))'
  <2>1. CASE UNCHANGED vars
    <3>1. prefix' = prefix /\ suffix' = suffix /\ prev' = prev /\ done' = done /\ out' = out
      BY <2>1 DEF vars, table
    <3> QED
      BY <3>1 DEF DictInv, WrittenIsEntry, StringOf
  <2>2. ASSUME ~done, NEW c \in Readable, DecodeCode(c)
        PROVE  out' = StringOf(prev)'
    <3>1. out' = StringOf(c)' /\ prev' = c
      BY <1>1, <1>2, <2>2, TextKept DEF DecodeCode
    <3> QED
      BY <3>1 DEF StringOf
  <2>3. ASSUME NEW c \in Readable, DecodeReset(c)
        PROVE  prev' = None
    BY <2>3 DEF DecodeReset
  <2> QED
    BY <2>1, <2>2, <2>3 DEF Next, DecodeUnknown, OutputFails, DecodeEnd, DecodeFiller
<1>6. WrittenIsEntry'
  BY <1>4, <1>5 DEF WrittenIsEntry
<1> QED
  BY <1>1, <1>2, <1>3, <1>6 DEF DictInv

(* The bytes lzw$output (crunch.plm) writes for a code are the string its  *)
(* entry holds when the step is over, also for the code that named the     *)
(* entry about to be made; and no string is longer than its work buffer.   *)
THEOREM WrittenInvariant == Spec => []WrittenIsEntry
<1>1. DictInv /\ [Next]_vars => DictInv'
  BY NextDict
<1>2. DictInv => WrittenIsEntry
  BY DEF DictInv
<1> QED
  BY <1>1, <1>2, InitDict, PTL DEF Spec
-----------------------------------------------------------------------------
(* The two side by side.                                                   *)

\* The table of the Python tool is a table.
TabOK(t) ==
    /\ DOMAIN t = {"entry", "hash", "next_code", "threshold", "code_size", "state"}
    /\ DOMAIN t.entry = Codes
    /\ \A k \in Codes : "prefix" \in DOMAIN t.entry[k]

\* It holds the entries of a dictionary, as far as that has got ...
Matches(t, pre, suf, us, nx) ==
    /\ TabOK(t)
    /\ \A k \in Codes : k < nx => t.entry[k] = [prefix |-> pre[k], suffix |-> suf[k], used |-> us[k]]
    /\ \A k \in Codes : ~(k < nx) => t.entry[k].prefix = Missing

\* ... with the same counts.
Counts(t, h, nx, th, cs) ==
    t.hash = h /\ t.next_code = nx /\ t.threshold = th /\ t.code_size = cs

\* The state the Python tool's table is in when crunch$state is st.
PyState(st) == IF st = "filling" THEN "filling" ELSE "replacing"

\* What the Python tool keeps of the code before, it keeps of the same code.
InStep == /\ prev = prev_code /\ replacing = py_replacing
          /\ skip_insert <=> prev = None
          /\ prev = None => state = "filling"
          /\ prev # None => first_byte = Head(out)
          /\ tab.state = PyState(state)

\* Inductive: SameOutput of the next code goes by the dictionaries, and what is
\* made or recycled in them by the code before and by what it wrote.
BothInv == /\ DictInv /\ SameOutput
           /\ ~done => /\ Matches(tab, prefix, suffix, used, next)
                       /\ Counts(tab, hash, next, threshold, bits)
                       /\ InStep

(* What the steps of the Python tool do to its table.                      *)
LEMMA RecordMarked ==
    ASSUME NEW p, NEW s, NEW u, NEW yes
    PROVE  [[prefix |-> p, suffix |-> s, used |-> u] EXCEPT !.used = yes]
             = [prefix |-> p, suffix |-> s, used |-> yes]
OBVIOUS

LEMMA MarkedIs ==
    ASSUME TabOK(tab), NEW c \in Codes
    PROVE  /\ TabOK(Marked(c))
           /\ Counts(Marked(c), tab.hash, tab.next_code, tab.threshold, tab.code_size)
           /\ Marked(c).state = tab.state
           /\ \A k \in Codes : k # c => Marked(c).entry[k] = tab.entry[k]
           /\ Marked(c).entry[c].prefix = tab.entry[c].prefix
<1>1. DOMAIN Marked(c) = {"entry", "hash", "next_code", "threshold", "code_size", "state"}
  BY DEF TabOK, Marked
<1>2. DOMAIN Marked(c).entry = Codes
  BY DEF TabOK, Marked
<1>3. \A k \in Codes : k # c => Marked(c).entry[k] = tab.entry[k]
  BY DEF TabOK, Marked
<1>4. Marked(c).entry[c] = [tab.entry[c] EXCEPT !.used = TRUE]
  BY DEF TabOK, Marked
<1>5. "prefix" \in DOMAIN Marked(c).entry[c] /\ Marked(c).entry[c].prefix = tab.entry[c].prefix
  BY <1>4 DEF TabOK
<1>6. Counts(Marked(c), tab.hash, tab.next_code, tab.threshold, tab.code_size)
  BY DEF TabOK, Marked, Counts
<1>7. Marked(c).state = tab.state
  BY DEF TabOK, Marked
<1> QED
  BY <1>1, <1>2, <1>3, <1>5, <1>6, <1>7 DEF TabOK

EntryIs(t, k, p, s, u) == t.entry[k] = [prefix |-> p, suffix |-> s, used |-> u]

LEMMA MarkedEntry ==
    ASSUME TabOK(tab), NEW c \in Codes, NEW p, NEW s, NEW u, NEW yes, yes = TRUE,
           EntryIs(tab, c, p, s, u)
    PROVE  EntryIs(Marked(c), c, p, s, yes)
<1>1. Marked(c).entry[c] = [tab.entry[c] EXCEPT !.used = yes]
  BY DEF TabOK, Marked
<1>2. Marked(c).entry[c] = [[prefix |-> p, suffix |-> s, used |-> u] EXCEPT !.used = yes]
  BY <1>1, Zenon DEF EntryIs
<1> QED
  BY <1>2, RecordMarked, Zenon DEF EntryIs

\* The table u that _LzwTable.insert makes of t.
IsInserted(u, t, p, s, flag) ==
    /\ TabOK(u)
    /\ \A k \in Codes : k # t.next_code => u.entry[k] = t.entry[k]
    /\ t.next_code \in Codes =>
         u.entry[t.next_code] = [prefix |-> p, suffix |-> s, used |-> flag]

LEMMA InsertIs ==
    ASSUME NEW t, TabOK(t), NEW p, NEW s, NEW flag
    PROVE  IsInserted(Insert(t, p, s, flag), t, p, s, flag)
<1> DEFINE new == [prefix |-> p, suffix |-> s, used |-> flag]
           u == Insert(t, p, s, flag)
<1>1. DOMAIN u = {"entry", "hash", "next_code", "threshold", "code_size", "state"}
  BY DEF Insert
<1>2. u.entry = IF t.next_code \in Codes THEN [t.entry EXCEPT ![t.next_code] = new] ELSE t.entry
  BY DEF Insert
<1>3. "prefix" \in DOMAIN new
  OBVIOUS
<1> HIDE DEF u, new
<1>4. DOMAIN u.entry = Codes
  BY <1>2 DEF TabOK
<1>5. \A k \in Codes : k # t.next_code => u.entry[k] = t.entry[k]
  BY <1>2 DEF TabOK
<1>6. t.next_code \in Codes => u.entry[t.next_code] = new
  BY <1>2 DEF TabOK
<1>7. \A k \in Codes : "prefix" \in DOMAIN u.entry[k]
  BY <1>3, <1>5, <1>6 DEF TabOK
<1> QED
  BY <1>1, <1>4, <1>5, <1>6, <1>7 DEF TabOK, IsInserted, u, new

\* What _LzwTable.replace recycles, and the table u it makes of t.
PyVictims(t, p, s) ==
    {t.hash[i] : i \in FirstSlot(p, s, {i \in Slots :
        t.hash[i] = Free \/ (t.hash[i] \in Codes /\ ~t.entry[t.hash[i]].used)})} \ {Free}

IsRecycled(u, t, p, s, no) ==
    /\ TabOK(u) /\ u.state = t.state
    /\ Counts(u, t.hash, t.next_code, t.threshold, t.code_size)
    /\ \A k \in Codes : k \in PyVictims(t, p, s) =>
         u.entry[k] = [prefix |-> p, suffix |-> s, used |-> no]
    /\ \A k \in Codes : k \notin PyVictims(t, p, s) => u.entry[k] = t.entry[k]

LEMMA RecycledIs ==
    ASSUME NEW t, TabOK(t), NEW p, NEW s, NEW no, no = FALSE
    PROVE  IsRecycled(Recycled(t, p, s), t, p, s, no)
<1> DEFINE new == [prefix |-> p, suffix |-> s, used |-> no]
           u == Recycled(t, p, s)
           V == PyVictims(t, p, s)
<1>1. u = [t EXCEPT !.entry = [c \in Codes |-> IF c \in V THEN new ELSE @[c]]]
  BY DEF Recycled, PyVictims
<1>2. "prefix" \in DOMAIN new
  OBVIOUS
<1> HIDE DEF new, u, V
<1>3. DOMAIN u = {"entry", "hash", "next_code", "threshold", "code_size", "state"}
  BY <1>1 DEF TabOK
<1>4. u.entry = [c \in Codes |-> IF c \in V THEN new ELSE t.entry[c]]
  BY <1>1 DEF TabOK
<1>5. Counts(u, t.hash, t.next_code, t.threshold, t.code_size) /\ u.state = t.state
  BY <1>1 DEF TabOK, Counts
<1>6. TabOK(u)
  BY <1>2, <1>3, <1>4 DEF TabOK
<1> QED
  BY <1>4, <1>5, <1>6 DEF u, new, V, IsRecycled

\* The state of the table says nothing of its entries.
LEMMA StateSet ==
    ASSUME NEW t, NEW x, NEW pre, NEW suf, NEW us, NEW nx, NEW h, NEW th, NEW cs,
           Matches(t, pre, suf, us, nx), Counts(t, h, nx, th, cs)
    PROVE  /\ Matches([t EXCEPT !.state = x], pre, suf, us, nx)
           /\ Counts([t EXCEPT !.state = x], h, nx, th, cs)
           /\ [t EXCEPT !.state = x].state = x
<1> DEFINE u == [t EXCEPT !.state = x]
<1>1. TabOK(t)
  BY DEF Matches
<1>2. /\ DOMAIN u = {"entry", "hash", "next_code", "threshold", "code_size", "state"}
      /\ u.entry = t.entry /\ u.state = x
  BY <1>1 DEF TabOK
<1>3. u.hash = t.hash /\ u.next_code = t.next_code /\ u.threshold = t.threshold
      /\ u.code_size = t.code_size
  BY <1>1 DEF TabOK
<1> HIDE DEF u
<1>4. TabOK(u)
  BY <1>1, <1>2 DEF TabOK
<1>5. Matches(u, pre, suf, us, nx)
  BY <1>2, <1>4 DEF Matches
<1>6. Counts(u, h, nx, th, cs)
  BY <1>3 DEF Counts
<1> QED
  BY <1>2, <1>5, <1>6 DEF u

\* Both add the same entry and count the same: u is the Python tool's table
\* when _LzwTable.insert has done, and the caller has not looked at its state.
Added(u) ==
    /\ Matches(u, prefix', suffix', used', next')
    /\ Counts(u, hash', next', threshold', bits')
    /\ PyState(state') = IF u.state = "last pass" THEN "replacing" ELSE u.state
    /\ replacing' <=> u.state = "replacing"

LEMMA AddMatches ==
    ASSUME NEW t, NEW p, p # Missing, NEW s, NEW flag, next \in Codes => used'[next] = flag,
           Matches(t, prefix, suffix, used', next), Counts(t, hash, next, threshold, bits),
           t.state = PyState(state), TypeOK, SuffixTable, AddEntry(p, s)
    PROVE  Added(Insert(t, p, s, flag))
<1> DEFINE u == Insert(t, p, s, flag)
           full == (next + 2) \div HighUnit = threshold
<1>1. /\ TabOK(t) /\ t.next_code = next /\ t.hash = hash /\ t.threshold = threshold
      /\ t.code_size = bits /\ next \in Nat
  BY DEF Matches, Counts, TypeOK
<1>2. /\ TabOK(u)
      /\ \A k \in Codes : k # next => u.entry[k] = t.entry[k]
      /\ next \in Codes => u.entry[next] = [prefix |-> p, suffix |-> s, used |-> flag]
  <2>1. IsInserted(u, t, p, s, flag)
    BY <1>1, InsertIs
  <2> QED
    BY <1>1, <2>1 DEF IsInserted
<1>3. Counts(u, hash', next', threshold', bits')
  BY <1>1 DEF Insert, AddEntry, Counts
<1>4. u.state = IF full /\ bits >= MaxBits THEN "last pass" ELSE PyState(state)
  BY <1>1 DEF Insert
<1>5. /\ state' = IF (full /\ bits >= MaxBits) \/ state # "filling" THEN "last" ELSE state
      /\ replacing' <=> (state = "last" /\ ~(full /\ bits >= MaxBits))
  BY DEF AddEntry
<1>6. state \in {"filling", "last"}
  BY DEF TypeOK
<1>7. /\ prefix' = IF next \in Codes THEN [prefix EXCEPT ![next] = p] ELSE prefix
      /\ suffix' = IF next \in Codes THEN [suffix EXCEPT ![next] = s] ELSE suffix
      /\ next' = next + 1
  BY DEF AddEntry
<1> HIDE DEF u, full
<1>8. /\ PyState(state') = IF u.state = "last pass" THEN "replacing" ELSE u.state
      /\ replacing' <=> u.state = "replacing"
  BY <1>4, <1>5, <1>6 DEF PyState
<1>9. \A k \in Codes : k # next => prefix'[k] = prefix[k] /\ suffix'[k] = suffix[k]
  BY <1>7 DEF TypeOK, SuffixTable
<1>10. next \in Codes => prefix'[next] = p /\ suffix'[next] = s
  BY <1>7 DEF TypeOK, SuffixTable
<1>11. ASSUME NEW k \in Codes, k < next'
       PROVE  u.entry[k] = [prefix |-> prefix'[k], suffix |-> suffix'[k], used |-> used'[k]]
  <2>1. CASE k = next
    BY <1>2, <1>10, <2>1
  <2>2. CASE k # next
    <3>1. k < next
      BY <1>1, <1>7, <1>11, <2>2 DEF Codes
    <3>2. t.entry[k] = [prefix |-> prefix[k], suffix |-> suffix[k], used |-> used'[k]]
      BY <3>1 DEF Matches
    <3> QED
      BY <1>2, <1>9, <2>2, <3>2
  <2> QED
    BY <2>1, <2>2
<1>12. ASSUME NEW k \in Codes, ~(k < next')
       PROVE  u.entry[k].prefix = Missing
  <2>1. k # next /\ ~(k < next)
    BY <1>1, <1>7, <1>12 DEF Codes
  <2> QED
    BY <1>2, <2>1 DEF Matches
<1>13. Matches(u, prefix', suffix', used', next')
  BY <1>2, <1>11, <1>12 DEF Matches
<1> QED
  BY <1>3, <1>8, <1>13 DEF u, Added

\* The table a stream starts with, and starts with again after a reset.
LEMMA SeededMatches ==
    ASSUME NEW pre, NEW suf, NEW us,
           \A k \in Codes : k < Seeds =>
             /\ pre[k] = IF k < NRoots THEN None ELSE Reserved
             /\ suf[k] = IF k < NRoots THEN k ELSE 0
             /\ us[k] = TRUE
    PROVE  /\ Matches(SeededTable, pre, suf, us, Seeds)
           /\ Counts(SeededTable, SeedHash, Seeds, 2 ^ InitBits \div HighUnit, InitBits)
           /\ SeededTable.state = PyState("filling")
<1>1. /\ TabOK(SeededTable) /\ SeededTable.state = PyState("filling")
      /\ Counts(SeededTable, SeedHash, Seeds, 2 ^ InitBits \div HighUnit, InitBits)
  BY DEF SeededTable, TabOK, PyState, Counts
<1>2. \A k \in Codes : SeededTable.entry[k] =
                         [prefix |-> IF k < NRoots THEN None ELSE IF k < Seeds THEN Reserved ELSE Missing,
                          suffix |-> IF k < NRoots THEN k ELSE 0,
                          used |-> k < Seeds]
  BY DEF SeededTable
<1>3. ASSUME NEW k \in Codes, k < Seeds
      PROVE  SeededTable.entry[k] = [prefix |-> pre[k], suffix |-> suf[k], used |-> us[k]]
  <2>1. us[k] = (k < Seeds)
    BY <1>3
  <2>2. /\ pre[k] = IF k < NRoots THEN None ELSE IF k < Seeds THEN Reserved ELSE Missing
        /\ suf[k] = IF k < NRoots THEN k ELSE 0
    BY <1>3
  <2> QED
    BY <1>2, <2>1, <2>2, Zenon
<1>4. ASSUME NEW k \in Codes, ~(k < Seeds)
      PROVE  SeededTable.entry[k].prefix = Missing
  <2>1. ~(k < NRoots)
    BY <1>4, SizeAssumption DEF Seeds, Codes
  <2>2. SeededTable.entry[k].prefix =
          IF k < NRoots THEN None ELSE IF k < Seeds THEN Reserved ELSE Missing
    BY DEF SeededTable
  <2> QED
    BY <1>4, <2>1, <2>2
<1> QED
  BY <1>1, <1>3, <1>4 DEF Matches
LEMMA InitBoth == BothInit => BothInv
<1> SUFFICES ASSUME Init, PyInit PROVE BothInv
  BY DEF BothInit
<1>1. /\ prefix = Seeded([c \in Codes |-> Reserved], [c \in Codes |-> None], Reserved)
      /\ suffix = Seeded([c \in Codes |-> 0], [c \in Codes |-> c], 0)
      /\ used = [c \in Codes |-> c < Seeds] /\ next = Seeds /\ hash = SeedHash
      /\ bits = InitBits /\ threshold = 2 ^ InitBits \div HighUnit
  BY DEF Init
<1>2. state = "filling" /\ prev = None /\ out = <<>>
  BY DEF Init
<1>3. tab = SeededTable /\ prev_code = None /\ skip_insert /\ result = <<>>
  BY DEF PyInit
<1>3a. replacing = py_replacing /\ done = stopped
  BY Zenon DEF Init, PyInit
<1>4. \A c \in Codes : c < Seeds =>
        /\ prefix[c] = IF c < NRoots THEN None ELSE Reserved
        /\ suffix[c] = IF c < NRoots THEN c ELSE 0
        /\ used[c] = TRUE
  BY <1>1 DEF Seeded
<1>5. /\ Matches(tab, prefix, suffix, used, next)
      /\ Counts(tab, hash, next, threshold, bits)
      /\ tab.state = PyState(state)
  <2>1. /\ Matches(SeededTable, prefix, suffix, used, Seeds)
        /\ Counts(SeededTable, SeedHash, Seeds, 2 ^ InitBits \div HighUnit, InitBits)
        /\ SeededTable.state = PyState("filling")
    BY <1>4, SeededMatches
  <2> QED
    BY <1>1, <1>2, <1>3, <2>1, Zenon
<1>6. InStep
  BY <1>2, <1>3, <1>3a, <1>5 DEF InStep
<1>7. SameOutput
  BY <1>2, <1>3, <1>3a DEF SameOutput
<1> QED
  BY <1>5, <1>6, <1>7, InitDict DEF BothInv

LEMMA ResetBoth ==
    ASSUME BothInv, DictInv', ~done, NEW c, DecodeReset(c), PyReset(c)
    PROVE  BothInv'
<1>1. /\ prefix' = Seeded(prefix, [k \in Codes |-> None], Reserved)
      /\ suffix' = Seeded(suffix, [k \in Codes |-> k], 0)
      /\ used' = [k \in Codes |-> k < Seeds] /\ next' = Seeds /\ hash' = SeedHash
      /\ bits' = InitBits /\ threshold' = 2 ^ InitBits \div HighUnit
  BY DEF DecodeReset, InitLzw
<1>2. state' = "filling" /\ prev' = None /\ done' = done /\ out' = <<>>
  BY DEF DecodeReset
<1>3. /\ tab' = SeededTable /\ prev_code' = None /\ skip_insert'
      /\ stopped' = stopped /\ result' = <<>>
  BY DEF PyReset
<1>3a. replacing' = py_replacing'
  BY Zenon DEF DecodeReset, PyReset
<1>4. \A k \in Codes : k < Seeds =>
        /\ prefix'[k] = IF k < NRoots THEN None ELSE Reserved
        /\ suffix'[k] = IF k < NRoots THEN k ELSE 0
        /\ used'[k] = TRUE
  BY <1>1 DEF Seeded
<1>5. /\ Matches(tab', prefix', suffix', used', next')
      /\ Counts(tab', hash', next', threshold', bits')
      /\ tab'.state = PyState(state')
  <2>1. /\ Matches(SeededTable, prefix', suffix', used', Seeds)
        /\ Counts(SeededTable, SeedHash, Seeds, 2 ^ InitBits \div HighUnit, InitBits)
        /\ SeededTable.state = PyState("filling")
    BY <1>4, SeededMatches
  <2> QED
    BY <1>1, <1>2, <1>3, <2>1, Zenon
<1>6. InStep'
  BY <1>2, <1>3, <1>3a, <1>5 DEF InStep
<1>7. SameOutput'
  BY <1>2, <1>3 DEF SameOutput, BothInv
<1> QED
  BY <1>5, <1>6, <1>7 DEF BothInv
\* What the table holds, and what its walk gives.
LEMMA EntriesAre ==
    ASSUME NEW t, NEW pre, NEW suf, NEW us, NEW nx, Matches(t, pre, suf, us, nx),
           \A k \in Codes : pre[k] # Missing
    PROVE  Entries(t) = {k \in Codes : k < nx}
<1>1. ASSUME NEW k \in Codes, k < nx
      PROVE  t.entry[k].prefix # Missing
  <2>1. t.entry[k] = [prefix |-> pre[k], suffix |-> suf[k], used |-> us[k]]
    BY <1>1 DEF Matches
  <2>2. t.entry[k].prefix = pre[k]
    BY <2>1
  <2> QED
    BY <2>2
<1>2. \A k \in Codes : ~(k < nx) => t.entry[k].prefix = Missing
  BY DEF Matches
<1> QED
  BY <1>1, <1>2 DEF Entries

LEMMA WalkIs ==
    ASSUME NEW t, NEW pre, NEW suf, NEW us, NEW nx, Matches(t, pre, suf, us, nx),
           NEW G, G \subseteq {k \in Codes : k < nx},
           \A k \in G : pre[k] = None \/ pre[k] \in G,
           NEW c \in G
    PROVE  Walk(t, c) = Walked(pre, suf, c)
<1> DEFINE pre2 == [k \in Codes |-> t.entry[k].prefix]
           suf2 == [k \in Codes |-> t.entry[k].suffix]
<1>1. ASSUME NEW k \in G
      PROVE  /\ pre2[k] = pre[k] /\ suf2[k] = suf[k]
             /\ pre[k] = None \/ pre[k] \in G
  <2>1. t.entry[k] = [prefix |-> pre[k], suffix |-> suf[k], used |-> us[k]]
    BY DEF Matches
  <2>2. t.entry[k].prefix = pre[k] /\ t.entry[k].suffix = suf[k]
    BY <2>1
  <2> QED
    BY <2>2
<1>2. Walk(t, c) = Walked(pre2, suf2, c)
  BY DEF Walk
<1>3. G \subseteq Codes
  OBVIOUS
<1> HIDE DEF pre2, suf2
<1> QED
  BY <1>1, <1>2, <1>3, SameWalk

\* No entry's prefix is what marks that there is no entry.
LEMMA NeverMissing == IInv => \A k \in Codes : prefix[k] # Missing
BY DEF IInv, TypeOK, Codes, None, Reserved, Missing

\* Both mark a code used, whether it is an entry or not.
LEMMA MarkMatches ==
    ASSUME BothInv, ~done, NEW c \in Codes, used' = [used EXCEPT ![c] = TRUE]
    PROVE  /\ c \in Entries(tab) <=> c < next
           /\ Matches(Marked(c), prefix, suffix, used', next)
           /\ Counts(Marked(c), hash, next, threshold, bits)
           /\ Marked(c).state = PyState(state)
<1>1. IInv /\ used \in [Codes -> BOOLEAN]
  BY DEF BothInv, DictInv, IInv, TypeOK
<1>2. /\ Matches(tab, prefix, suffix, used, next)
      /\ Counts(tab, hash, next, threshold, bits)
      /\ InStep
  BY DEF BothInv
<1>3. c \in Entries(tab) <=> c < next
  <2>1. Entries(tab) = {k \in Codes : k < next}
    BY <1>1, <1>2, NeverMissing, EntriesAre
  <2> QED
    BY <2>1
<1>5. /\ TabOK(Marked(c))
      /\ Counts(Marked(c), tab.hash, tab.next_code, tab.threshold, tab.code_size)
      /\ Marked(c).state = tab.state
      /\ \A k \in Codes : k # c => Marked(c).entry[k] = tab.entry[k]
      /\ Marked(c).entry[c].prefix = tab.entry[c].prefix
  BY <1>2, MarkedIs DEF Matches
<1>6. Counts(Marked(c), hash, next, threshold, bits) /\ Marked(c).state = PyState(state)
  BY <1>2, <1>5 DEF Counts, InStep
<1>7. ASSUME NEW k \in Codes, k < next
      PROVE  Marked(c).entry[k] = [prefix |-> prefix[k], suffix |-> suffix[k], used |-> used'[k]]
  <2>1. tab.entry[k] = [prefix |-> prefix[k], suffix |-> suffix[k], used |-> used[k]]
    BY <1>2, <1>7 DEF Matches
  <2>2. CASE k = c
    <3>1. used'[c] = TRUE
      BY <1>1
    <3>2. tab.entry[c] = [prefix |-> prefix[c], suffix |-> suffix[c], used |-> used[c]]
      BY <2>1, <2>2
    <3> DEFINE yes == used'[c]
    <3>3. TabOK(tab) /\ yes = TRUE
      BY <1>2, <3>1 DEF Matches
    <3>4. EntryIs(tab, c, prefix[c], suffix[c], used[c])
      BY <3>2, Zenon DEF EntryIs
    <3> HIDE DEF yes
    <3>5. EntryIs(Marked(c), c, prefix[c], suffix[c], yes)
      BY <3>3, <3>4, MarkedEntry
    <3> QED
      BY <2>2, <3>5, Zenon DEF yes, EntryIs
  <2>3. CASE k # c
    <3>1. used'[k] = used[k]
      BY <1>1, <2>3
    <3> QED
      BY <1>5, <2>1, <2>3, <3>1
  <2> QED
    BY <2>2, <2>3
<1>8. ASSUME NEW k \in Codes, ~(k < next)
      PROVE  Marked(c).entry[k].prefix = Missing
  <2>1. tab.entry[k].prefix = Missing
    BY <1>2, <1>8 DEF Matches
  <2> QED
    BY <1>5, <2>1
<1>9. Matches(Marked(c), prefix, suffix, used', next)
  BY <1>5, <1>7, <1>8 DEF Matches
<1> QED
  BY <1>3, <1>6, <1>9
\* emit of the entry about to be made makes it, as crunch$add$entry does.
LEMMA EmitNew ==
    ASSUME BothInv, ~done, NEW c \in Codes, c = next, prev # None,
           AddEntry(prev, first_byte), used' = [used EXCEPT ![c] = TRUE]
    PROVE  c \notin Entries(tab) /\ Added(Emitting(c))
<1>1. TypeOK /\ SuffixTable /\ prev_code = prev
  BY DEF BothInv, DictInv, IInv, InStep
<1>2. /\ c \notin Entries(tab)
      /\ Matches(Marked(c), prefix, suffix, used', next)
      /\ Counts(Marked(c), hash, next, threshold, bits)
      /\ Marked(c).state = PyState(state)
  <2>1. ~(c < next)
    BY <1>1 DEF TypeOK
  <2> QED
    BY <2>1, MarkMatches
<1>3. prev # Missing
  BY <1>1 DEF TypeOK, Codes, None, Missing
<1> DEFINE yes == used'[next]
<1>4. yes = TRUE
  BY <1>1 DEF TypeOK
<1>5. Emitting(c) = Insert(Marked(c), prev, first_byte, yes)
  <2>1. Emitting(c) = Insert(Marked(c), prev, first_byte, TRUE)
    BY <1>1, <1>2 DEF Emitting
  <2> HIDE DEF yes
  <2> QED
    BY <1>4, <2>1, Zenon
<1>6. next \in Codes => used'[next] = yes
  OBVIOUS
<1> HIDE DEF yes
<1> QED
  BY <1>1, <1>2, <1>3, <1>5, <1>6, AddMatches
\* What emit appends for a code is what lzw$output writes for it.
LEMMA EmitGives ==
    ASSUME BothInv, DictInv', ~done, NEW c \in Readable, DecodeCode(c)
    PROVE  /\ c \in Entries(Emitting(c)) /\ Walk(Emitting(c), c) = out'
           /\ c = next => c \notin Entries(tab) /\ Added(Emitting(c))
<1>1. DictInv /\ IInv /\ RootsKept /\ TypeOK
  BY DEF BothInv, DictInv, IInv
<1>2. /\ c \in Codes \ Control /\ used' = [used EXCEPT ![c] = TRUE]
      /\ \/ c \in Named
         \/ c = next /\ prev \in Named /\ ~replacing
      /\ next \in Nat /\ c < next'
  BY <1>1, CodeTaken
<1>3. CASE c \in Named
  <2>1. c < next /\ c # next
    BY <1>2, <1>3 DEF Named, Codes
  <2>2. /\ c \in Entries(tab)
        /\ Matches(Marked(c), prefix, suffix, used', next)
    BY <1>2, <2>1, MarkMatches
  <2>3. Emitting(c) = Marked(c)
    BY <2>2 DEF Emitting
  <2>4. c \in Entries(Marked(c))
    <3>1. Entries(Marked(c)) = {k \in Codes : k < next}
      BY <1>1, <2>2, NeverMissing, EntriesAre
    <3> QED
      BY <1>2, <2>1, <3>1
  <2>5. Walk(Marked(c), c) = Walked(prefix, suffix, c)
    <3>1. Chained(Named, prefix, len)
      BY <1>1, NamedChained
    <3>2. Named \subseteq {k \in Codes : k < next} /\ \A k \in Named : prefix[k] = None \/ prefix[k] \in Named
      BY <3>1 DEF Chained, Named
    <3> QED
      BY <1>3, <2>2, <3>2, WalkIs
  <2>6. out' = Walked(prefix, suffix, c)
    BY <2>1 DEF DecodeCode, Text, StringOf
  <2> QED
    BY <2>1, <2>3, <2>4, <2>5, <2>6
<1>4. CASE c = next /\ prev \in Named /\ ~replacing
  <2>1. prev # None
    BY <1>4 DEF Named, Codes, None
  <2>2. out' = Append(StringOf(prev), FirstByte(prev))
    BY <1>2, <1>4 DEF DecodeCode, Text
  <2>3. Head(out') = FirstByte(prev)
    BY <1>1, <1>4, <2>2, NamedString DEF FirstByte
  <2>4. first_byte = FirstByte(prev)
    BY <1>1, <2>1 DEF BothInv, InStep, DictInv, WrittenIsEntry, FirstByte
  <2>5. AddEntry(prev, first_byte)
    BY <1>4, <2>1, <2>3, <2>4 DEF DecodeCode
  <2>6. c \notin Entries(tab) /\ Added(Emitting(c))
    BY <1>2, <1>4, <2>1, <2>5, EmitNew
  <2>7. Matches(Emitting(c), prefix', suffix', used', next')
    BY <2>6 DEF Added
  <2>8. IInv' /\ RootsKept' /\ (IInv /\ RootsKept)'
    BY DEF DictInv
  <2>9. c \in Entries(Emitting(c))
    <3>1. (\A k \in Codes : prefix[k] # Missing)'
      BY <2>8, NeverMissing, PTL
    <3>2. \A k \in Codes : prefix'[k] # Missing
      BY <3>1
    <3>3. Entries(Emitting(c)) = {k \in Codes : k < next'}
      BY <2>7, <3>2, EntriesAre
    <3> QED
      BY <1>2, <3>3
  <2>10. Walk(Emitting(c), c) = Walked(prefix', suffix', c)
    <3>1. Chained(Named, prefix, len)'
      BY <2>8, NamedChained, PTL
    <3> DEFINE G == Named'
    <3>2. /\ G \subseteq {k \in Codes : k < next'}
          /\ \A k \in G : prefix'[k] = None \/ prefix'[k] \in G
          /\ c \in G
      BY <1>2, <3>1 DEF Chained, Named
    <3> HIDE DEF G
    <3> QED
      BY <2>7, <3>2, WalkIs
  <2>11. out' = StringOf(c)'
    BY <1>1, <2>8, TextKept
  <2> QED
    BY <2>6, <2>9, <2>10, <2>11 DEF StringOf
<1> QED
  BY <1>2, <1>3, <1>4

\* Both come out of an entry made in the same state.
LEMMA AddedInStep ==
    ASSUME NEW t, Added(t), replacing' \in BOOLEAN,
           tab' = [t EXCEPT !.state = IF t.state = "last pass" THEN "replacing" ELSE t.state],
           py_replacing' = (t.state = "replacing")
    PROVE  /\ Matches(tab', prefix', suffix', used', next')
           /\ Counts(tab', hash', next', threshold', bits')
           /\ tab'.state = PyState(state') /\ replacing' = py_replacing'
<1> DEFINE x == IF t.state = "last pass" THEN "replacing" ELSE t.state
<1>1. tab' = [t EXCEPT !.state = x]
  OBVIOUS
<1>2. PyState(state') = x /\ (replacing' <=> t.state = "replacing")
  BY DEF Added
<1> HIDE DEF x
<1>3. /\ Matches([t EXCEPT !.state = x], prefix', suffix', used', next')
      /\ Counts([t EXCEPT !.state = x], hash', next', threshold', bits')
      /\ [t EXCEPT !.state = x].state = x
  BY StateSet DEF Added
<1>4. replacing' = py_replacing'
  BY <1>2
<1> QED
  BY <1>1, <1>2, <1>3, <1>4, Zenon
\* Both recycle the same entry: the first on the chain no code has named.
LEMMA ReplaceMatches ==
    ASSUME NEW t, NEW p, NEW s, IInv, replacing,
           Matches(t, prefix, suffix, used', next), Counts(t, hash, next, threshold, bits),
           t.state = PyState(state), Replace(p, s)
    PROVE  /\ Matches(Recycled(t, p, s), prefix', suffix', used', next')
           /\ Counts(Recycled(t, p, s), hash', next', threshold', bits')
           /\ Recycled(t, p, s).state = PyState(state')
<1> DEFINE V == Victims(p, s, used')
           u == Recycled(t, p, s)
           no == FALSE
<1>1. /\ next \in Nat /\ TableSize \in Nat /\ next >= TableSize
  BY SizeAssumption DEF IInv, TypeOK, FullWhenReplacing
<1>2. \A k \in Codes : k < next
  BY <1>1 DEF Codes
<1>3. /\ prefix' = [k \in Codes |-> IF k \in V THEN p ELSE prefix[k]]
      /\ suffix' = [k \in Codes |-> IF k \in V THEN s ELSE suffix[k]]
      /\ hash' = hash /\ next' = next /\ threshold' = threshold /\ bits' = bits /\ state' = state
  BY DEF Replace, width
<1>4. TabOK(t) /\ t.hash = hash /\ t.next_code = next /\ t.threshold = threshold /\ t.code_size = bits
  BY DEF Matches, Counts
<1>5. \A k \in Codes : t.entry[k].used = used'[k]
  <2> SUFFICES ASSUME NEW k \in Codes PROVE t.entry[k].used = used'[k]
    OBVIOUS
  <2>1. t.entry[k] = [prefix |-> prefix[k], suffix |-> suffix[k], used |-> used'[k]]
    BY <1>2 DEF Matches
  <2> QED
    BY <2>1
<1>6. V = PyVictims(t, p, s)
  <2>1. {i \in Slots : t.hash[i] = Free \/ (t.hash[i] \in Codes /\ ~t.entry[t.hash[i]].used)}
          = {i \in Slots : \/ hash[i] = Free
                           \/ /\ hash[i] \in Codes
                              /\ ~used'[hash[i]]}
    BY <1>4, <1>5
  <2> QED
    BY <1>4, <2>1, Zenon DEF Victims, PyVictims
<1>7. \A k \in Codes : k \in V => used'[k] = FALSE
  <2> SUFFICES ASSUME NEW k \in Codes, k \in V PROVE used'[k] = FALSE
    OBVIOUS
  <2> QED
    BY VictimsUnused
<1> HIDE DEF V, u, no
<1>8. /\ TabOK(u) /\ u.state = t.state
      /\ Counts(u, t.hash, t.next_code, t.threshold, t.code_size)
      /\ \A k \in Codes : k \in V => u.entry[k] = [prefix |-> p, suffix |-> s, used |-> no]
      /\ \A k \in Codes : k \notin V => u.entry[k] = t.entry[k]
  <2>1. no = FALSE
    BY DEF no
  <2>2. IsRecycled(u, t, p, s, no)
    BY <1>4, <2>1, RecycledIs DEF u
  <2> QED
    BY <1>6, <2>2 DEF IsRecycled
<1>9. ASSUME NEW k \in Codes
      PROVE  u.entry[k] = [prefix |-> prefix'[k], suffix |-> suffix'[k], used |-> used'[k]]
  <2>1. CASE k \in V
    <3>1. prefix'[k] = p /\ suffix'[k] = s /\ used'[k] = no
      BY <1>3, <1>7, <2>1 DEF no
    <3> QED
      BY <1>8, <2>1, <3>1
  <2>2. CASE k \notin V
    <3>1. prefix'[k] = prefix[k] /\ suffix'[k] = suffix[k]
      BY <1>3, <2>2
    <3>2. t.entry[k] = [prefix |-> prefix[k], suffix |-> suffix[k], used |-> used'[k]]
      BY <1>2 DEF Matches
    <3> QED
      BY <1>8, <2>2, <3>1, <3>2
  <2> QED
    BY <2>1, <2>2
<1>10. Matches(u, prefix', suffix', used', next')
  BY <1>2, <1>3, <1>8, <1>9 DEF Matches
<1>11. Counts(u, hash', next', threshold', bits') /\ u.state = PyState(state')
  BY <1>3, <1>4, <1>8 DEF Counts
<1> QED
  BY <1>10, <1>11 DEF u
\* A code both take, they take alike.
LEMMA CodeBoth ==
    ASSUME BothInv, DictInv', ~done, NEW c \in Readable, DecodeCode(c), PyCode(c)
    PROVE  BothInv'
<1>1. DictInv /\ IInv /\ TypeOK /\ SuffixTable /\ InStep /\ replacing' \in BOOLEAN
  BY DEF BothInv, DictInv, IInv, TypeOK
<1>2. /\ c \in Codes \ Control /\ used' = [used EXCEPT ![c] = TRUE] /\ prev' = c /\ done' = done
      /\ \/ c \in Named
         \/ c = next /\ prev \in Named /\ ~replacing
      /\ next \in Nat
  BY <1>1, CodeTaken
<1>3. c \in Named => c < next /\ c # next
  BY <1>2 DEF Named, Codes
<1>4. c # None /\ (c = next => prev # None)
  BY <1>2 DEF Named, Codes, None
<1>5. /\ result' = out' /\ first_byte' = Head(out') /\ prev_code' = c /\ stopped' = stopped
      /\ c = next => c \notin Entries(tab) /\ Added(Emitting(c))
  BY EmitGives DEF PyCode
<1>6. /\ c \in Entries(tab) <=> c < next
      /\ Matches(Marked(c), prefix, suffix, used', next)
      /\ Counts(Marked(c), hash, next, threshold, bits)
      /\ Marked(c).state = PyState(state)
  BY <1>2, MarkMatches
<1>7. c < next => Emitting(c) = Marked(c)
  BY <1>6 DEF Emitting
<1>8. Skipping(c) <=> prev = None \/ c = next
  BY <1>1, <1>2, <1>3, <1>6 DEF Skipping, InStep
<1>9. /\ Matches(tab', prefix', suffix', used', next')
      /\ Counts(tab', hash', next', threshold', bits')
      /\ tab'.state = PyState(state') /\ replacing' = py_replacing' /\ ~skip_insert'
  <2>1. CASE replacing
    <3>1. prev # None /\ c \in Named /\ py_replacing
      BY <1>1, <1>2, <2>1 DEF InStep, IInv, FullWhenReplacing
    <3>2. Replace(prev, Head(out')) /\ replacing' = replacing
      BY <2>1, <3>1 DEF DecodeCode, Replace, width
    <3>3. /\ tab' = Recycled(Marked(c), prev, Head(out'))
          /\ skip_insert' = Skipping(c) /\ py_replacing' = py_replacing
      BY <1>1, <1>3, <1>5, <1>7, <3>1 DEF PyCode, InStep
    <3>4. ~skip_insert' /\ replacing' = py_replacing'
      BY <1>1, <1>3, <1>8, <3>1, <3>2, <3>3 DEF InStep
    <3>5. /\ Matches(Recycled(Marked(c), prev, Head(out')), prefix', suffix', used', next')
          /\ Counts(Recycled(Marked(c), prev, Head(out')), hash', next', threshold', bits')
          /\ Recycled(Marked(c), prev, Head(out')).state = PyState(state')
      BY <1>1, <1>6, <2>1, <3>2, ReplaceMatches
    <3> QED
      BY <3>3, <3>4, <3>5
  <2>2. CASE ~replacing
    <3> DEFINE t == IF Skipping(c) THEN Emitting(c)
                    ELSE Insert(Emitting(c), prev_code, first_byte', FALSE)
    <3>1. ~py_replacing
      BY <1>1, <2>2 DEF InStep
    <3>2. /\ tab' = [t EXCEPT !.state = IF t.state = "last pass" THEN "replacing" ELSE t.state]
          /\ py_replacing' = (t.state = "replacing")
          /\ skip_insert' = FALSE
      BY <3>1 DEF PyCode
    <3>3. Added(t)
      <4>1. CASE c = next
        BY <1>5, <1>8, <4>1
      <4>2. CASE c \in Named /\ prev = None
        <5>1. t = Marked(c)
          BY <1>3, <1>7, <1>8, <4>2
        <5>2. /\ prefix' = prefix /\ suffix' = suffix /\ hash' = hash /\ next' = next
              /\ threshold' = threshold /\ bits' = bits /\ state' = state /\ replacing' = replacing
          BY <4>2 DEF DecodeCode, table, width
        <5>3. state = "filling" /\ Marked(c).state = "filling"
          BY <1>1, <1>6, <4>2 DEF InStep, PyState
        <5>4. Added(Marked(c))
          BY <1>6, <2>2, <5>2, <5>3 DEF Added, PyState
        <5> QED
          BY <5>1, <5>4
      <4>3. CASE c \in Named /\ prev # None
        <5> DEFINE no == FALSE
        <5>1. t = Insert(Marked(c), prev, Head(out'), no)
          BY <1>1, <1>3, <1>5, <1>7, <1>8, <4>3 DEF InStep
        <5>2. AddEntry(prev, Head(out'))
          BY <2>2, <4>3 DEF DecodeCode
        <5>3. next \in Codes => used'[next] = no
          <6> SUFFICES ASSUME next \in Codes PROVE used'[next] = FALSE
            OBVIOUS
          <6>1. ~used[next]
            BY <1>1, <1>2 DEF DictInv, FreshUnused
          <6> QED
            BY <1>1, <1>2, <1>3, <4>3, <6>1 DEF TypeOK
        <5>4. prev # Missing
          BY <1>1 DEF TypeOK, Codes, None, Missing
        <5> HIDE DEF no, t
        <5>5. Added(Insert(Marked(c), prev, Head(out'), no))
          BY <1>1, <1>6, <5>2, <5>3, <5>4, AddMatches
        <5> QED
          BY <5>1, <5>5
      <4> QED
        BY <1>2, <4>1, <4>2, <4>3
    <3> HIDE DEF t
    <3> QED
      BY <1>1, <3>2, <3>3, AddedInStep
  <2> QED
    BY <2>1, <2>2
<1>10. InStep'
  <2>1. replacing' = py_replacing' /\ ~skip_insert' /\ tab'.state = PyState(state')
    BY <1>9
  <2> QED
    BY <1>2, <1>4, <1>5, <2>1 DEF InStep
<1>11. SameOutput'
  BY <1>2, <1>5 DEF SameOutput, BothInv
<1> QED
  BY <1>9, <1>10, <1>11 DEF BothInv
\* A code that names nothing names nothing in the Python tool's table either.
LEMMA UnknownBoth ==
    ASSUME BothInv, ~done, NEW c \in Readable, Streams(c), DecodeUnknown(c)
    PROVE  c \notin Entries(Emitting(c))
<1>1. DictInv /\ IInv /\ TypeOK /\ InStep
  BY DEF BothInv, DictInv, IInv
<1>2. c \in Codes /\ used' = [used EXCEPT ![c] = TRUE] /\ next \in Nat /\ c > next
  <2>1. c \in Codes /\ Unknown(c)
    BY DEF DecodeUnknown, Readable
  <2> QED
    BY <1>1, <2>1 DEF DecodeUnknown, Unknown, Streams, TypeOK
<1>3. /\ c \in Entries(tab) <=> c < next
      /\ Matches(Marked(c), prefix, suffix, used', next)
      /\ Counts(Marked(c), hash, next, threshold, bits)
  BY <1>2, MarkMatches
<1>4. ~(c < next) /\ c # next
  BY <1>2 DEF Codes
<1>5. Marked(c).entry[c].prefix = Missing /\ TabOK(Marked(c)) /\ Marked(c).next_code = next
  BY <1>2, <1>3, <1>4 DEF Matches, Counts
<1> DEFINE yes == TRUE
<1>6. Emitting(c) = Insert(Marked(c), prev_code, first_byte, yes)
  BY <1>3, <1>4 DEF Emitting
<1> HIDE DEF yes
<1>7. \A k \in Codes : k # next => Emitting(c).entry[k] = Marked(c).entry[k]
  <2>1. IsInserted(Emitting(c), Marked(c), prev_code, first_byte, yes)
    BY <1>5, <1>6, InsertIs
  <2> QED
    BY <1>5, <2>1 DEF IsInserted
<1> QED
  BY <1>2, <1>4, <1>5, <1>7 DEF Entries

LEMMA NextBoth == BothInv /\ [BothNext]_<<vars, py_vars>> => BothInv'
<1> SUFFICES ASSUME BothInv, [BothNext]_<<vars, py_vars>> PROVE BothInv'
  OBVIOUS
<1>1. DictInv'
  <2>1. [Next]_vars
    BY DEF BothNext, ReadSame, EndSame, DiskFull, Next
  <2> QED
    BY <2>1, NextDict DEF BothInv
<1>2. CASE UNCHANGED <<vars, py_vars>>
  <2>1. /\ prefix' = prefix /\ suffix' = suffix /\ hash' = hash /\ next' = next /\ bits' = bits
        /\ threshold' = threshold /\ state' = state /\ replacing' = replacing /\ used' = used
        /\ prev' = prev /\ done' = done /\ out' = out /\ tab' = tab /\ prev_code' = prev_code
        /\ first_byte' = first_byte /\ skip_insert' = skip_insert
        /\ py_replacing' = py_replacing /\ stopped' = stopped /\ result' = result
    BY <1>2 DEF vars, py_vars, table, width
  <2> QED
    BY <1>1, <2>1 DEF BothInv, InStep, SameOutput
<1>3. ResetCode \in Control /\ ResetCode \notin Fillers /\ Fillers \subseteq Control
  BY SizeAssumption DEF ResetCode, Control, Fillers, Seeds
<1>4. ASSUME ~done, ~stopped, NEW c \in Readable, Streams(c), PyStep(c),
             DecodeCode(c) \/ DecodeUnknown(c) \/ DecodeReset(c) \/ DecodeFiller(c)
      PROVE  BothInv'
  <2>1. CASE DecodeCode(c)
    <3>1. c \in Entries(Emitting(c)) /\ c \notin Control
      BY <1>1, <1>4, <2>1, EmitGives DEF DecodeCode
    <3>2. PyCode(c)
      BY <1>3, <1>4, <3>1 DEF PyStep, PyUnknown, PyReset, PyFiller
    <3> QED
      BY <1>1, <1>4, <2>1, <3>2, CodeBoth
  <2>2. CASE DecodeUnknown(c)
    <3>1. c \notin Entries(Emitting(c)) /\ c \notin Control
      BY <1>4, <2>2, UnknownBoth DEF DecodeUnknown
    <3>2. PyUnknown(c)
      BY <1>3, <1>4, <3>1 DEF PyStep, PyCode, PyReset, PyFiller
    <3> QED
      BY <1>1, <2>2, <3>2 DEF DecodeUnknown, PyUnknown, BothInv, SameOutput
  <2>3. CASE DecodeReset(c)
    <3>1. PyReset(c)
      BY <1>3, <1>4, <2>3 DEF PyStep, PyCode, PyUnknown, PyFiller, DecodeReset
    <3> QED
      BY <1>1, <1>4, <2>3, <3>1, ResetBoth
  <2>4. CASE DecodeFiller(c)
    <3>1. PyFiller(c)
      BY <1>3, <1>4, <2>4 DEF PyStep, PyCode, PyUnknown, PyReset, DecodeFiller
    <3> QED
      BY <1>2, <2>4, <3>1 DEF DecodeFiller, PyFiller
  <2> QED
    BY <1>4, <2>1, <2>2, <2>3, <2>4
<1>5. CASE EndSame
  BY <1>1, <1>5 DEF EndSame, DecodeEnd, PyEnd, BothInv, SameOutput
<1>6. CASE DiskFull
  BY <1>1, <1>6 DEF DiskFull, OutputFails, PyEnd, BothInv, SameOutput
<1> QED
  BY <1>2, <1>4, <1>5, <1>6 DEF BothNext, ReadSame

THEOREM BothInvariant == BothSpec => []BothInv
<1>1. BothInv /\ [BothNext]_<<vars, py_vars>> => BothInv'
  BY NextBoth
<1> QED
  BY <1>1, InitBoth, PTL DEF BothSpec

(* The CP/M program (crunch.plm) and the Python tool (crunch.py) write the *)
(* same bytes for every code of every stream a compressor could begin, and *)
(* stop at the same code.                                                  *)
THEOREM SameBytes == BothSpec => []SameOutput
<1>1. BothInv => SameOutput
  BY DEF BothInv
<1> QED
  BY <1>1, BothInvariant, PTL

(* They keep the same dictionary, so that what one recycles the other does *)
(* (crunch$replace of crunch.plm, _LzwTable.replace of crunch.py).         *)
THEOREM SameTables == BothSpec => []SameDictionary
<1>1. BothInv => SameDictionary
  <2> SUFFICES ASSUME BothInv, ~done PROVE SameDictionary
    BY DEF SameDictionary
  <2>1. /\ Matches(tab, prefix, suffix, used, next)
        /\ Counts(tab, hash, next, threshold, bits)
        /\ InStep /\ IInv
    BY DEF BothInv, DictInv
  <2>2. Entries(tab) = {c \in Codes : c < next}
    BY <2>1, NeverMissing, EntriesAre
  <2>3. \A c \in Entries(tab) :
          tab.entry[c] = [prefix |-> prefix[c], suffix |-> suffix[c], used |-> used[c]]
    BY <2>1, <2>2 DEF Matches
  <2>4. /\ hash = tab.hash /\ next = tab.next_code /\ bits = tab.code_size
        /\ threshold = tab.threshold
    BY <2>1 DEF Counts
  <2>5. prev = prev_code /\ replacing = py_replacing
    BY <2>1 DEF InStep
  <2> QED
    BY <2>2, <2>3, <2>4, <2>5 DEF SameDictionary, Live
<1> QED
  BY <1>1, BothInvariant, PTL
==============================================================================
