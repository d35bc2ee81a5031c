--------------------------- MODULE Unsqueeze_proofs ---------------------------
(***************************************************************************)
(* What the CP/M program writes for a stored, packed or squeezed member is *)
(* what the Python tool makes of the same bytes, for every width of a      *)
(* byte, every tree, broken ones included, every buffer and every record   *)
(* the disk may refuse.                                                    *)
(*                                                                         *)
(* The invariant says what is still to come: what the Python recursion     *)
(* gives from the symbol, and the bit, that the program has come to.       *)
(***************************************************************************)
EXTENDS Unsqueeze, SequenceTheorems, WellFoundedInduction, TLAPS

Vals == Bytes \union {Pad}

\* What the decoders are given, what they keep of the output, and of a run.
Given == stream \in Seq(Bytes) /\ tree \in Seq([{0, 1} -> Int])
OutputOK == /\ outbuf \in Seq(Vals) /\ file \in Seq(Vals) /\ ok \in BOOLEAN
            /\ Len(outbuf) <= OutSize /\ (ok => Len(outbuf) < OutSize)
            /\ Len(file) % RecSize = 0
RleOK == rle_prev \in Bytes /\ rle_active \in BOOLEAN /\ cnt \in 0 .. NBytes - 2

Going == pc \in {"symbol", "bit", "run"}
Well == /\ Given /\ OutputOK /\ RleOK
        /\ method \in {"stored", "packed", "squeezed"}
        /\ pc \in {"symbol", "bit", "run", "end", "closed"}
        /\ pos \in 0 .. Len(stream) /\ bits_left \in 0 .. ByteBits - 1 /\ node \in 0 .. Len(tree)
        /\ pc = "bit" => method = "squeezed" /\ node < Len(tree)
        /\ pc = "run" => method # "stored" /\ ~rle_active
        /\ method # "squeezed" => bits_left = 0 /\ ~rle_active

\* The symbols the run-length decoder is given, and how many it has had.
Symbols == IF method = "squeezed" THEN PySymbols ELSE stream
BitsRead == (ByteBits * pos) - bits_left
Unread == SymbolsFrom[BitsRead][IF pc = "bit" THEN node ELSE 0]
Consumed == IF method = "squeezed" THEN Len(PySymbols) - Len(Unread) ELSE pos

\* After m symbols, what decode_rle makes of the others is still to be written.
Copies == IF pc = "run" THEN [n \in 1 .. cnt |-> rle_prev] ELSE <<>>
RleState(m, text) ==
    /\ ok /\ m \in 0 .. Len(Symbols)
    /\ rle_active => m >= 1 /\ Symbols[m] = Marker
    /\ text = (file \o outbuf)
              \o (Copies \o RleFrom(Symbols)[IF rle_active THEN m ELSE m + 1][rle_prev])

\* Where the program is among the bits of squeezed data.
Place == /\ pos \in 0 .. Len(stream) /\ bits_left \in 0 .. ByteBits - 1
         /\ bits_left # 0 => pos >= 1
Walking == method = "squeezed" =>
             Place /\ Unread = SubSeq(Symbols, Consumed + 1, Len(Symbols))
Coming == IF method = "stored"
          THEN ok /\ PyOutput = (file \o outbuf) \o SubSeq(stream, pos + 1, Len(stream))
          ELSE RleState(Consumed, PyOutput)
Following == Going => Coming /\ Walking
Ended == pc = "end" => ok /\ PyOutput = file \o outbuf

IInv == Well /\ Following /\ Ended /\ WholeOrRefused
-----------------------------------------------------------------------------
\* A set of numbers that is not empty has a least one.
LEMMA LeastOf ==
    ASSUME NEW S, S \subseteq Nat, S # {}
    PROVE  \E m \in S : \A n \in S : m <= n
<1>1. PICK m \in S : \A n \in S : ~(<<n, m>> \in OpToRel(<, Nat))
  BY NatLessThanWellFounded, WFMin, Zenon
<1>2. \A n \in S : ~(n < m)
  BY <1>1 DEF OpToRel
<1> QED
  BY <1>2

LEMMA ByteFacts ==
    /\ NBytes \in Nat /\ NBytes >= 2 /\ Marker \in Bytes /\ Marker # 0 /\ 0 \in Bytes
    /\ ByteBits \in Nat /\ ByteBits >= 1
<1>1. ByteBits \in Nat /\ ByteBits >= 1 /\ Marker \in 1 .. NBytes - 1
  BY StreamsAssumption
<1>2. NBytes \in Nat
  BY <1>1, PowerAssumption DEF NBytes
<1> QED
  BY <1>1, <1>2 DEF Bytes

\* A copy of one value, n times; and one more before it.
LEMMA SingleIs ==
    ASSUME NEW S, NEW x \in S
    PROVE  <<x>> \in Seq(S) /\ Len(<<x>>) = 1 /\ <<x>>[1] = x
OBVIOUS

LEMMA RepeatIs ==
    ASSUME NEW S, NEW x \in S, NEW n \in Nat
    PROVE  /\ [i \in 1 .. n |-> x] \in Seq(S) /\ Len([i \in 1 .. n |-> x]) = n
           /\ n = 0 => [i \in 1 .. n |-> x] = <<>>
           /\ n # 0 => [i \in 1 .. n |-> x] = <<x>> \o [i \in 1 .. n - 1 |-> x]
<1> DEFINE r == [i \in 1 .. n |-> x]
           q == [i \in 1 .. n - 1 |-> x]
<1>1. r \in Seq(S) /\ Len(r) = n /\ \A i \in 1 .. n : r[i] = x
  OBVIOUS
<1>2. CASE n = 0
  <2>1. r = <<>>
    BY <1>1, <1>2, EmptySeq, SeqEqual
  <2> QED
    BY <1>1, <1>2, <2>1
<1>3. CASE n # 0
  <2>1. q \in Seq(S) /\ Len(q) = n - 1 /\ \A i \in 1 .. n - 1 : q[i] = x
    BY <1>3
  <2>2. <<x>> \in Seq(S) /\ Len(<<x>>) = 1 /\ <<x>>[1] = x
    BY SingleIs
  <2> HIDE DEF r, q
  <2>3. /\ <<x>> \o q \in Seq(S) /\ Len(<<x>> \o q) = n
        /\ \A i \in 1 .. n : (<<x>> \o q)[i] = IF i <= 1 THEN <<x>>[i] ELSE q[i - 1]
    BY <2>1, <2>2, ConcatProperties
  <2>4. \A i \in 1 .. n : (<<x>> \o q)[i] = x
    BY <2>1, <2>2, <2>3
  <2>5. r = <<x>> \o q
    BY <1>1, <2>3, <2>4, SeqEqual
  <2> QED
    BY <1>1, <1>3, <2>5 DEF r, q
<1> QED
  BY <1>2, <1>3
-----------------------------------------------------------------------------
(* decode_rle.                                                             *)
RleStep(f, data, i, prev) ==
    IF i > Len(data) THEN <<>>
    ELSE IF data[i] # Marker THEN <<data[i]>> \o f[i + 1][data[i]]
    ELSE IF i = Len(data) THEN <<>>
    ELSE IF data[i + 1] = 0 THEN <<Marker>> \o f[i + 2][prev]
    ELSE [n \in 1 .. data[i + 1] - 1 |-> prev] \o f[i + 2][prev]
RleRow(f, data, i) == [prev \in Bytes |-> RleStep(f, data, i, prev)]

\* RleFrom is the recursion its definition describes.
LEMMA RleRecursion ==
    ASSUME NEW data, Len(data) \in Nat
    PROVE  RleFrom(data) = [i \in 1 .. Len(data) + 1 |-> RleRow(RleFrom(data), data, i)]
<1> DEFINE last == Len(data) + 1
           Down(f, k) == f = [i \in last - k .. last |-> RleRow(f, data, i)]
           Bad == {k \in Nat : k <= Len(data) /\ ~\E f : Down(f, k)}
<1>1. Bad = {}
  <2> SUFFICES ASSUME Bad # {} PROVE FALSE
    OBVIOUS
  <2>1. PICK k \in Bad : \A m \in Bad : k <= m
    <3>1. Bad \subseteq Nat
      OBVIOUS
    <3> HIDE DEF Bad
    <3> QED
      BY <3>1, LeastOf
  <2>2. k \in Nat /\ k <= Len(data) /\ ~\E f : Down(f, k)
    BY <2>1
  <2> DEFINE at == last - k
  <2>3. /\ at \in Nat /\ at >= 1 /\ at <= last
        /\ \A i \in at .. last : i # at => i \in at + 1 .. last
    BY <2>2
  <2>4. \E g : \A i \in at + 1 .. last : g[i] = RleRow(g, data, i)
    <3>1. CASE k = 0
      <4>1. at + 1 .. last = {}
        BY <3>1
      <4> QED
        BY <4>1
    <3>2. CASE k # 0
      <4>1. k - 1 \in Nat /\ k - 1 <= Len(data) /\ ~(k <= k - 1) /\ last - (k - 1) = at + 1
        BY <2>2, <3>2
      <4>2. k - 1 \notin Bad
        <5> HIDE DEF Bad
        <5> QED
          BY <2>1, <4>1
      <4>3. PICK g : Down(g, k - 1)
        BY <4>1, <4>2
      <4>4. g = [i \in at + 1 .. last |-> RleRow(g, data, i)]
        BY <4>1, <4>3
      <4> HIDE DEF at, last
      <4> QED
        BY <4>4
    <3> QED
      BY <3>1, <3>2
  <2>5. PICK g : \A i \in at + 1 .. last : g[i] = RleRow(g, data, i)
    BY <2>4
  <2> DEFINE h == [i \in at .. last |-> IF i = at THEN RleRow(g, data, i) ELSE g[i]]
  <2>6. ASSUME NEW i \in at .. last
        PROVE  h[i] = RleRow(h, data, i)
    <3>1. h[i] = RleRow(g, data, i)
      <4> HIDE DEF at, last
      <4> QED
        BY <2>3, <2>5
    <3>2. /\ i <= Len(data) => i + 1 \in at .. last /\ i + 1 # at
          /\ i < Len(data) => i + 2 \in at .. last /\ i + 2 # at
          /\ i \in Nat
      BY <2>3
    <3>3. /\ i <= Len(data) => h[i + 1] = g[i + 1]
          /\ i < Len(data) => h[i + 2] = g[i + 2]
      <4> HIDE DEF at, last
      <4> QED
        BY <3>2
    <3> HIDE DEF h
    <3>4. ASSUME NEW p \in Bytes PROVE RleStep(g, data, i, p) = RleStep(h, data, i, p)
      BY <3>2, <3>3 DEF RleStep
    <3> QED
      BY <3>1, <3>4 DEF RleRow
  <2>7. h = [i \in at .. last |-> RleRow(h, data, i)]
    BY <2>6
  <2> QED
    BY <2>2, <2>7
<1>2. PICK f : f = [i \in 1 .. last |-> RleRow(f, data, i)]
  <2>1. Len(data) \notin Bad /\ last - Len(data) = 1
    BY <1>1
  <2> QED
    BY <2>1
<1>3. RleFrom(data) = CHOOSE g : g = [i \in 1 .. last |-> RleRow(g, data, i)]
  BY DEF RleFrom, RleRow, RleStep
<1> QED
  BY <1>2, <1>3

LEMMA RleTyped ==
    ASSUME NEW data \in Seq(Bytes)
    PROVE  \A i \in 1 .. Len(data) + 1 : \A p \in Bytes : RleFrom(data)[i][p] \in Seq(Bytes)
<1> DEFINE f == RleFrom(data)
           last == Len(data) + 1
           Bad == {k \in Nat : k <= Len(data) /\ \E p \in Bytes : f[last - k][p] \notin Seq(Bytes)}
<1>0. Len(data) \in Nat
  OBVIOUS
<1>1. Bad = {}
  <2> SUFFICES ASSUME Bad # {} PROVE FALSE
    OBVIOUS
  <2>1. PICK k \in Bad : \A m \in Bad : k <= m
    <3>1. Bad \subseteq Nat
      OBVIOUS
    <3> HIDE DEF Bad
    <3> QED
      BY <3>1, LeastOf
  <2>2. k \in Nat /\ k <= Len(data) /\ \E p \in Bytes : f[last - k][p] \notin Seq(Bytes)
    BY <2>1
  <2>3. PICK p \in Bytes : f[last - k][p] \notin Seq(Bytes)
    BY <2>2
  <2> DEFINE at == last - k
  <2>4. at \in 1 .. last
    BY <2>2
  <2>5. ASSUME NEW j \in at + 1 .. last, NEW q \in Bytes PROVE f[j][q] \in Seq(Bytes)
    <3> DEFINE m == last - j
    <3>1. m \in Nat /\ m <= Len(data) /\ ~(k <= m) /\ last - m = j
      BY <2>2
    <3>2. m \notin Bad
      <4> HIDE DEF Bad, m
      <4> QED
        BY <2>1, <3>1
    <3>3. f[last - m][q] \in Seq(Bytes)
      <4> HIDE DEF m, f, last
      <4> QED
        BY <3>1, <3>2
    <3> HIDE DEF m, f, last
    <3> QED
      BY <3>1, <3>3
  <2>6. f[at][p] = RleStep(f, data, at, p)
    <3> HIDE DEF at
    <3>1. f = [i \in 1 .. last |-> RleRow(f, data, i)]
      BY RleRecursion, <1>0
    <3> HIDE DEF f, last
    <3>2. f[at] = RleRow(f, data, at)
      BY <2>4, <3>1
    <3> QED
      BY <3>2 DEF RleRow
  <2>7. RleStep(f, data, at, p) \in Seq(Bytes)
    <3> HIDE DEF f
    <3>1. /\ at <= Len(data) => at + 1 \in at + 1 .. last
          /\ at < Len(data) => at + 2 \in at + 1 .. last
          /\ at \in Nat /\ at >= 1
      BY <2>4
    <3>2. at <= Len(data) => data[at] \in Bytes
      BY <3>1
    <3>3. at < Len(data) => data[at + 1] \in Bytes
      BY <3>1
    <3> HIDE DEF at, last
    <3>4. CASE at > Len(data)
      BY <3>4, EmptySeq DEF RleStep
    <3>5. CASE ~(at > Len(data)) /\ data[at] # Marker
      <4>1. data[at] \in Bytes /\ f[at + 1][data[at]] \in Seq(Bytes)
        BY <2>5, <3>1, <3>2, <3>5
      <4>2. <<data[at]>> \in Seq(Bytes)
        BY <4>1
      <4>3. <<data[at]>> \o f[at + 1][data[at]] \in Seq(Bytes)
        BY <4>1, <4>2, ConcatProperties
      <4> QED
        BY <3>5, <4>3 DEF RleStep
    <3>6. CASE ~(at > Len(data)) /\ data[at] = Marker /\ at = Len(data)
      BY <3>6, EmptySeq DEF RleStep
    <3>7. CASE ~(at > Len(data)) /\ data[at] = Marker /\ at # Len(data)
      <4>1. data[at + 1] \in Bytes /\ f[at + 2][p] \in Seq(Bytes)
        BY <1>0, <2>5, <3>1, <3>3, <3>7
      <4>2. <<Marker>> \in Seq(Bytes)
        BY ByteFacts
      <4>3. data[at + 1] # 0 => [n \in 1 .. data[at + 1] - 1 |-> p] \in Seq(Bytes)
        <5> DEFINE d == data[at + 1]
        <5>1. d # 0 => d - 1 \in Nat
          BY <4>1, ByteFacts DEF Bytes
        <5> HIDE DEF d
        <5>2. d # 0 => [n \in 1 .. d - 1 |-> p] \in Seq(Bytes)
          BY <5>1, RepeatIs
        <5> QED
          BY <5>2 DEF d
      <4>4. <<Marker>> \o f[at + 2][p] \in Seq(Bytes)
        BY <4>1, <4>2, ConcatProperties
      <4>5. data[at + 1] # 0 => [n \in 1 .. data[at + 1] - 1 |-> p] \o f[at + 2][p] \in Seq(Bytes)
        BY <4>1, <4>3, ConcatProperties
      <4> QED
        BY <3>7, <4>4, <4>5 DEF RleStep
    <3> QED
      BY <3>4, <3>5, <3>6, <3>7
  <2> HIDE DEF f, at
  <2> QED
    BY <2>3, <2>6, <2>7 DEF at
<1> HIDE DEF f, last
<1> SUFFICES ASSUME NEW i \in 1 .. Len(data) + 1, NEW p \in Bytes PROVE f[i][p] \in Seq(Bytes)
  BY DEF f
<1>2. last - i \in Nat /\ last - i <= Len(data) /\ last - (last - i) = i
  BY <1>0 DEF last
<1>3. last - i \notin Bad
  <2> HIDE DEF Bad
  <2> QED
    BY <1>1
<1> QED
  BY <1>2, <1>3
-----------------------------------------------------------------------------
(* Quotients, for a divisor that is a constant of the model.               *)
LEMMA Times ==
    ASSUME NEW b \in Nat, NEW q \in Nat, NEW l \in Nat
    PROVE  /\ b * q \in Nat /\ q <= l => b * q <= b * l
           /\ b * (q + 1) = (b * q) + b
BY SMT

LEMMA Divided ==
    ASSUME NEW b \in Nat, b >= 1, NEW i \in Nat
    PROVE  /\ i \div b \in Nat /\ i % b \in Nat /\ i % b < b
           /\ i = (b * (i \div b)) + (i % b)
BY SMT

LEMMA OnlyQuotient ==
    ASSUME NEW b \in Nat, b >= 1, NEW q \in Nat, NEW r \in Nat, r < b,
           NEW q2 \in Nat, NEW r2 \in Nat, r2 < b,
           (b * q) + r = (b * q2) + r2
    PROVE  q = q2 /\ r = r2
<1>1. /\ b * (q + 1) = (b * q) + b /\ b * q \in Nat
      /\ b * (q2 + 1) = (b * q2) + b /\ b * q2 \in Nat
  BY Times
<1>2. CASE q < q2
  <2>1. b * (q + 1) <= b * q2
    BY <1>2, Times
  <2> QED
    BY <1>1, <2>1
<1>3. CASE q2 < q
  <2>1. b * (q2 + 1) <= b * q
    BY <1>3, Times
  <2> QED
    BY <1>1, <2>1
<1> QED
  BY <1>1, <1>2, <1>3

LEMMA Divides ==
    ASSUME NEW b \in Nat, b >= 1, NEW q \in Nat, NEW r \in Nat, r < b
    PROVE  ((b * q) + r) \div b = q /\ ((b * q) + r) % b = r
<1> DEFINE i == (b * q) + r
           q2 == i \div b
           r2 == i % b
<1>1. i \in Nat
  BY Times
<1>2. /\ q2 \in Nat /\ r2 \in Nat /\ r2 < b
      /\ (b * q2) + r2 = (b * q) + r
  <2> HIDE DEF i
  <2>1. /\ i \div b \in Nat /\ i % b \in Nat /\ i % b < b
        /\ i = (b * (i \div b)) + (i % b)
    BY <1>1, Divided
  <2> QED
    BY <2>1 DEF i
<1> HIDE DEF q2, r2
<1>3. q2 = q /\ r2 = r
  BY <1>2, OnlyQuotient
<1> QED
  BY <1>3 DEF q2, r2
-----------------------------------------------------------------------------
(* HuffmanTree.decode_symbol.                                              *)
Child(n, i) == tree[n + 1][BitAt(i)]
SymbolsStep(f, i, n) ==
    IF n = Len(tree) \/ i = AllBits THEN <<>>
    ELSE IF Child(n, i) >= 0
         THEN f[i + 1][IF Child(n, i) < Len(tree) THEN Child(n, i) ELSE Len(tree)]
    ELSE IF -(Child(n, i) + 1) >= EndCode THEN <<>>
    ELSE <<-(Child(n, i) + 1)>> \o f[i + 1][0]
SymbolsRow(f, i) == [n \in 0 .. Len(tree) |-> SymbolsStep(f, i, n)]

LEMMA BitOfByte ==
    ASSUME NEW byte \in Bytes, NEW k \in 0 .. ByteBits
    PROVE  BitOf(byte, k) \in {0, 1}
<1> DEFINE p == 2 ^ k
<1>1. p \in Nat /\ p >= 1
  <2>1. 2 ^ k \in Nat \ {0}
    BY PowerAssumption
  <2> HIDE DEF p
  <2>2. p \in Nat \ {0}
    BY <2>1 DEF p
  <2> QED
    BY <2>2
<1>2. byte \in Nat
  BY ByteFacts DEF Bytes
<1> HIDE DEF p
<1>3. byte \div p \in Nat
  BY <1>1, <1>2, Divided
<1>4. (byte \div p) % 2 \in {0, 1}
  BY <1>3
<1> QED
  BY <1>4 DEF BitOf, p

\* A bit's byte is in the data, and a bit leads to a child.
LEMMA ChildTyped ==
    ASSUME Given, NEW i \in 0 .. AllBits, i # AllBits, NEW n \in 0 .. Len(tree), n # Len(tree)
    PROVE  /\ i + 1 \in 0 .. AllBits /\ Child(n, i) \in Int
           /\ Child(n, i) >= 0 /\ Child(n, i) < Len(tree) => Child(n, i) \in 0 .. Len(tree)
           /\ Child(n, i) < 0 /\ ~(-(Child(n, i) + 1) >= EndCode) => -(Child(n, i) + 1) \in Bytes
<1> DEFINE q == i \div ByteBits
           r == i % ByteBits
<1>1. Len(stream) \in Nat /\ Len(tree) \in Nat
  BY DEF Given
<1>2. AllBits \in Nat /\ i \in Nat /\ i + 1 \in 0 .. AllBits
  <2>1. AllBits \in Nat
    BY <1>1, ByteFacts, Times DEF AllBits
  <2> QED
    BY <2>1
<1>3. q \in Nat /\ r \in Nat /\ r < ByteBits /\ i = (ByteBits * q) + r
  BY <1>2, ByteFacts, Divided
<1> HIDE DEF q, r
<1>4. q < Len(stream)
  <2> SUFFICES ASSUME Len(stream) <= q PROVE FALSE
    BY <1>1, <1>3
  <2>1. ByteBits * Len(stream) <= ByteBits * q /\ ByteBits * q \in Nat
    BY <1>1, <1>3, ByteFacts, Times
  <2> QED
    BY <1>2, <1>3, <2>1 DEF AllBits
<1>5. stream[q + 1] \in Bytes
  BY <1>1, <1>3, <1>4 DEF Given
<1>6. BitAt(i) \in {0, 1}
  <2>1. r \in 0 .. ByteBits
    BY <1>3, ByteFacts
  <2>2. BitOf(stream[q + 1], r) \in {0, 1}
    BY <1>5, <2>1, BitOfByte
  <2> QED
    BY <2>2 DEF BitAt, q, r
<1>7. tree[n + 1] \in [{0, 1} -> Int]
  BY <1>1 DEF Given
<1>8. Child(n, i) \in Int
  BY <1>6, <1>7 DEF Child
<1> QED
  BY <1>1, <1>2, <1>8, ByteFacts DEF Bytes, EndCode

LEMMA SymbolsRecursion ==
    ASSUME Given
    PROVE  SymbolsFrom = [i \in 0 .. AllBits |-> SymbolsRow(SymbolsFrom, i)]
<1> DEFINE Down(f, k) == f = [i \in AllBits - k .. AllBits |-> SymbolsRow(f, i)]
           Bad == {k \in Nat : k <= AllBits /\ ~\E f : Down(f, k)}
<1>0. AllBits \in Nat
  BY ByteFacts, Times DEF AllBits, Given
<1>1. Bad = {}
  <2> SUFFICES ASSUME Bad # {} PROVE FALSE
    OBVIOUS
  <2>1. PICK k \in Bad : \A m \in Bad : k <= m
    <3>1. Bad \subseteq Nat
      OBVIOUS
    <3> HIDE DEF Bad
    <3> QED
      BY <3>1, LeastOf
  <2>2. k \in Nat /\ k <= AllBits /\ ~\E f : Down(f, k)
    BY <2>1
  <2> DEFINE at == AllBits - k
  <2>3. /\ at \in Nat /\ at <= AllBits
        /\ \A i \in at .. AllBits : i # at => i \in at + 1 .. AllBits
    BY <1>0, <2>2
  <2>4. \E g : \A i \in at + 1 .. AllBits : g[i] = SymbolsRow(g, i)
    <3>1. CASE k = 0
      <4>1. at + 1 .. AllBits = {}
        BY <1>0, <3>1
      <4> QED
        BY <4>1
    <3>2. CASE k # 0
      <4>1. k - 1 \in Nat /\ k - 1 <= AllBits /\ ~(k <= k - 1) /\ AllBits - (k - 1) = at + 1
        BY <1>0, <2>2, <3>2
      <4>2. k - 1 \notin Bad
        <5> HIDE DEF Bad
        <5> QED
          BY <2>1, <4>1
      <4>3. PICK g : Down(g, k - 1)
        BY <4>1, <4>2
      <4>4. g = [i \in at + 1 .. AllBits |-> SymbolsRow(g, i)]
        BY <4>1, <4>3
      <4> HIDE DEF at
      <4> QED
        BY <4>4
    <3> QED
      BY <3>1, <3>2
  <2>5. PICK g : \A i \in at + 1 .. AllBits : g[i] = SymbolsRow(g, i)
    BY <2>4
  <2> DEFINE h == [i \in at .. AllBits |-> IF i = at THEN SymbolsRow(g, i) ELSE g[i]]
  <2>6. ASSUME NEW i \in at .. AllBits
        PROVE  h[i] = SymbolsRow(h, i)
    <3>1. h[i] = SymbolsRow(g, i)
      <4> HIDE DEF at
      <4> QED
        BY <2>3, <2>5
    <3>2. i # AllBits => i + 1 \in at .. AllBits /\ i + 1 # at
      BY <1>0, <2>3
    <3>3. i # AllBits => h[i + 1] = g[i + 1]
      <4> HIDE DEF at
      <4> QED
        BY <3>2
    <3> HIDE DEF h
    <3>4. ASSUME NEW n \in 0 .. Len(tree) PROVE SymbolsStep(g, i, n) = SymbolsStep(h, i, n)
      BY <3>3 DEF SymbolsStep
    <3> QED
      BY <3>1, <3>4 DEF SymbolsRow
  <2>7. h = [i \in at .. AllBits |-> SymbolsRow(h, i)]
    BY <2>6
  <2> QED
    BY <2>2, <2>7
<1>2. PICK f : f = [i \in 0 .. AllBits |-> SymbolsRow(f, i)]
  <2>1. AllBits \notin Bad /\ AllBits - AllBits = 0
    BY <1>0, <1>1
  <2> QED
    BY <1>0, <2>1
<1>3. SymbolsFrom = CHOOSE g : g = [i \in 0 .. AllBits |-> SymbolsRow(g, i)]
  BY DEF SymbolsFrom, SymbolsRow, SymbolsStep, Child
<1> QED
  BY <1>2, <1>3

LEMMA SymbolsTyped ==
    ASSUME Given
    PROVE  \A i \in 0 .. AllBits : \A n \in 0 .. Len(tree) :
             /\ SymbolsFrom[i][n] \in Seq(Bytes)
             /\ SymbolsFrom[i][n] = SymbolsStep(SymbolsFrom, i, n)
<1> DEFINE f == SymbolsFrom
           Bad == {k \in Nat : k <= AllBits /\ \E n \in 0 .. Len(tree) : f[AllBits - k][n] \notin Seq(Bytes)}
<1>0. AllBits \in Nat /\ Len(tree) \in Nat
  BY ByteFacts, Times DEF AllBits, Given
<1>1. ASSUME NEW i \in 0 .. AllBits, NEW n \in 0 .. Len(tree)
      PROVE  f[i][n] = SymbolsStep(f, i, n)
  <2>1. f = [k \in 0 .. AllBits |-> SymbolsRow(f, k)]
    BY SymbolsRecursion
  <2> HIDE DEF f
  <2>2. f[i] = SymbolsRow(f, i)
    BY <2>1
  <2> QED
    BY <2>2 DEF SymbolsRow
<1>2. Bad = {}
  <2> SUFFICES ASSUME Bad # {} PROVE FALSE
    OBVIOUS
  <2>1. PICK k \in Bad : \A m \in Bad : k <= m
    <3>1. Bad \subseteq Nat
      OBVIOUS
    <3> HIDE DEF Bad
    <3> QED
      BY <3>1, LeastOf
  <2>2. k \in Nat /\ k <= AllBits /\ \E n \in 0 .. Len(tree) : f[AllBits - k][n] \notin Seq(Bytes)
    BY <2>1
  <2>3. PICK n \in 0 .. Len(tree) : f[AllBits - k][n] \notin Seq(Bytes)
    BY <2>2
  <2> DEFINE at == AllBits - k
  <2>4. at \in 0 .. AllBits
    BY <1>0, <2>2
  <2>5. ASSUME at # AllBits, NEW q \in 0 .. Len(tree) PROVE f[at + 1][q] \in Seq(Bytes)
    <3> DEFINE m == k - 1
    <3>1. m \in Nat /\ m <= AllBits /\ ~(k <= m) /\ AllBits - m = at + 1
      BY <1>0, <2>2, <2>5
    <3>2. m \notin Bad
      <4> HIDE DEF Bad, m
      <4> QED
        BY <2>1, <3>1
    <3>3. f[AllBits - m][q] \in Seq(Bytes)
      <4> HIDE DEF m, f
      <4> QED
        BY <3>1, <3>2
    <3> HIDE DEF m, f
    <3> QED
      BY <3>1, <3>3
  <2>6. SymbolsStep(f, at, n) \in Seq(Bytes)
    <3> HIDE DEF f, at
    <3>1. CASE n = Len(tree) \/ at = AllBits
      BY <3>1, EmptySeq DEF SymbolsStep
    <3>2. CASE ~(n = Len(tree) \/ at = AllBits)
      <4> DEFINE ch == Child(n, at)
      <4>1. /\ ch \in Int /\ (ch >= 0 /\ ch < Len(tree) => ch \in 0 .. Len(tree))
            /\ ch < 0 /\ ~(-(ch + 1) >= EndCode) => -(ch + 1) \in Bytes
        BY <2>4, <3>2, ChildTyped
      <4>2. 0 \in 0 .. Len(tree) /\ Len(tree) \in 0 .. Len(tree)
        BY <1>0
      <4> HIDE DEF ch
      <4>3. CASE ch >= 0
        <5>1. f[at + 1][IF ch < Len(tree) THEN ch ELSE Len(tree)] \in Seq(Bytes)
          BY <2>5, <3>2, <4>1, <4>2, <4>3
        <5> QED
          BY <3>2, <4>3, <5>1 DEF SymbolsStep, ch
      <4>4. CASE ~(ch >= 0) /\ -(ch + 1) >= EndCode
        BY <3>2, <4>4, EmptySeq DEF SymbolsStep, ch
      <4>5. CASE ~(ch >= 0) /\ ~(-(ch + 1) >= EndCode)
        <5>1. -(ch + 1) \in Bytes
          BY <4>1, <4>5
        <5>2. <<-(ch + 1)>> \in Seq(Bytes)
          BY <5>1
        <5>3. <<-(ch + 1)>> \o f[at + 1][0] \in Seq(Bytes)
          BY <2>5, <3>2, <4>2, <5>2, ConcatProperties
        <5> QED
          BY <3>2, <4>5, <5>3 DEF SymbolsStep, ch
      <4> QED
        BY <4>3, <4>4, <4>5
    <3> QED
      BY <3>1, <3>2
  <2> HIDE DEF f, at
  <2>7. f[at][n] = SymbolsStep(f, at, n)
    BY <1>1, <2>4
  <2> QED
    BY <2>3, <2>6, <2>7 DEF at
<1> HIDE DEF f
<1> SUFFICES ASSUME NEW i \in 0 .. AllBits, NEW n \in 0 .. Len(tree) PROVE f[i][n] \in Seq(Bytes)
  BY <1>1 DEF f
<1>3. AllBits - i \in Nat /\ AllBits - i <= AllBits /\ AllBits - (AllBits - i) = i
  BY <1>0
<1>4. AllBits - i \notin Bad
  <2> HIDE DEF Bad
  <2> QED
    BY <1>2
<1> QED
  BY <1>3, <1>4
-----------------------------------------------------------------------------
(* The buffered output.                                                    *)
LEMMA Sizes == /\ RecSize \in Nat /\ RecSize >= 1 /\ BufRecs \in Nat /\ BufRecs >= 1
               /\ OutSize \in Nat /\ OutSize >= 1 /\ OutSize % RecSize = 0
<1>1. RecSize \in Nat /\ RecSize >= 1 /\ BufRecs \in Nat /\ BufRecs >= 1
  BY BufferAssumption
<1>2. OutSize \in Nat /\ OutSize >= 1
  <2>1. RecSize * 1 <= RecSize * BufRecs /\ RecSize * BufRecs \in Nat /\ RecSize * 1 = RecSize
    BY <1>1, Times
  <2> QED
    BY <1>1, <2>1 DEF OutSize
<1>3. ((RecSize * BufRecs) + 0) % RecSize = 0
  BY <1>1, Divides
<1>4. (RecSize * BufRecs) + 0 = OutSize
  BY <1>2 DEF OutSize
<1> QED
  BY <1>1, <1>2, <1>3, <1>4

\* Whole records in front of a text do not change where its last record ends.
LEMMA WholeRecords ==
    ASSUME NEW m \in Nat, m % RecSize = 0, NEW n \in Nat
    PROVE  (m + n) % RecSize = n % RecSize
<1> DEFINE q == m \div RecSize
           k == n \div RecSize
           r == n % RecSize
<1>1. q \in Nat /\ m = RecSize * q
  BY Sizes, Divided
<1>2. k \in Nat /\ r \in Nat /\ r < RecSize /\ n = (RecSize * k) + r
  BY Sizes, Divided
<1> HIDE DEF q, k, r
<1>3. RecSize * (q + k) = (RecSize * q) + (RecSize * k) /\ q + k \in Nat
      /\ RecSize * q \in Nat /\ RecSize * k \in Nat
  BY <1>1, <1>2, Sizes, SMT
<1>4. ((RecSize * (q + k)) + r) % RecSize = r
  BY <1>2, <1>3, Sizes, Divides
<1>5. (RecSize * (q + k)) + r = m + n
  BY <1>1, <1>2, <1>3
<1> QED
  BY <1>4, <1>5 DEF r

Fill(l) == (RecSize - (l % RecSize)) % RecSize

LEMMA FillIs ==
    ASSUME NEW l \in Nat
    PROVE  /\ Fill(l) \in Nat /\ (l + Fill(l)) % RecSize = 0
           /\ l % RecSize = 0 => Fill(l) = 0
<1> DEFINE q == l \div RecSize
           r == l % RecSize
<1>1. q \in Nat /\ r \in Nat /\ r < RecSize /\ l = (RecSize * q) + r
  BY Sizes, Divided
<1>2. Fill(l) = (RecSize - r) % RecSize
  BY DEF Fill
<1> HIDE DEF q, r
<1>3. CASE r = 0
  <2>1. RecSize * 1 = RecSize /\ (RecSize * 1) + 0 = RecSize
    BY Sizes
  <2>2. ((RecSize * 1) + 0) % RecSize = 0
    BY Sizes, Divides
  <2>3. Fill(l) = 0
    BY <1>2, <1>3, <2>1, <2>2, Sizes
  <2>4. ((RecSize * q) + 0) % RecSize = 0
    BY <1>1, Sizes, Divides
  <2> QED
    BY <1>1, <1>3, <2>3, <2>4 DEF r
<1>4. CASE r # 0
  <2>1. RecSize - r \in Nat /\ RecSize - r < RecSize
    BY <1>1, <1>4, Sizes
  <2>2. (RecSize * 0) + (RecSize - r) = RecSize - r
    BY <2>1, Sizes
  <2>3. ((RecSize * 0) + (RecSize - r)) % RecSize = RecSize - r
    BY <2>1, Sizes, Divides
  <2>4. Fill(l) = RecSize - r
    BY <1>2, <2>2, <2>3
  <2>5. RecSize * (q + 1) = (RecSize * q) + RecSize /\ RecSize * q \in Nat
    BY <1>1, Sizes, Times
  <2>6. l + Fill(l) = (RecSize * (q + 1)) + 0
    BY <1>1, <2>4, <2>5, Sizes
  <2>7. ((RecSize * (q + 1)) + 0) % RecSize = 0
    BY <1>1, Sizes, Divides
  <2> QED
    BY <1>4, <2>1, <2>4, <2>6, <2>7 DEF r
<1> QED
  BY <1>3, <1>4

Pads(l) == [i \in 1 .. Fill(l) |-> Pad]

LEMMA PaddedIs ==
    ASSUME NEW s \in Seq(Vals)
    PROVE  /\ Pads(Len(s)) \in Seq(Vals) /\ Padded(s) = s \o Pads(Len(s))
           /\ Padded(s) \in Seq(Vals) /\ Len(Padded(s)) % RecSize = 0
           /\ Len(s) % RecSize = 0 => Padded(s) = s
<1>1. Len(s) \in Nat /\ Pad \in Vals
  BY DEF Vals
<1>2. Fill(Len(s)) \in Nat /\ (Len(s) + Fill(Len(s))) % RecSize = 0
      /\ (Len(s) % RecSize = 0 => Fill(Len(s)) = 0)
  BY <1>1, FillIs
<1> DEFINE n == Fill(Len(s))
           p == [i \in 1 .. n |-> Pad]
<1>3. Padded(s) = s \o p
  BY DEF Padded, Fill
<1>4. n \in Nat
  BY <1>2
<1> HIDE DEF n
<1>5. p \in Seq(Vals) /\ Len(p) = n /\ (n = 0 => p = <<>>)
  BY <1>1, <1>4, RepeatIs
<1> HIDE DEF p
<1>6. s \o p \in Seq(Vals) /\ Len(s \o p) = Len(s) + n
  BY <1>5, ConcatProperties
<1>7. s \o <<>> = s
  BY ConcatEmptySeq
<1> QED
  BY <1>2, <1>3, <1>5, <1>6, <1>7 DEF n, p, Pads

LEMMA Regroup ==
    ASSUME NEW s \in Seq(Vals), NEW t \in Seq(Vals), NEW u \in Seq(Vals)
    PROVE  (s \o t) \o u = s \o (t \o u)
BY ConcatAssociative

LEMMA Together ==
    ASSUME NEW s \in Seq(Vals), NEW t \in Seq(Vals)
    PROVE  s \o t \in Seq(Vals) /\ Len(s \o t) = Len(s) + Len(t) /\ Len(s) \in Nat
BY ConcatProperties

\* A text is begun by any text it is written after.
LEMMA Begins ==
    ASSUME NEW S, NEW s \in Seq(S), NEW t \in Seq(S)
    PROVE  IsPrefix(s, s \o t)
<1>1. /\ s \o t \in Seq(S) /\ Len(s \o t) = Len(s) + Len(t)
      /\ \A i \in 1 .. Len(s) : (s \o t)[i] = s[i] /\ s[i] \in S
  BY ConcatProperties
<1> DEFINE p == SubSeq(s \o t, 1, Len(s))
<1>2. p \in Seq(S) /\ Len(p) = Len(s) /\ \A i \in 1 .. Len(s) : p[i] = s[i]
  <2> DEFINE w == s \o t
             n == Len(s)
  <2>1. n \in Int /\ n >= 0 /\ 1 \in Int /\ \A i \in 1 .. n : w[i] \in S
    BY <1>1
  <2> HIDE DEF w, n
  <2>2. /\ SubSeq(w, 1, n) \in Seq(S) /\ Len(SubSeq(w, 1, n)) = IF 1 <= n THEN n - 1 + 1 ELSE 0
        /\ \A i \in 1 .. n - 1 + 1 : SubSeq(w, 1, n)[i] = w[1 + i - 1]
    BY <2>1, SubSeqProperties
  <2>3. Len(SubSeq(w, 1, n)) = n /\ \A i \in 1 .. n : SubSeq(w, 1, n)[i] = w[i]
    BY <2>1, <2>2
  <2> QED
    BY <1>1, <2>2, <2>3 DEF w, n
<1> HIDE DEF p
<1>3. p = s
  BY <1>2, SeqEqual
<1>4. SubSeq(s, 1, Len(s)) = s
  BY SubSeqFull
<1> QED
  BY <1>1, <1>3, <1>4 DEF IsPrefix, p

LEMMA FilledRecords ==
    ASSUME NEW f \in Seq(Vals), Len(f) % RecSize = 0, NEW s \in Seq(Vals)
    PROVE  f \o Padded(s) = Padded(f \o s) /\ Len(f \o Padded(s)) % RecSize = 0
<1>1. Len(f) \in Nat /\ Len(s) \in Nat /\ f \o s \in Seq(Vals) /\ Len(f \o s) = Len(f) + Len(s)
  BY Together
<1>2. (Len(f) + Len(s)) % RecSize = Len(s) % RecSize
  BY <1>1, WholeRecords
<1>3. Pads(Len(f \o s)) = Pads(Len(s))
  BY <1>1, <1>2 DEF Pads, Fill
<1>4. /\ Padded(s) = s \o Pads(Len(s)) /\ Pads(Len(s)) \in Seq(Vals)
      /\ Padded(f \o s) = (f \o s) \o Pads(Len(f \o s)) /\ Len(Padded(f \o s)) % RecSize = 0
  BY <1>1, PaddedIs
<1>5. (f \o s) \o Pads(Len(s)) = f \o (s \o Pads(Len(s)))
  BY <1>4, Regroup
<1> QED
  BY <1>3, <1>4, <1>5

\* What a flush leaves, of a text of which s is in the buffer.
Flushed(s, text) == /\ OutputOK'
                    /\ \/ ok' /\ file' = file \o Padded(s) /\ outbuf' = <<>>
                       \/ ~ok' /\ IsPrefix(file', Padded(text))

LEMMA FlushKeeps ==
    ASSUME NEW s \in Seq(Vals), Len(s) <= OutSize, file \in Seq(Vals), Len(file) % RecSize = 0,
           NEW rest \in Seq(Vals), Flushing(s)
    PROVE  Flushed(s, (file \o s) \o rest)
<1>1. Padded(s) \in Seq(Vals) /\ Len(s) \in Nat
  BY PaddedIs
<1>2. CASE file' = file \o Padded(s) /\ outbuf' = <<>> /\ ok' = TRUE
  <2>1. file \o Padded(s) \in Seq(Vals)
    BY <1>1, Together
  <2>2. Len(file \o Padded(s)) % RecSize = 0
    BY FilledRecords
  <2>3. <<>> \in Seq(Vals) /\ Len(<<>>) = 0
    BY EmptySeq
  <2> QED
    BY <1>2, <2>1, <2>2, <2>3, Sizes DEF Flushed, OutputOK
<1>3. ASSUME NEW n \in 0 .. BufRecs - 1, RecSize * n < Len(s),
             file' = file \o SubSeq(s, 1, RecSize * n), outbuf' = s, ok' = FALSE
      PROVE  Flushed(s, (file \o s) \o rest)
  <2> DEFINE m == RecSize * n
             a == SubSeq(s, 1, m)
             b == SubSeq(s, m + 1, Len(s))
             text == (file \o s) \o rest
  <2>1. m \in Nat /\ m < Len(s) /\ n \in Nat
    BY <1>3, Sizes, Times
  <2>2. m % RecSize = 0
    <3> DEFINE r == RecSize
               z == 0
    <3>1. r \in Nat /\ r >= 1 /\ z \in Nat /\ z < r
      BY Sizes
    <3> HIDE DEF r, z
    <3>2. ((r * n) + z) % r = z
      BY <2>1, <3>1, Divides
    <3> QED
      BY <2>1, <3>2 DEF r, z
  <2>3. file' = file \o a /\ outbuf' = s /\ ok' = FALSE
    BY <1>3
  <2> HIDE DEF m
  <2>4. a \in Seq(Vals) /\ Len(a) = m
    <3>1. \A i \in 1 .. m : s[i] \in Vals
      BY <2>1
    <3>2. SubSeq(s, 1, m) \in Seq(Vals) /\ Len(SubSeq(s, 1, m)) = IF 1 <= m THEN m - 1 + 1 ELSE 0
      BY <2>1, <3>1, SubSeqProperties
    <3> QED
      BY <2>1, <3>2
  <2>5. b \in Seq(Vals)
    <3>1. \A i \in m + 1 .. Len(s) : s[i] \in Vals
      BY <2>1
    <3> QED
      BY <1>1, <2>1, <3>1, SubSeqProperties
  <2>6. s = a \o b
    <3>1. 1 \in 1 .. Len(s) + 1 /\ m \in 1 - 1 .. Len(s) /\ Len(s) \in m .. Len(s)
      BY <1>1, <2>1
    <3>2. SubSeq(s, 1, m) \o SubSeq(s, m + 1, Len(s)) = SubSeq(s, 1, Len(s))
      BY <3>1, ConcatAdjacentSubSeq
    <3> QED
      BY <3>2, SubSeqFull
  <2> HIDE DEF a, b
  <2>7. file \o a \in Seq(Vals) /\ Len(file \o a) = Len(file) + m /\ Len(file) \in Nat
    BY <2>4, Together
  <2>8. Len(file \o a) % RecSize = 0
    BY <2>1, <2>2, <2>7, WholeRecords
  <2>9. text = (file \o a) \o (b \o rest) /\ b \o rest \in Seq(Vals) /\ text \in Seq(Vals)
    <3>1. (file \o a) \o b = file \o (a \o b)
      BY <2>4, <2>5, Regroup, Zenon
    <3>2. ((file \o a) \o b) \o rest = (file \o a) \o (b \o rest)
      <4> DEFINE fa == file \o a
      <4>1. fa \in Seq(Vals)
        BY <2>7
      <4> HIDE DEF fa
      <4>2. (fa \o b) \o rest = fa \o (b \o rest)
        BY <2>5, <4>1, Regroup, Zenon
      <4> QED
        BY <4>2 DEF fa
    <3>3. b \o rest \in Seq(Vals)
      BY <2>5, Together
    <3>4. (file \o a) \o (b \o rest) \in Seq(Vals)
      BY <2>7, <3>3, Together
    <3> QED
      BY <2>6, <3>1, <3>2, <3>3, <3>4
  <2> HIDE DEF text
  <2> DEFINE p == Pads(Len(text))
  <2>10. Padded(text) = text \o p /\ p \in Seq(Vals)
    BY <2>9, PaddedIs
  <2> HIDE DEF p
  <2>11. Padded(text) = (file \o a) \o ((b \o rest) \o p) /\ (b \o rest) \o p \in Seq(Vals)
    <3>1. ((file \o a) \o (b \o rest)) \o p = (file \o a) \o ((b \o rest) \o p)
      <4> DEFINE fa == file \o a
                 br == b \o rest
      <4>1. fa \in Seq(Vals) /\ br \in Seq(Vals)
        BY <2>7, <2>9
      <4> HIDE DEF fa, br
      <4>2. (fa \o br) \o p = fa \o (br \o p)
        BY <2>10, <4>1, Regroup, Zenon
      <4> QED
        BY <4>2 DEF fa, br
    <3>2. (b \o rest) \o p \in Seq(Vals)
      BY <2>9, <2>10, Together
    <3> QED
      BY <2>9, <2>10, <3>1, <3>2
  <2>12. IsPrefix(file', Padded(text))
    BY <2>3, <2>7, <2>11, Begins
  <2> QED
    BY <2>3, <2>7, <2>8, <2>12 DEF Flushed, OutputOK, text
<1> QED
  BY <1>2, <1>3 DEF Flushing
\* A byte taken from what is to come, and put behind what is in the buffer.
Moved(f, s, b, rest) ==
    /\ Append(s, b) \in Seq(Vals) /\ Len(Append(s, b)) = Len(s) + 1
    /\ (f \o s) \o (<<b>> \o rest) = (f \o Append(s, b)) \o rest

LEMMA OneMore ==
    ASSUME NEW s \in Seq(Vals), NEW b \in Vals, NEW rest \in Seq(Vals), NEW f \in Seq(Vals)
    PROVE  Moved(f, s, b, rest)
<1> DEFINE o == <<b>>
           fs == f \o s
<1>1. o \in Seq(Vals) /\ Append(s, b) = s \o o
  BY SingleIs, AppendIsConcat
<1>2. fs \in Seq(Vals)
  BY Together
<1> HIDE DEF o, fs
<1>3. (fs \o o) \o rest = fs \o (o \o rest)
  BY <1>1, <1>2, Regroup, Zenon
<1>4. fs \o o = f \o (s \o o)
  BY <1>1, Regroup, Zenon DEF fs
<1>5. Append(s, b) \in Seq(Vals) /\ Len(Append(s, b)) = Len(s) + 1
  OBVIOUS
<1> QED
  BY <1>1, <1>3, <1>4, <1>5 DEF o, fs, Moved

\* Where a byte went: into the text written, or the disk refused a record of it.
Put(rest, text) == /\ OutputOK
                   /\ ok => text = (file \o outbuf) \o rest
                   /\ ~ok => IsPrefix(file, Padded(text))

Owing(b, rest, text) == text = (file \o outbuf) \o (<<b>> \o rest)

LEMMA PutKeeps ==
    ASSUME OutputOK, ok, NEW b \in Vals, NEW rest \in Seq(Vals), NEW text,
           Owing(b, rest, text), PutByte(b)
    PROVE  Put(rest, text)'
<1> DEFINE s == Append(outbuf, b)
<1>1. /\ outbuf \in Seq(Vals) /\ file \in Seq(Vals) /\ Len(outbuf) < OutSize
      /\ Len(file) % RecSize = 0 /\ Len(outbuf) \in Nat
  BY DEF OutputOK
<1>2. s \in Seq(Vals) /\ Len(s) = Len(outbuf) + 1 /\ text = (file \o s) \o rest
  <2>1. /\ s \in Seq(Vals) /\ Len(s) = Len(outbuf) + 1
        /\ (file \o outbuf) \o (<<b>> \o rest) = (file \o s) \o rest
    <3>1. Moved(file, outbuf, b, rest)
      BY <1>1, OneMore
    <3> QED
      BY <3>1, Zenon DEF Moved
  <2> QED
    BY <2>1, Zenon DEF Owing
<1>3. CASE Len(s) >= OutSize
  <2>1. Flushing(s)
    BY <1>3 DEF PutByte
  <2>2. Len(s) <= OutSize /\ Len(s) = OutSize
    BY <1>1, <1>2, <1>3, Sizes
  <2> HIDE DEF s
  <2>3. Flushed(s, text)
    BY <1>1, <1>2, <2>1, <2>2, FlushKeeps
  <2>4. Padded(s) = s
    BY <1>2, <2>2, Sizes, PaddedIs
  <2>5. file \o s \in Seq(Vals)
    BY <1>1, <1>2, Together
  <2>6. (file \o s) \o <<>> = file \o s
    BY <2>5, ConcatEmptySeq
  <2> QED
    BY <1>2, <2>3, <2>4, <2>6 DEF Flushed, Put
<1>4. CASE ~(Len(s) >= OutSize)
  <2>1. outbuf' = s /\ ok' = TRUE /\ file' = file
    BY <1>4 DEF PutByte
  <2>2. Len(s) < OutSize /\ Len(s) <= OutSize
    BY <1>1, <1>2, <1>4, Sizes
  <2> HIDE DEF s
  <2>3. OutputOK'
    BY <1>1, <1>2, <2>1, <2>2 DEF OutputOK
  <2>4. text = (file' \o outbuf') \o rest
    BY <1>2, <2>1, Zenon
  <2> QED
    BY <2>1, <2>3, <2>4, Zenon DEF Put
<1> QED
  BY <1>3, <1>4
-----------------------------------------------------------------------------
(* The run-length decoder against decode_rle.                              *)
LEMMA RleIs ==
    ASSUME NEW data \in Seq(Bytes), NEW i \in 1 .. Len(data) + 1, NEW p \in Bytes
    PROVE  /\ RleFrom(data)[i][p] \in Seq(Vals)
           /\ RleFrom(data)[i][p] = RleStep(RleFrom(data), data, i, p)
<1> DEFINE f == RleFrom(data)
           last == Len(data) + 1
<1>1. f[i][p] \in Seq(Bytes)
  BY RleTyped
<1>2. f = [k \in 1 .. last |-> RleRow(f, data, k)]
  BY RleRecursion
<1>3. Bytes \subseteq Vals
  BY DEF Vals
<1> HIDE DEF f
<1>4. f[i] = RleRow(f, data, i)
  BY <1>2
<1>5. f[i][p] = RleStep(f, data, i, p)
  BY <1>4 DEF RleRow
<1>6. f[i][p] \in Seq(Vals)
  BY <1>1, <1>3, SeqMonotonic
<1> QED
  BY <1>5, <1>6 DEF f

\* What a step of the run-length decoder leaves.
RleDone(m, text) ==
    /\ OutputOK /\ RleOK /\ pc \in {"symbol", "run", "closed"}
    /\ pc # "closed" => RleState(m, text)
    /\ pc = "closed" => ~ok /\ IsPrefix(file, Padded(text))
    /\ pc = "run" => ~rle_active

\* Nothing repeated comes before what is still to come.
LEMMA NoCopies ==
    ASSUME NEW s \in Seq(Vals)
    PROVE  <<>> \o s = s
BY ConcatEmptySeq

LEMMA PlainKeeps ==
    ASSUME OutputOK, RleOK, Symbols \in Seq(Bytes), UNCHANGED Symbols, pc # "run", ~rle_active,
           NEW m, NEW text, RleState(m, text), m < Len(Symbols), Symbols[m + 1] # Marker,
           Plain(Symbols[m + 1])
    PROVE  RleDone(m + 1, text)'
<1>0. PICK b, rest : b = Symbols[m + 1] /\ rest = RleFrom(Symbols)[m + 2][b]
  OBVIOUS
<1>1. /\ ok /\ m \in Nat /\ m + 1 \in 1 .. Len(Symbols) /\ m + 2 \in 1 .. Len(Symbols) + 1
      /\ m + 1 \in 1 .. Len(Symbols) + 1 /\ m + 1 \in 0 .. Len(Symbols) /\ m + 1 + 1 = m + 2
  BY DEF RleState
<1>2. b \in Bytes /\ b \in Vals
  BY <1>0, <1>1 DEF Vals
<1>3. rest \in Seq(Vals)
  BY <1>0, <1>1, <1>2, RleIs
<1>4. Owing(b, rest, text)
  <2>1. Copies = <<>>
    BY DEF Copies
  <2>2. text = (file \o outbuf) \o (<<>> \o RleFrom(Symbols)[m + 1][rle_prev])
    BY <2>1 DEF RleState
  <2>3. /\ RleFrom(Symbols)[m + 1][rle_prev] \in Seq(Vals)
        /\ RleFrom(Symbols)[m + 1][rle_prev]
             = RleStep(RleFrom(Symbols), Symbols, m + 1, rle_prev)
    BY <1>1, RleIs DEF RleOK
  <2>4. RleStep(RleFrom(Symbols), Symbols, m + 1, rle_prev) = <<b>> \o rest
    BY <1>0, <1>1 DEF RleStep
  <2>5. <<>> \o RleFrom(Symbols)[m + 1][rle_prev] = RleFrom(Symbols)[m + 1][rle_prev]
    BY <2>3, NoCopies
  <2> QED
    BY <2>2, <2>3, <2>4, <2>5 DEF Owing
<1>5. /\ PutByte(b) /\ rle_prev' = b /\ pc' = IF ok' THEN "symbol" ELSE "closed"
      /\ UNCHANGED <<rle_active, cnt>>
  BY <1>0 DEF Plain, After
<1>6. Put(rest, text)'
  BY <1>1, <1>2, <1>3, <1>4, <1>5, PutKeeps
<1>7. RleOK' /\ ok' \in BOOLEAN
  BY <1>2, <1>5, <1>6 DEF RleOK, Put, OutputOK
<1>8. CASE ok'
  <2>1. pc' = "symbol" /\ Copies' = <<>> /\ ~rle_active'
    BY <1>5, <1>8 DEF Copies
  <2>2. text = (file' \o outbuf') \o (<<>> \o rest)
    <3>1. <<>> \o rest = rest /\ text = (file' \o outbuf') \o rest
      BY <1>3, <1>6, <1>8, NoCopies DEF Put
    <3> QED
      BY <3>1, Zenon
  <2>3. rest = RleFrom(Symbols)[m + 1 + 1][rle_prev']
    BY <1>0, <1>1, <1>5
  <2>4. RleState(m + 1, text)'
    BY <1>1, <1>8, <2>1, <2>2, <2>3 DEF RleState
  <2> QED
    BY <1>6, <1>7, <2>1, <2>4 DEF RleDone, Put
<1>9. CASE ~ok'
  BY <1>5, <1>6, <1>7, <1>9 DEF RleDone, Put
<1> QED
  BY <1>8, <1>9

LEMMA CountedKeeps ==
    ASSUME OutputOK, ok, RleOK, Symbols \in Seq(Bytes), UNCHANGED Symbols,
           NEW m \in Nat, m >= 1, m < Len(Symbols), Symbols[m] = Marker, NEW text,
           text = (file \o outbuf) \o RleFrom(Symbols)[m][rle_prev],
           Counted(Symbols[m + 1])
    PROVE  RleDone(m + 1, text)'
<1>0. PICK b, rest : b = Symbols[m + 1] /\ rest = RleFrom(Symbols)[m + 2][rle_prev]
  OBVIOUS
<1>1. /\ m \in 1 .. Len(Symbols) + 1 /\ m + 1 \in 1 .. Len(Symbols)
      /\ m + 2 \in 1 .. Len(Symbols) + 1 /\ m + 1 \in 0 .. Len(Symbols) /\ m + 1 + 1 = m + 2
  OBVIOUS
<1>2. b \in Bytes /\ rle_prev \in Bytes /\ rle_prev \in Vals /\ Marker \in Vals
  BY <1>0, <1>1, ByteFacts DEF Vals, RleOK
<1>3. rest \in Seq(Vals)
  BY <1>0, <1>1, <1>2, RleIs
<1>4. RleFrom(Symbols)[m][rle_prev] = RleStep(RleFrom(Symbols), Symbols, m, rle_prev)
  BY <1>1, <1>2, RleIs
<1>5. RleStep(RleFrom(Symbols), Symbols, m, rle_prev)
        = IF b = 0 THEN <<Marker>> \o rest ELSE [n \in 1 .. b - 1 |-> rle_prev] \o rest
  BY <1>0, <1>1 DEF RleStep
<1>6. rle_active' = FALSE
  BY DEF Counted
<1>7. CASE b = 0
  <2>1. PutByte(Marker) /\ pc' = (IF ok' THEN "symbol" ELSE "closed") /\ UNCHANGED <<rle_prev, cnt>>
    BY <1>0, <1>7 DEF Counted, After
  <2>2. Owing(Marker, rest, text)
    BY <1>4, <1>5, <1>7 DEF Owing
  <2>3. Put(rest, text)'
    BY <1>2, <1>3, <2>1, <2>2, PutKeeps
  <2>4. RleOK' /\ ok' \in BOOLEAN
    BY <1>6, <2>1, <2>3 DEF RleOK, Put, OutputOK
  <2>5. CASE ok'
    <3>1. pc' = "symbol" /\ Copies' = <<>>
      BY <2>1, <2>5 DEF Copies
    <3>2. text = (file' \o outbuf') \o (<<>> \o rest)
      <4>1. <<>> \o rest = rest /\ text = (file' \o outbuf') \o rest
        BY <1>3, <2>3, <2>5, NoCopies DEF Put
      <4> QED
        BY <4>1, Zenon
    <3>3. rest = RleFrom(Symbols)[m + 1 + 1][rle_prev']
      BY <1>0, <1>1, <2>1
    <3>4. RleState(m + 1, text)'
      BY <1>1, <1>6, <2>5, <3>1, <3>2, <3>3 DEF RleState
    <3> QED
      BY <1>6, <2>3, <2>4, <3>1, <3>4 DEF RleDone, Put
  <2>6. CASE ~ok'
    BY <2>1, <2>3, <2>4, <2>6 DEF RleDone, Put
  <2> QED
    BY <2>5, <2>6
<1>8. CASE b # 0
  <2>1. cnt' = b - 1 /\ pc' = "run" /\ UNCHANGED <<outbuf, file, ok, rle_prev>>
    BY <1>0, <1>8 DEF Counted, output
  <2>2. b - 1 \in 0 .. NBytes - 2
    BY <1>2, <1>8, ByteFacts DEF Bytes
  <2>3. RleOK' /\ OutputOK'
    BY <1>6, <2>1, <2>2 DEF RleOK, OutputOK
  <2>4. Copies' = [n \in 1 .. b - 1 |-> rle_prev]
    BY <2>1 DEF Copies
  <2>5. text = (file' \o outbuf') \o (Copies' \o rest)
    BY <1>4, <1>5, <1>8, <2>1, <2>4
  <2>6. rest = RleFrom(Symbols)[m + 1 + 1][rle_prev']
    BY <1>0, <1>1, <2>1
  <2>7. RleState(m + 1, text)'
    BY <1>1, <1>6, <2>1, <2>5, <2>6 DEF RleState
  <2> QED
    BY <1>6, <2>1, <2>3, <2>7 DEF RleDone
<1> QED
  BY <1>7, <1>8
\* rle$decode$byte, given the next symbol.
LEMMA RleByteKeeps ==
    ASSUME OutputOK, RleOK, Symbols \in Seq(Bytes), UNCHANGED Symbols, pc # "run",
           NEW m, NEW text, RleState(m, text), m < Len(Symbols), RleByte(Symbols[m + 1])
    PROVE  RleDone(m + 1, text)'
<1>1. /\ ok /\ m \in Nat /\ m + 1 \in 0 .. Len(Symbols) /\ m + 1 >= 1 /\ Len(Symbols) \in Nat
      /\ m + 1 \in 1 .. Len(Symbols) + 1
  BY DEF RleState
<1>2. Copies = <<>>
  BY DEF Copies
<1>3. CASE rle_active /\ Counted(Symbols[m + 1])
  <2>1. m >= 1 /\ Symbols[m] = Marker /\ m \in 1 .. Len(Symbols) + 1
    BY <1>1, <1>3 DEF RleState
  <2>2. text = (file \o outbuf) \o (<<>> \o RleFrom(Symbols)[m][rle_prev])
    BY <1>2, <1>3 DEF RleState
  <2>3. RleFrom(Symbols)[m][rle_prev] \in Seq(Vals)
    BY <2>1, RleIs DEF RleOK
  <2>4. <<>> \o RleFrom(Symbols)[m][rle_prev] = RleFrom(Symbols)[m][rle_prev]
    BY <2>3, NoCopies
  <2>5. text = (file \o outbuf) \o RleFrom(Symbols)[m][rle_prev]
    BY <2>2, <2>4
  <2> QED
    BY <1>1, <1>3, <2>1, <2>5, CountedKeeps
<1>4. CASE ~rle_active /\ Symbols[m + 1] = Marker /\ rle_active' = TRUE /\ pc' = "symbol"
           /\ UNCHANGED <<output, rle_prev, cnt>>
  <2>1. OutputOK' /\ RleOK' /\ ok' = ok /\ file' = file /\ outbuf' = outbuf /\ rle_prev' = rle_prev
    BY <1>4 DEF OutputOK, RleOK, output
  <2>2. Copies' = <<>>
    BY <1>4 DEF Copies
  <2>3. text = (file \o outbuf) \o (<<>> \o RleFrom(Symbols)[m + 1][rle_prev])
    BY <1>2, <1>4 DEF RleState
  <2>4. RleState(m + 1, text)'
    BY <1>1, <1>4, <2>1, <2>2, <2>3 DEF RleState
  <2> QED
    BY <1>4, <2>1, <2>4 DEF RleDone
<1>5. CASE ~rle_active /\ Symbols[m + 1] # Marker /\ Plain(Symbols[m + 1])
  BY <1>5, PlainKeeps
<1> QED
  BY <1>3, <1>4, <1>5 DEF RleByte

\* A lone marker at the end of packed data stands for nothing.
LEMMA LoneMarker ==
    ASSUME Symbols \in Seq(Bytes), RleOK, ~rle_active, pc # "run", NEW m, NEW text,
           RleState(m, text), m + 1 = Len(Symbols), Symbols[m + 1] = Marker
    PROVE  RleState(m + 1, text)
<1>1. /\ m \in Nat /\ m + 1 \in 1 .. Len(Symbols) + 1 /\ m + 2 \in 1 .. Len(Symbols) + 1
      /\ m + 1 \in 0 .. Len(Symbols) /\ m + 1 + 1 = m + 2
  BY DEF RleState
<1>2. RleFrom(Symbols)[m + 1][rle_prev] = RleStep(RleFrom(Symbols), Symbols, m + 1, rle_prev)
  BY <1>1, RleIs DEF RleOK
<1>3. RleFrom(Symbols)[m + 2][rle_prev] = RleStep(RleFrom(Symbols), Symbols, m + 2, rle_prev)
  BY <1>1, RleIs DEF RleOK
<1>4. /\ RleFrom(Symbols)[m + 1][rle_prev] = <<>>
      /\ RleFrom(Symbols)[m + 2][rle_prev] = <<>>
  BY <1>1, <1>2, <1>3 DEF RleStep
<1> QED
  BY <1>1, <1>4 DEF RleState

\* Copies as expected by a run, one fewer at each turn.
LEMMA RunKeeps ==
    ASSUME OutputOK, RleOK, Symbols \in Seq(Bytes), UNCHANGED Symbols, ~rle_active,
           NEW m, NEW text, RleState(m, text), Run
    PROVE  RleDone(m, text)'
<1>0. PICK rest, x, n : rest = RleFrom(Symbols)[m + 1][rle_prev] /\ x = rle_prev /\ n = cnt
  OBVIOUS
<1>1. /\ ok /\ m \in 0 .. Len(Symbols) /\ m + 1 \in 1 .. Len(Symbols) + 1
      /\ x \in Vals /\ x \in Bytes /\ n \in Nat
  BY <1>0, ByteFacts DEF RleState, RleOK, Vals
<1>2. rest \in Seq(Vals)
  BY <1>0, <1>1, RleIs
<1>3. /\ rle_prev' = rle_prev /\ rle_active' = rle_active /\ pc = "run"
  BY DEF Run
<1>4. text = (file \o outbuf) \o ([i \in 1 .. n |-> x] \o rest)
  BY <1>0, <1>3 DEF RleState, Copies
<1>5. CASE cnt = 0
  <2>1. pc' = "symbol" /\ UNCHANGED <<outbuf, file, ok, cnt>>
    BY <1>5 DEF Run, output
  <2>2. [i \in 1 .. n |-> x] = <<>>
    BY <1>0, <1>1, <1>5, RepeatIs
  <2>3. Copies' = <<>>
    BY <2>1 DEF Copies
  <2>4. RleState(m, text)'
    BY <1>0, <1>1, <1>3, <1>4, <2>1, <2>2, <2>3 DEF RleState
  <2>5. OutputOK' /\ RleOK'
    BY <1>3, <2>1 DEF OutputOK, RleOK
  <2> QED
    BY <2>1, <2>4, <2>5 DEF RleDone
<1>6. CASE cnt # 0
  <2>1. PutByte(x) /\ cnt' = n - 1 /\ pc' = IF ok' THEN "run" ELSE "closed"
    BY <1>0, <1>6 DEF Run
  <2>2. PICK less : less = [i \in 1 .. n - 1 |-> x]
    OBVIOUS
  <2>3. n - 1 \in Nat /\ n # 0
    BY <1>0, <1>1, <1>6
  <2>4. less \in Seq(Vals)
    BY <1>1, <2>2, <2>3, RepeatIs
  <2>5. [i \in 1 .. n |-> x] = <<x>> \o less
    BY <1>1, <2>2, <2>3, RepeatIs
  <2>6. PICK on : on = less \o rest
    OBVIOUS
  <2>7. on \in Seq(Vals)
    BY <1>2, <2>4, <2>6, Together
  <2>8. Owing(x, on, text)
    <3> DEFINE o == <<x>>
    <3>1. o \in Seq(Vals)
      BY <1>1, SingleIs
    <3> HIDE DEF o
    <3>2. (o \o less) \o rest = o \o (less \o rest)
      BY <1>2, <2>4, <3>1, Regroup, Zenon
    <3> QED
      BY <1>4, <2>5, <2>6, <3>2 DEF o, Owing
  <2>9. Put(on, text)'
    BY <1>1, <2>1, <2>7, <2>8, PutKeeps
  <2>10. RleOK' /\ ok' \in BOOLEAN
    <3>1. n - 1 \in 0 .. NBytes - 2
      BY <1>0, <1>1, <2>3, ByteFacts DEF RleOK
    <3> QED
      BY <1>3, <2>1, <2>9, <3>1 DEF RleOK, Put, OutputOK
  <2>11. CASE ok'
    <3>1. pc' = "run"
      BY <2>1, <2>11
    <3>2. Copies' = less
      BY <1>0, <1>3, <2>1, <2>2, <3>1 DEF Copies
    <3>3. text = (file' \o outbuf') \o (less \o rest)
      BY <2>6, <2>9, <2>11 DEF Put
    <3>4. RleState(m, text)'
      BY <1>0, <1>1, <1>3, <2>11, <3>2, <3>3 DEF RleState
    <3> QED
      BY <1>3, <2>9, <2>10, <3>1, <3>4 DEF RleDone, Put
  <2>12. CASE ~ok'
    BY <2>1, <2>9, <2>10, <2>12 DEF RleDone, Put
  <2> QED
    BY <2>11, <2>12
<1> QED
  BY <1>5, <1>6
-----------------------------------------------------------------------------
(* Bits and symbols.                                                       *)

\* What the sequence that begins with v after the first m symbols says of them.
Taken(y, m, v, rest) == /\ m < Len(y) /\ y[m + 1] = v
                        /\ rest = SubSeq(y, m + 2, Len(y)) /\ Len(rest) = Len(y) - (m + 1)

LEMMA TakeOne ==
    ASSUME NEW y \in Seq(Bytes), NEW m \in 0 .. Len(y), NEW v \in Bytes, NEW rest \in Seq(Bytes),
           SubSeq(y, m + 1, Len(y)) = <<v>> \o rest
    PROVE  Taken(y, m, v, rest)
<1> DEFINE all == SubSeq(y, m + 1, Len(y))
           tail == SubSeq(y, m + 2, Len(y))
<1>1. Len(y) \in Nat /\ m \in Nat /\ m + 1 \in Nat /\ m + 2 \in Nat /\ m + 1 + 1 = m + 2
  OBVIOUS
<1>2. /\ <<v>> \in Seq(Bytes) /\ Len(<<v>>) = 1 /\ <<v>>[1] = v
  BY SingleIs
<1>3. /\ <<v>> \o rest \in Seq(Bytes) /\ Len(<<v>> \o rest) = 1 + Len(rest)
      /\ \A i \in 1 .. 1 + Len(rest) :
            (<<v>> \o rest)[i] = IF i <= 1 THEN <<v>>[i] ELSE rest[i - 1]
      /\ Len(rest) \in Nat
  BY <1>2, ConcatProperties
<1>4. /\ all \in Seq(Bytes) /\ Len(all) = IF m + 1 <= Len(y) THEN Len(y) - (m + 1) + 1 ELSE 0
      /\ \A i \in 1 .. Len(y) - (m + 1) + 1 : all[i] = y[(m + 1) + i - 1]
  <2>1. \A i \in m + 1 .. Len(y) : y[i] \in Bytes
    BY <1>1
  <2> QED
    BY <1>1, <2>1, SubSeqProperties
<1>5. /\ tail \in Seq(Bytes) /\ Len(tail) = IF m + 2 <= Len(y) THEN Len(y) - (m + 2) + 1 ELSE 0
      /\ \A i \in 1 .. Len(y) - (m + 2) + 1 : tail[i] = y[(m + 2) + i - 1]
  <2>1. \A i \in m + 2 .. Len(y) : y[i] \in Bytes
    BY <1>1
  <2> QED
    BY <1>1, <2>1, SubSeqProperties
<1>6. all = <<v>> \o rest
  OBVIOUS
<1> DEFINE w == <<v>> \o rest
<1> HIDE DEF all, tail, w
<1>7. /\ Len(w) = 1 + Len(rest) /\ w[1] = v /\ \A i \in 1 .. Len(rest) : w[i + 1] = rest[i]
  <2>1. /\ Len(w) = 1 + Len(rest)
        /\ \A i \in 1 .. 1 + Len(rest) : w[i] = IF i <= 1 THEN <<v>>[i] ELSE rest[i - 1]
    BY <1>3 DEF w
  <2>2. w[1] = v
    BY <1>2, <1>3, <2>1
  <2>3. ASSUME NEW i \in 1 .. Len(rest) PROVE w[i + 1] = rest[i]
    <3>1. i + 1 \in 1 .. 1 + Len(rest) /\ ~(i + 1 <= 1) /\ i + 1 - 1 = i
      BY <1>3
    <3> QED
      BY <2>1, <3>1
  <2> QED
    BY <2>1, <2>2, <2>3
<1>8. all = w
  BY <1>6 DEF w
<1>9. m < Len(y) /\ Len(rest) = Len(y) - (m + 1) /\ Len(tail) = Len(rest)
  BY <1>1, <1>3, <1>4, <1>5, <1>7, <1>8
<1>10. y[m + 1] = v
  <2>1. 1 \in 1 .. Len(y) - (m + 1) + 1 /\ (m + 1) + 1 - 1 = m + 1
    BY <1>1, <1>9
  <2> QED
    BY <1>4, <1>7, <1>8, <2>1
<1>11. ASSUME NEW i \in 1 .. Len(rest) PROVE rest[i] = tail[i]
  <2>1. /\ i + 1 \in 1 .. Len(y) - (m + 1) + 1 /\ (m + 1) + (i + 1) - 1 = m + 1 + i
        /\ i \in 1 .. Len(y) - (m + 2) + 1 /\ (m + 2) + i - 1 = m + 1 + i
    BY <1>1, <1>3, <1>9
  <2>2. all[i + 1] = y[m + 1 + i] /\ tail[i] = y[m + 1 + i]
    BY <1>4, <1>5, <2>1
  <2> QED
    BY <1>7, <1>8, <2>2
<1>12. rest = tail
  BY <1>5, <1>9, <1>11, SeqEqual
<1> QED
  BY <1>9, <1>10, <1>12 DEF Taken, tail

LEMMA BitsIn ==
    ASSUME Given, Place
    PROVE  /\ BitsRead \in 0 .. AllBits
           /\ Short <=> BitsRead = AllBits
           /\ ~MoreBits => BitsRead = AllBits
<1>1. /\ Len(stream) \in Nat /\ pos \in Nat /\ pos <= Len(stream) /\ bits_left \in Nat
      /\ bits_left < ByteBits /\ ByteBits \in Nat /\ ByteBits >= 1
      /\ bits_left # 0 => pos >= 1
  BY ByteFacts DEF Given, Place
<1>2. /\ ByteBits * pos \in Nat /\ ByteBits * pos <= AllBits /\ AllBits \in Nat
  BY <1>1, Times DEF AllBits
<1>3. pos >= 1 => ByteBits <= ByteBits * pos
  <2>1. pos >= 1 => ByteBits * 1 <= ByteBits * pos
    BY <1>1, Times
  <2> QED
    BY <1>1, <2>1
<1>4. pos < Len(stream) => (ByteBits * pos) + ByteBits <= AllBits
  <2>1. pos < Len(stream) => ByteBits * (pos + 1) <= ByteBits * Len(stream)
    BY <1>1, Times
  <2>2. ByteBits * (pos + 1) = (ByteBits * pos) + ByteBits
    BY <1>1, Times
  <2> QED
    BY <2>1, <2>2 DEF AllBits
<1>5. pos = Len(stream) => ByteBits * pos = AllBits
  BY DEF AllBits
<1> DEFINE x == ByteBits * pos
<1> HIDE DEF x
<1>6. BitsRead = x - bits_left
  BY DEF BitsRead, x
<1>7. /\ x \in Nat /\ x <= AllBits /\ (pos >= 1 => ByteBits <= x)
      /\ pos < Len(stream) => x + ByteBits <= AllBits
      /\ pos = Len(stream) => x = AllBits
  BY <1>2, <1>3, <1>4, <1>5 DEF x
<1> QED
  BY <1>1, <1>2, <1>6, <1>7 DEF Short, MoreBits, InputAvail

\* read$bit$lsb gives the next bit of the data.
LEMMA BitIs ==
    ASSUME Given, Place, ~Short, ReadBit, UNCHANGED stream
    PROVE  /\ Bit = BitAt(BitsRead) /\ BitsRead' = BitsRead + 1 /\ Place'
           /\ BitsRead # AllBits
<1>1. /\ Len(stream) \in Nat /\ pos \in Nat /\ pos <= Len(stream) /\ bits_left \in Nat
      /\ bits_left < ByteBits /\ ByteBits \in Nat /\ ByteBits >= 1
      /\ bits_left # 0 => pos >= 1
  BY ByteFacts DEF Given, Place
<1>2. CASE bits_left = 0
  <2>1. InputAvail /\ pos < Len(stream) /\ pos' = pos + 1 /\ bits_left' = ByteBits - 1
    BY <1>2 DEF Short, InputAvail, ReadBit
  <2>2. BitsRead = (ByteBits * pos) + 0 /\ ByteBits * pos \in Nat
    BY <1>1, <1>2, Times DEF BitsRead
  <2>3. BitsRead \div ByteBits = pos /\ BitsRead % ByteBits = 0
    <3> DEFINE z == 0
    <3>1. z \in Nat /\ z < ByteBits
      BY <1>1
    <3> HIDE DEF z
    <3>2. ((ByteBits * pos) + z) \div ByteBits = pos /\ ((ByteBits * pos) + z) % ByteBits = z
      BY <1>1, <3>1, Divides
    <3> QED
      BY <2>2, <3>2 DEF z
  <2>4. Bit = BitAt(BitsRead)
    BY <1>2, <2>1, <2>3 DEF Bit, BitAt, NextByte
  <2>5. BitsRead' = BitsRead + 1
    <3>1. ByteBits * (pos + 1) = (ByteBits * pos) + ByteBits
      BY <1>1, Times
    <3>2. BitsRead' = (ByteBits * (pos + 1)) - (ByteBits - 1)
      BY <2>1 DEF BitsRead
    <3> QED
      BY <1>1, <2>2, <3>1, <3>2
  <2>6. Place'
    BY <1>1, <2>1 DEF Place
  <2> QED
    BY <2>4, <2>5, <2>6, BitsIn
<1>3. CASE bits_left # 0
  <2>1. pos >= 1 /\ pos' = pos /\ bits_left' = bits_left - 1
    BY <1>1, <1>3 DEF ReadBit
  <2> DEFINE q == pos - 1
             r == ByteBits - bits_left
  <2>2. q \in Nat /\ r \in Nat /\ r < ByteBits /\ pos = q + 1
    BY <1>1, <1>3, <2>1
  <2>3. BitsRead = (ByteBits * q) + r
    <3> HIDE DEF q
    <3>1. ByteBits * (q + 1) = (ByteBits * q) + ByteBits /\ ByteBits * q \in Nat
      BY <1>1, <2>2, Times
    <3> QED
      BY <1>1, <2>2, <3>1 DEF BitsRead
  <2> HIDE DEF q, r
  <2>4. BitsRead \div ByteBits = q /\ BitsRead % ByteBits = r
    BY <1>1, <2>2, <2>3, Divides
  <2>5. Bit = BitAt(BitsRead)
    BY <1>3, <2>2, <2>4 DEF Bit, BitAt, r
  <2>6. BitsRead' = BitsRead + 1
    <3>1. ByteBits * pos \in Nat
      BY <1>1, Times
    <3> QED
      BY <1>1, <2>1, <3>1 DEF BitsRead
  <2>7. Place'
    BY <1>1, <1>3, <2>1 DEF Place
  <2> QED
    BY <2>5, <2>6, <2>7, BitsIn
<1> QED
  BY <1>2, <1>3
-----------------------------------------------------------------------------
(* The invariant, from what a step leaves.                                 *)
LEMMA SameMember ==
    ASSUME UNCHANGED member
    PROVE  /\ method' = method /\ stream' = stream /\ tree' = tree
           /\ Symbols' = Symbols /\ PyOutput' = PyOutput
           /\ SymbolsFrom' = SymbolsFrom /\ PySymbols' = PySymbols /\ Given' = Given
<1>1. method' = method /\ stream' = stream /\ tree' = tree
  BY DEF member
<1>2. SymbolsFrom' = SymbolsFrom
  BY <1>1, SMT DEF SymbolsFrom, AllBits, BitAt, BitOf
<1>3. PySymbols' = PySymbols
  BY <1>2 DEF PySymbols
<1>4. Symbols' = Symbols
  BY <1>1, <1>3 DEF Symbols
<1>5. PyOutput' = PyOutput
  BY <1>1, <1>3, Zenon DEF PyOutput
<1>6. Given' = Given
  BY <1>1, Zenon DEF Given
<1> QED
  BY <1>1, <1>2, <1>3, <1>4, <1>5, <1>6

LEMMA SymbolsOK ==
    ASSUME Given
    PROVE  PySymbols \in Seq(Bytes) /\ Symbols \in Seq(Bytes) /\ Len(Symbols) \in Nat
           /\ Len(PySymbols) \in Nat
<1>1. AllBits \in Nat /\ Len(tree) \in Nat
  BY ByteFacts, Times DEF AllBits, Given
<1>2. 0 \in 0 .. AllBits /\ 0 \in 0 .. Len(tree)
  BY <1>1
<1>3. PySymbols \in Seq(Bytes)
  BY <1>2, SymbolsTyped DEF PySymbols
<1>4. Symbols \in Seq(Bytes)
  BY <1>3 DEF Symbols, Given
<1> QED
  BY <1>3, <1>4

LEMMA PyOutputOK ==
    ASSUME Well
    PROVE  PyOutput \in Seq(Vals) /\ (method # "stored" => PyOutput = PyRle(Symbols))
<1>1. Symbols \in Seq(Bytes) /\ stream \in Seq(Bytes) /\ Bytes \subseteq Vals
  BY SymbolsOK DEF Well, Given, Vals
<1>2. 1 \in 1 .. Len(Symbols) + 1 /\ 0 \in Bytes
  BY <1>1, ByteFacts
<1>3. PyRle(Symbols) \in Seq(Vals)
  BY <1>1, <1>2, RleIs DEF PyRle
<1>4. stream \in Seq(Vals)
  BY <1>1, SeqMonotonic
<1>5. method # "stored" => PyOutput = PyRle(Symbols)
  BY DEF PyOutput, Symbols, Well
<1>6. method = "stored" => PyOutput = stream
  BY DEF PyOutput
<1> QED
  BY <1>3, <1>4, <1>5, <1>6

LEMMA UnreadIs ==
    ASSUME Well, Place
    PROVE  /\ Unread \in Seq(Bytes)
           /\ Unread = SymbolsStep(SymbolsFrom, BitsRead, IF pc = "bit" THEN node ELSE 0)
<1>1. Given /\ BitsRead \in 0 .. AllBits
  BY BitsIn DEF Well
<1>2. PICK i, n : i = BitsRead /\ n = IF pc = "bit" THEN node ELSE 0
  OBVIOUS
<1>3. i \in 0 .. AllBits /\ n \in 0 .. Len(tree)
  BY <1>1, <1>2 DEF Well, Given
<1>4. SymbolsFrom[i][n] \in Seq(Bytes) /\ SymbolsFrom[i][n] = SymbolsStep(SymbolsFrom, i, n)
  BY <1>1, <1>3, SymbolsTyped
<1> QED
  BY <1>2, <1>4 DEF Unread

\* Every symbol was decoded: the text is what was put.
LEMMA AllRead ==
    ASSUME Well, pc # "run", NEW m, NEW text, RleState(m, text), m = Len(Symbols)
    PROVE  ok /\ text = file \o outbuf
<1>1. Symbols \in Seq(Bytes) /\ Len(Symbols) \in Nat /\ RleOK /\ Given
  BY SymbolsOK DEF Well
<1>2. file \in Seq(Vals) /\ outbuf \in Seq(Vals) /\ file \o outbuf \in Seq(Vals)
  BY Together DEF Well, OutputOK
<1>3. Copies = <<>>
  BY DEF Copies
<1>4. RleFrom(Symbols)[IF rle_active THEN m ELSE m + 1][rle_prev] = <<>>
  <2>1. CASE rle_active
    <3>1. m \in 1 .. Len(Symbols) + 1 /\ Symbols[m] = Marker
      BY <1>1, <2>1 DEF RleState
    <3>2. RleFrom(Symbols)[m][rle_prev] = RleStep(RleFrom(Symbols), Symbols, m, rle_prev)
      BY <1>1, <3>1, RleIs DEF RleOK
    <3> QED
      BY <1>1, <2>1, <3>1, <3>2 DEF RleStep
  <2>2. CASE ~rle_active
    <3>1. m + 1 \in 1 .. Len(Symbols) + 1 /\ m + 1 > Len(Symbols)
      BY <1>1, <2>2
    <3>2. RleFrom(Symbols)[m + 1][rle_prev] = RleStep(RleFrom(Symbols), Symbols, m + 1, rle_prev)
      BY <1>1, <3>1, RleIs DEF RleOK
    <3> QED
      BY <2>2, <3>1, <3>2 DEF RleStep
  <2> QED
    BY <2>1, <2>2
<1>5. text = (file \o outbuf) \o (<<>> \o <<>>)
  BY <1>3, <1>4 DEF RleState
<1>6. <<>> \o <<>> = <<>>
  <2>1. <<>> \in Seq(Vals)
    BY EmptySeq
  <2> QED
    BY <2>1, NoCopies
<1>7. (file \o outbuf) \o <<>> = file \o outbuf
  BY <1>2, ConcatEmptySeq
<1>8. ok
  BY DEF RleState
<1> QED
  BY <1>5, <1>6, <1>7, <1>8

LEMMA Goes == Well /\ Going /\ Coming /\ Walking => IInv
BY DEF IInv, Following, Ended, WholeOrRefused, Going

LEMMA Ends == Well /\ pc = "end" /\ ok /\ PyOutput = file \o outbuf => IInv
BY DEF IInv, Following, Ended, WholeOrRefused, Going

LEMMA Closes == Well /\ pc = "closed" /\ WholeOrRefused => IInv
BY DEF IInv, Following, Ended, Going

\* A step of the run-length decoder, after which m symbols were decoded.
LEMMA Decoded ==
    ASSUME NEW m, NEW text, RleDone(m, text)', Well', method' # "stored", PyOutput' = text,
           pc' # "closed" => Consumed' = m /\ Walking'
    PROVE  IInv'
<1>1. CASE pc' = "closed"
  <2>1. WholeOrRefused'
    BY <1>1 DEF RleDone, WholeOrRefused
  <2>2. (Well /\ pc = "closed" /\ WholeOrRefused)'
    BY <1>1, <2>1
  <2> QED
    BY <2>2, Closes, PTL
<1>2. CASE pc' # "closed"
  <2>1. Going' /\ RleState(m, text)'
    BY <1>2 DEF RleDone, Going
  <2>2. Coming'
    BY <1>2, <2>1 DEF Coming
  <2>3. Walking'
    BY <1>2
  <2> QED
    BY <2>1, <2>2, <2>3, Goes, PTL
<1> QED
  BY <1>1, <1>2

\* The others leave what is still to come.
LEMMA NotDecoding ==
    ASSUME UNCHANGED <<output, rle>>, UNCHANGED Symbols, pc # "run", pc' # "run",
           NEW m, NEW text, RleState(m, text)
    PROVE  RleState(m, text)'
<1>1. /\ ok' = ok /\ outbuf' = outbuf /\ file' = file /\ rle_active' = rle_active
      /\ rle_prev' = rle_prev
  BY DEF output, rle
<1>2. Copies' = Copies
  BY DEF Copies
<1> QED
  BY <1>1, <1>2 DEF RleState
-----------------------------------------------------------------------------
(* One lemma for each action.                                              *)
LEMMA Starts ==
    ASSUME Init
    PROVE  IInv
<1>1. /\ outbuf = <<>> /\ file = <<>> /\ ok = TRUE /\ method \in {"stored", "packed", "squeezed"}
      /\ pc = "symbol" /\ pos = 0 /\ bits_left = 0 /\ node = 0
      /\ rle_prev = 0 /\ rle_active = FALSE /\ cnt = 0
  BY DEF Init, OutputInit
<1>2. Given
  <2>1. stream \in Seq(Bytes)
    BY StreamsAssumption DEF Init
  <2>2. <<>> \in Seq([{0, 1} -> Int])
    BY EmptySeq
  <2>3. tree \in Seq([{0, 1} -> Int])
    <3>1. tree \in Trees \/ tree = <<>>
      BY DEF Init
    <3> QED
      BY <2>2, <3>1, TreesAssumption
  <2> QED
    BY <2>1, <2>3 DEF Given
<1>3. Len(stream) \in Nat /\ Len(tree) \in Nat
  BY <1>2 DEF Given
<1>4. OutputOK
  <2>1. <<>> \in Seq(Vals) /\ Len(<<>>) = 0
    BY EmptySeq
  <2>2. 0 % RecSize = 0
    <3> DEFINE z == 0
    <3>1. z % RecSize < RecSize /\ z % RecSize \in Nat /\ z \in Nat
          /\ z = (RecSize * (z \div RecSize)) + (z % RecSize) /\ z \div RecSize \in Nat
      BY Sizes, Divided
    <3>2. RecSize * (z \div RecSize) \in Nat
      BY <3>1, Sizes, Times
    <3> QED
      BY <3>1, <3>2
  <2> QED
    BY <1>1, <2>1, <2>2, Sizes DEF OutputOK
<1>5. Well
  <2>1. cnt \in 0 .. NBytes - 2 /\ rle_prev \in Bytes
    BY <1>1, ByteFacts
  <2>2. RleOK /\ ~rle_active
    BY <1>1, <2>1, Zenon DEF RleOK
  <2> QED
    BY <1>1, <1>2, <1>3, <1>4, <2>2, ByteFacts DEF Well
<1>6. Symbols \in Seq(Bytes) /\ PySymbols \in Seq(Bytes) /\ Len(Symbols) \in Nat
  BY <1>2, SymbolsOK
<1>7. /\ <<>> \in Seq(Vals) /\ PyOutput \in Seq(Vals)
      /\ method # "stored" => PyOutput = RleFrom(Symbols)[1][0]
  BY <1>5, EmptySeq, PyOutputOK DEF PyRle
<1>8. ASSUME NEW s \in Seq(Vals) PROVE s = (<<>> \o <<>>) \o s /\ s = <<>> \o s
  BY <1>7, NoCopies
<1>9. method = "squeezed" => Unread = Symbols /\ Consumed = 0
  <2>1. BitsRead = 0
    <3>1. ByteBits * 0 = 0
      BY ByteFacts
    <3> QED
      BY <1>1, <3>1 DEF BitsRead
  <2>2. method = "squeezed" => Unread = PySymbols /\ Symbols = PySymbols
    BY <1>1, <2>1 DEF Unread, PySymbols, Symbols
  <2> QED
    BY <1>6, <2>2 DEF Consumed
<1>10. Consumed = 0
  BY <1>1, <1>9 DEF Consumed
<1>11. SubSeq(Symbols, 1, Len(Symbols)) = Symbols /\ SubSeq(stream, 1, Len(stream)) = stream
  BY <1>2, <1>6, SubSeqFull DEF Given
<1>12. Walking
  BY <1>1, <1>3, <1>9, <1>10, <1>11, ByteFacts DEF Walking, Place
<1>13. Coming
  <2>1. CASE method = "stored"
    <3>1. PyOutput = stream /\ pos + 1 = 1
      BY <1>1, <2>1 DEF PyOutput
    <3>2. stream = (<<>> \o <<>>) \o stream
      BY <1>7, <1>8, <3>1
    <3> QED
      BY <1>1, <1>11, <2>1, <3>1, <3>2 DEF Coming
  <2>2. CASE method # "stored"
    <3>1. Copies = <<>> /\ 0 + 1 = 1
      BY <1>1 DEF Copies
    <3>2. RleFrom(Symbols)[1][0] \in Seq(Vals)
      BY <1>7, <2>2
    <3>3. <<>> \o RleFrom(Symbols)[1][0] = RleFrom(Symbols)[1][0]
      BY <3>2, <1>8
    <3>4. (<<>> \o <<>>) \o RleFrom(Symbols)[1][0] = RleFrom(Symbols)[1][0]
      BY <3>2, <1>8
    <3>5. PyOutput = (file \o outbuf) \o (Copies \o RleFrom(Symbols)[1][rle_prev])
      BY <1>1, <1>7, <2>2, <3>1, <3>3, <3>4
    <3>6. RleState(0, PyOutput)
      BY <1>1, <1>6, <3>1, <3>5 DEF RleState
    <3> QED
      BY <1>10, <2>2, <3>6 DEF Coming
  <2> QED
    BY <2>1, <2>2
<1> QED
  BY <1>1, <1>5, <1>12, <1>13, Goes DEF Going

LEMMA StoredKeeps ==
    ASSUME IInv, Stored
    PROVE  IInv'
<1>0. PICK b, rest, text : /\ b = NextByte /\ rest = SubSeq(stream, pos + 2, Len(stream))
                           /\ text = PyOutput
  OBVIOUS
<1>1. /\ pc = "symbol" /\ method = "stored" /\ pos < Len(stream) /\ pos' = pos + 1
      /\ PutByte(b) /\ pc' = (IF ok' THEN "symbol" ELSE "closed")
      /\ bits_left' = bits_left /\ node' = node /\ rle' = rle /\ UNCHANGED member
  BY <1>0 DEF Stored, InputAvail, After, rle
<1>2. /\ method' = method /\ stream' = stream /\ tree' = tree /\ PyOutput' = text /\ Given'
  BY <1>0, <1>1, SameMember DEF IInv, Well
<1>3. /\ Well /\ OutputOK /\ stream \in Seq(Bytes) /\ Len(stream) \in Nat /\ pos \in Nat
      /\ pos + 1 + 1 = pos + 2 /\ pos + 1 \in 1 .. Len(stream) /\ pos + 1 \in 0 .. Len(stream)
  BY <1>1 DEF IInv, Well, Given
<1>4. /\ ok /\ text = (file \o outbuf) \o SubSeq(stream, pos + 1, Len(stream))
  BY <1>0, <1>1 DEF IInv, Following, Going, Coming
<1>5. b \in Bytes /\ b \in Vals /\ Bytes \subseteq Vals
  BY <1>0, <1>3 DEF NextByte, Vals
<1>6. rest \in Seq(Vals)
  <2>1. \A i \in pos + 2 .. Len(stream) : stream[i] \in Vals
    BY <1>3, <1>5
  <2> QED
    BY <1>0, <1>3, <2>1, SubSeqProperties
<1>7. SubSeq(stream, pos + 1, Len(stream)) = <<b>> \o rest
  <2>1. SubSeq(stream, pos + 1, Len(stream))
          = <<stream[pos + 1]>> \o SubSeq(stream, pos + 1 + 1, Len(stream))
    BY <1>3, SubSeqRecursiveFirst
  <2> QED
    BY <1>0, <1>3, <2>1 DEF NextByte
<1>8. Put(rest, text)'
  <2>1. Owing(b, rest, text)
    BY <1>4, <1>7, Zenon DEF Owing
  <2> QED
    BY <1>1, <1>3, <1>4, <1>5, <1>6, <2>1, PutKeeps
<1>9. Well'
  <2>1. OutputOK' /\ ok' \in BOOLEAN
    BY <1>8 DEF Put, OutputOK
  <2>2. RleOK' /\ rle_active' = rle_active
    BY <1>1, <1>3 DEF Well, RleOK, rle
  <2> QED
    BY <1>1, <1>2, <1>3, <2>1, <2>2 DEF Well
<1>10. CASE ok'
  <2>1. text = (file' \o outbuf') \o rest
    BY <1>8, <1>10 DEF Put
  <2>2. Coming'
    BY <1>0, <1>1, <1>2, <1>3, <1>10, <2>1 DEF Coming
  <2>3. Walking' /\ Going'
    BY <1>1, <1>2, <1>10 DEF Walking, Going
  <2> QED
    BY <1>9, <2>2, <2>3, Goes, PTL
<1>11. CASE ~ok'
  <2>1. IsPrefix(file', Padded(text)) /\ pc' = "closed"
    BY <1>1, <1>8, <1>11 DEF Put
  <2>2. WholeOrRefused'
    BY <1>2, <1>11, <2>1 DEF WholeOrRefused
  <2>3. (Well /\ pc = "closed" /\ WholeOrRefused)'
    BY <1>9, <2>1, <2>2
  <2> QED
    BY <2>3, Closes, PTL
<1> QED
  BY <1>10, <1>11
LEMMA PackedKeeps ==
    ASSUME IInv, Packed
    PROVE  IInv'
<1>0. PICK m, text : m = pos /\ text = PyOutput
  OBVIOUS
<1>1. /\ pc = "symbol" /\ method = "packed" /\ m < Len(stream) /\ UNCHANGED member
      /\ bits_left' = bits_left /\ node' = node
  BY <1>0 DEF Packed, InputAvail
<1>2. /\ method' = method /\ stream' = stream /\ tree' = tree /\ PyOutput' = text /\ Given'
      /\ UNCHANGED Symbols
  BY <1>0, <1>1, SameMember DEF IInv, Well
<1>3. /\ Well /\ OutputOK /\ RleOK /\ Symbols = stream /\ Symbols' = stream
      /\ stream \in Seq(Bytes) /\ Symbols \in Seq(Bytes) /\ ~rle_active
      /\ Len(stream) \in Nat /\ m \in Nat /\ m + 1 \in 0 .. Len(stream)
      /\ bits_left = 0 /\ node \in 0 .. Len(tree)
  BY <1>0, <1>1, <1>2 DEF IInv, Well, Given, Symbols
<1>4. RleState(m, text) /\ ok
  <2>1. Coming /\ Consumed = m
    BY <1>0, <1>1 DEF IInv, Following, Going, Consumed
  <2> QED
    BY <1>0, <1>1, <2>1 DEF Coming, RleState
<1>5. NextByte = Symbols[m + 1]
  BY <1>0, <1>3 DEF NextByte
<1>6. ASSUME NEW n \in 0 .. Len(stream), pos' = n, RleDone(n, text)', rle_active' = FALSE
      PROVE  IInv'
  <2>1. Well'
    BY <1>1, <1>2, <1>3, <1>6 DEF Well, RleDone
  <2>2. Consumed' = n /\ Walking'
    BY <1>1, <1>2, <1>6 DEF Consumed, Walking
  <2>3. method' # "stored"
    BY <1>1, <1>2
  <2> QED
    BY <1>2, <1>6, <2>1, <2>2, <2>3, Decoded
<1>7. CASE NextByte # Marker
  <2>1. pos' = m + 1 /\ Plain(Symbols[m + 1])
    BY <1>0, <1>5, <1>7 DEF Packed
  <2>2. RleDone(m + 1, text)'
    BY <1>1, <1>3, <1>2, <1>4, <1>5, <1>7, <2>1, PlainKeeps
  <2>3. rle_active' = FALSE
    BY <1>3, <2>1 DEF Plain, RleOK
  <2> QED
    BY <1>3, <1>6, <2>1, <2>2, <2>3
<1>8. CASE NextByte = Marker /\ m + 1 = Len(stream)
  <2>1. pos' = m + 1 /\ UNCHANGED <<output, rle, pc>>
    BY <1>0, <1>8 DEF Packed
  <2>2. RleState(m + 1, text)
    BY <1>1, <1>3, <1>4, <1>5, <1>8, LoneMarker
  <2>3. RleState(m + 1, text)'
    BY <1>1, <1>2, <2>1, <2>2, NotDecoding
  <2>4. /\ OutputOK' /\ RleOK' /\ pc' = "symbol" /\ rle_active' = FALSE
    BY <1>1, <1>3, <2>1 DEF OutputOK, RleOK, output, rle
  <2>5. RleDone(m + 1, text)'
    BY <2>3, <2>4 DEF RleDone
  <2> QED
    BY <1>3, <1>6, <2>1, <2>4, <2>5
<1>9. CASE NextByte = Marker /\ m + 1 # Len(stream)
  <2>0. PICK k : k = m + 1
    OBVIOUS
  <2>1. /\ k \in Nat /\ k >= 1 /\ k < Len(Symbols) /\ Symbols[k] = Marker /\ pos + 2 = k + 1
        /\ k + 1 \in 0 .. Len(stream) /\ k \in 1 .. Len(Symbols) + 1
    <3>1. Len(Symbols) = Len(stream) /\ Symbols[k] = Marker
      BY <1>3, <1>5, <1>9, <2>0, Zenon
    <3>2. /\ k \in Nat /\ k >= 1 /\ k < Len(stream) /\ pos + 2 = k + 1
          /\ k + 1 \in 0 .. Len(stream) /\ k \in 1 .. Len(stream) + 1
      BY <1>0, <1>1, <1>3, <1>9, <2>0
    <3> QED
      BY <3>1, <3>2
  <2>2. pos' = k + 1 /\ Counted(Symbols[k + 1])
    BY <1>0, <1>3, <1>9, <2>1 DEF Packed
  <2>3. text = (file \o outbuf) \o RleFrom(Symbols)[k][rle_prev]
    <3>1. Copies = <<>>
      BY <1>1 DEF Copies
    <3>2. text = (file \o outbuf) \o (<<>> \o RleFrom(Symbols)[k][rle_prev])
      BY <1>3, <1>4, <2>0, <3>1 DEF RleState
    <3>3. RleFrom(Symbols)[k][rle_prev] \in Seq(Vals)
      BY <1>3, <2>1, RleIs DEF RleOK
    <3>4. <<>> \o RleFrom(Symbols)[k][rle_prev] = RleFrom(Symbols)[k][rle_prev]
      BY <3>3, NoCopies
    <3> QED
      BY <3>2, <3>4
  <2>4. RleDone(k + 1, text)'
    BY <1>2, <1>3, <1>4, <2>1, <2>2, <2>3, CountedKeeps
  <2>5. rle_active' = FALSE
    BY <2>2 DEF Counted
  <2> QED
    BY <1>6, <2>1, <2>2, <2>4, <2>5
<1> QED
  BY <1>7, <1>8, <1>9

LEMMA StartSymbolKeeps ==
    ASSUME IInv, StartSymbol
    PROVE  IInv'
<1>0. PICK m, text : m = Consumed /\ text = PyOutput
  OBVIOUS
<1>1. /\ pc = "symbol" /\ method = "squeezed" /\ tree # <<>> /\ node' = 0 /\ pc' = "bit"
      /\ UNCHANGED <<output, rle>> /\ UNCHANGED member /\ pos' = pos /\ bits_left' = bits_left
  BY DEF StartSymbol
<1>2. /\ method' = method /\ stream' = stream /\ tree' = tree /\ PyOutput' = text /\ Given'
      /\ Symbols' = Symbols /\ SymbolsFrom' = SymbolsFrom /\ PySymbols' = PySymbols
  BY <1>0, <1>1, SameMember DEF IInv, Well
<1>3. /\ Well /\ OutputOK /\ RleOK /\ Len(tree) \in Nat /\ Len(tree) # 0
  <2>1. tree \in Seq([{0, 1} -> Int])
    BY DEF IInv, Well, Given
  <2> QED
    BY <1>1, <2>1, EmptySeq DEF IInv, Well
<1>4. RleState(m, text) /\ Walking /\ Place
  BY <1>0, <1>1 DEF IInv, Following, Going, Coming, Walking
<1>5. RleState(m, text)'
  BY <1>1, <1>2, <1>4, NotDecoding
<1>6. Unread' = Unread /\ Consumed' = m
  <2>1. BitsRead' = BitsRead
    BY <1>1 DEF BitsRead
  <2>2. Unread' = Unread
    BY <1>1, <1>2, <2>1 DEF Unread
  <2> QED
    BY <1>0, <1>1, <1>2, <2>2 DEF Consumed
<1>7. Well'
  <2>1. OutputOK' /\ RleOK'
    BY <1>1, <1>3 DEF OutputOK, RleOK, output, rle
  <2> QED
    BY <1>1, <1>2, <1>3, <2>1 DEF Well
<1>8. Walking'
  BY <1>0, <1>1, <1>2, <1>4, <1>6 DEF Walking, Place
<1>9. Coming' /\ Going'
  BY <1>1, <1>2, <1>5, <1>6 DEF Coming, Going
<1> QED
  BY <1>7, <1>8, <1>9, Goes, PTL
\* The bit that was read leads to a child, or there was none.
LEMMA WalkKeeps ==
    ASSUME IInv, Walk
    PROVE  IInv'
<1>0. PICK m, text, n, i : m = Consumed /\ text = PyOutput /\ n = node /\ i = BitsRead
  OBVIOUS
<1>1. /\ pc = "bit" /\ method = "squeezed" /\ UNCHANGED member /\ ReadBit
  BY DEF Walk, IInv, Well
<1>2. /\ method' = method /\ stream' = stream /\ tree' = tree /\ PyOutput' = text /\ Given'
      /\ Symbols' = Symbols /\ SymbolsFrom' = SymbolsFrom /\ PySymbols' = PySymbols
  BY <1>0, <1>1, SameMember DEF IInv, Well
<1>3. /\ Well /\ OutputOK /\ RleOK /\ Given /\ Len(tree) \in Nat /\ n \in Nat /\ n < Len(tree)
      /\ n \in 0 .. Len(tree) /\ n # Len(tree) /\ Len(stream) \in Nat
      /\ pos \in 0 .. Len(stream) /\ bits_left \in 0 .. ByteBits - 1
  BY <1>0, <1>1 DEF IInv, Well, Given
<1>4. /\ Symbols \in Seq(Bytes) /\ Symbols = PySymbols /\ Len(Symbols) \in Nat
  BY <1>1, <1>3, SymbolsOK DEF Symbols
<1>5. /\ RleState(m, text) /\ Place /\ Unread = SubSeq(Symbols, m + 1, Len(Symbols))
      /\ m = Len(Symbols) - Len(Unread) /\ m \in 0 .. Len(Symbols)
  BY <1>0, <1>1, <1>4 DEF IInv, Following, Going, Coming, Walking, Consumed, RleState
<1>6. Unread \in Seq(Bytes) /\ Unread = SymbolsStep(SymbolsFrom, i, n)
  BY <1>0, <1>1, <1>3, <1>5, UnreadIs
<1>7. /\ pos' \in 0 .. Len(stream') /\ bits_left' \in 0 .. ByteBits - 1
  <2>1. stream' = stream /\ ReadBit /\ bits_left \in Nat /\ bits_left < ByteBits /\ pos \in Nat
    BY <1>1, <1>2, <1>3, ByteFacts
  <2>2. pos' = pos \/ (pos < Len(stream) /\ pos' = pos + 1)
    BY <2>1 DEF ReadBit, InputAvail
  <2>3. bits_left' = ByteBits - 1 \/ (bits_left # 0 /\ bits_left' = bits_left - 1)
    BY <2>1 DEF ReadBit
  <2> QED
    BY <1>3, <2>1, <2>2, <2>3, ByteFacts
<1>8. ASSUME pc' = "end", UNCHANGED <<output, rle, node>>, Unread = <<>>
      PROVE  IInv'
  <2>1. m = Len(Symbols)
    <3>1. Len(Unread) = 0
      BY <1>8, EmptySeq
    <3>2. m = Len(Symbols) - Len(Unread) /\ Len(Symbols) \in Nat
      BY <1>4, <1>5
    <3> QED
      BY <3>1, <3>2
  <2>2. ok /\ text = file \o outbuf
    BY <1>1, <1>3, <1>5, <2>1, AllRead
  <2>3. OutputOK' /\ RleOK' /\ node' = node
    BY <1>3, <1>8 DEF OutputOK, RleOK, output, rle
  <2>4. Well'
    BY <1>0, <1>1, <1>2, <1>3, <1>7, <1>8, <2>3 DEF Well
  <2>5. (Well /\ pc = "end" /\ ok /\ PyOutput = file \o outbuf)'
    BY <1>2, <1>8, <2>2, <2>4 DEF output
  <2> QED
    BY <2>5, Ends, PTL
<1>9. CASE Short
  <2>1. i = AllBits
    BY <1>0, <1>3, <1>5, <1>9, BitsIn
  <2>2. Unread = <<>>
    BY <1>6, <2>1 DEF SymbolsStep
  <2>3. pc' = "end" /\ UNCHANGED <<output, rle, node>>
    BY <1>9 DEF Walk
  <2> QED
    BY <1>8, <2>2, <2>3
<1>10. CASE ~Short
  <2>1. /\ Bit = BitAt(i) /\ BitsRead' = i + 1 /\ Place' /\ i # AllBits /\ i \in 0 .. AllBits
    BY <1>0, <1>1, <1>2, <1>3, <1>5, <1>10, BitIs, BitsIn
  <2>2. PICK child, value : child = Child(n, i) /\ value = -(child + 1)
    OBVIOUS
  <2>3. /\ tree[node + 1][Bit] = child /\ -(tree[node + 1][Bit] + 1) = value
    BY <1>0, <2>1, <2>2 DEF Child
  <2>4. /\ i + 1 \in 0 .. AllBits /\ child \in Int
        /\ child < 0 /\ ~(value >= EndCode) => value \in Bytes
    BY <1>3, <2>1, <2>2, ChildTyped
  <2>5. ASSUME NEW k \in 0 .. Len(tree)
        PROVE  /\ SymbolsFrom[i + 1][k] \in Seq(Bytes)
               /\ k = Len(tree) => SymbolsFrom[i + 1][k] = <<>>
    <3>1. SymbolsFrom[i + 1][k] \in Seq(Bytes)
          /\ SymbolsFrom[i + 1][k] = SymbolsStep(SymbolsFrom, i + 1, k)
      BY <1>3, <2>4, SymbolsTyped
    <3> QED
      BY <3>1 DEF SymbolsStep
  <2>6. CASE child >= Len(tree) \/ (child < 0 /\ value >= EndCode)
    <3>1. pc' = "end" /\ UNCHANGED <<output, rle, node>>
      BY <1>3, <1>10, <2>3, <2>4, <2>6, ByteFacts DEF Walk, EndCode
    <3>2. Unread = <<>>
      <4>1. CASE child >= Len(tree)
        <5>1. Unread = SymbolsFrom[i + 1][Len(tree)] /\ Len(tree) \in 0 .. Len(tree)
          BY <1>3, <1>6, <2>1, <2>2, <2>4, <4>1 DEF SymbolsStep
        <5> QED
          BY <2>5, <5>1
      <4>2. CASE child < 0 /\ value >= EndCode
        BY <1>3, <1>6, <2>1, <2>2, <2>4, <4>2 DEF SymbolsStep
      <4> QED
        BY <2>6, <4>1, <4>2
    <3> QED
      BY <1>8, <3>1, <3>2
  <2>7. CASE child < 0 /\ value < EndCode
    <3>0. PICK rest : rest = SymbolsFrom[i + 1][0]
      OBVIOUS
    <3>1. RleByte(value) /\ node' = node
      BY <1>3, <1>10, <2>3, <2>4, <2>7, ByteFacts DEF Walk, EndCode
    <3>2. value \in Bytes /\ 0 \in 0 .. Len(tree) /\ rest \in Seq(Bytes)
      <4>1. ~(value >= EndCode) /\ 0 \in 0 .. Len(tree)
        BY <1>3, <2>2, <2>4, <2>7, ByteFacts DEF EndCode
      <4> QED
        BY <2>4, <2>5, <2>7, <3>0, <4>1
    <3>3. Unread = <<value>> \o rest
      <4>1. ~(value >= EndCode) /\ ~(child >= 0)
        BY <2>2, <2>4, <2>7, ByteFacts DEF EndCode
      <4> QED
        BY <1>3, <1>6, <2>1, <2>2, <3>0, <4>1 DEF SymbolsStep
    <3>4. Taken(Symbols, m, value, rest)
      BY <1>4, <1>5, <3>2, <3>3, TakeOne
    <3>5. /\ m < Len(Symbols) /\ Symbols[m + 1] = value
          /\ rest = SubSeq(Symbols, m + 2, Len(Symbols)) /\ Len(rest) = Len(Symbols) - (m + 1)
      BY <3>4 DEF Taken
    <3>6. RleDone(m + 1, text)'
      BY <1>1, <1>2, <1>3, <1>4, <1>5, <3>1, <3>5, RleByteKeeps
    <3>7. pc' \in {"symbol", "run", "closed"} /\ OutputOK' /\ RleOK'
          /\ (pc' = "run" => ~rle_active')
      BY <3>6 DEF RleDone
    <3>8. Well'
      BY <1>0, <1>1, <1>2, <1>3, <1>7, <3>1, <3>7 DEF Well
    <3>9. Unread' = rest
      BY <1>2, <2>1, <3>0, <3>7 DEF Unread
    <3>10. Consumed' = m + 1
      <4>1. Consumed' = Len(Symbols) - Len(rest)
        BY <1>1, <1>2, <1>4, <3>9 DEF Consumed
      <4>2. Len(Symbols) - (Len(Symbols) - (m + 1)) = m + 1
        BY <1>4, <1>5
      <4> QED
        BY <3>5, <4>1, <4>2
    <3>11. Walking'
      <4>1. m + 1 + 1 = m + 2
        BY <1>5
      <4> QED
        BY <1>2, <2>1, <3>5, <3>9, <3>10, <4>1 DEF Walking
    <3>12. method' # "stored"
      BY <1>1, <1>2
    <3> DEFINE next == m + 1
    <3>13. next = m + 1
      OBVIOUS
    <3> HIDE DEF next
    <3>14. RleDone(next, text)' /\ Consumed' = next
      BY <3>6, <3>10, <3>13
    <3> QED
      BY <1>2, <3>8, <3>11, <3>12, <3>14, Decoded
  <2>8. CASE child \in 0 .. Len(tree) - 1
    <3>1. node' = child /\ UNCHANGED <<output, rle, pc>> /\ pc' = "bit"
      BY <1>1, <1>3, <1>10, <2>3, <2>4, <2>8, ByteFacts DEF Walk, EndCode
    <3>2. Unread = SymbolsFrom[i + 1][child]
      BY <1>3, <1>6, <2>1, <2>2, <2>8 DEF SymbolsStep
    <3>3. Unread' = Unread
      BY <1>2, <2>1, <3>1, <3>2 DEF Unread
    <3>4. Consumed' = m
      BY <1>0, <1>1, <1>2, <3>3 DEF Consumed
    <3>5. RleState(m, text)'
      BY <1>1, <1>2, <1>5, <3>1, NotDecoding
    <3>6. Well'
      <4>1. OutputOK' /\ RleOK'
        BY <1>3, <3>1 DEF OutputOK, RleOK, output, rle
      <4>2. node' \in 0 .. Len(tree) /\ node' < Len(tree)
        BY <1>3, <2>8, <3>1
      <4> QED
        BY <1>1, <1>2, <1>3, <1>7, <3>1, <4>1, <4>2 DEF Well
    <3>7. Walking'
      BY <1>2, <1>5, <2>1, <3>3, <3>4 DEF Walking
    <3>8. Coming' /\ Going'
      BY <1>1, <1>2, <3>1, <3>4, <3>5 DEF Coming, Going
    <3> QED
      BY <3>6, <3>7, <3>8, Goes, PTL
  <2>9. \/ child >= Len(tree) \/ (child < 0 /\ value >= EndCode)
        \/ child < 0 /\ value < EndCode
        \/ child \in 0 .. Len(tree) - 1
    BY <1>3, <2>2, <2>4, ByteFacts DEF EndCode
  <2> QED
    BY <2>6, <2>7, <2>8, <2>9
<1> QED
  BY <1>9, <1>10
LEMMA RunGoesOn ==
    ASSUME IInv, Run
    PROVE  IInv'
<1>0. PICK m, text : m = Consumed /\ text = PyOutput
  OBVIOUS
<1>1. /\ pc = "run" /\ method # "stored" /\ ~rle_active /\ UNCHANGED member
      /\ UNCHANGED reading /\ rle_active' = rle_active
  BY DEF Run, IInv, Well
<1>2. /\ method' = method /\ stream' = stream /\ tree' = tree /\ PyOutput' = text /\ Given'
      /\ Symbols' = Symbols /\ SymbolsFrom' = SymbolsFrom /\ PySymbols' = PySymbols
  BY <1>0, <1>1, SameMember DEF IInv, Well
<1>3. /\ Well /\ OutputOK /\ RleOK /\ Given /\ Symbols \in Seq(Bytes)
      /\ pos' = pos /\ bits_left' = bits_left /\ node' = node
  BY <1>1, SymbolsOK DEF IInv, Well, reading
<1>4. RleState(m, text) /\ Walking
  BY <1>0, <1>1 DEF IInv, Following, Going, Coming
<1>5. RleDone(m, text)'
  BY <1>1, <1>2, <1>3, <1>4, RunKeeps
<1>6. /\ pc' \in {"symbol", "run", "closed"} /\ OutputOK' /\ RleOK'
      /\ pc' = "run" => ~rle_active'
  BY <1>5 DEF RleDone
<1>7. Well'
  BY <1>1, <1>2, <1>3, <1>6 DEF Well
<1>8. Unread' = Unread
  <2>1. BitsRead' = BitsRead
    BY <1>3 DEF BitsRead
  <2> QED
    BY <1>1, <1>2, <1>6, <2>1 DEF Unread
<1>9. Consumed' = m
  BY <1>0, <1>2, <1>3, <1>8 DEF Consumed
<1>10. Walking'
  BY <1>0, <1>2, <1>3, <1>4, <1>8, <1>9 DEF Walking, Place
<1> QED
  BY <1>1, <1>2, <1>5, <1>7, <1>9, <1>10, Decoded

LEMMA FinishKeeps ==
    ASSUME IInv, Finish
    PROVE  IInv'
<1>0. PICK m, text : m = Consumed /\ text = PyOutput
  OBVIOUS
<1>1. /\ pc = "symbol" /\ Over /\ pc' = "end" /\ UNCHANGED <<output, rle>>
      /\ UNCHANGED member /\ UNCHANGED reading
  BY DEF Finish
<1>2. /\ method' = method /\ stream' = stream /\ tree' = tree /\ PyOutput' = text /\ Given'
  BY <1>0, <1>1, SameMember DEF IInv, Well
<1>3. /\ Well /\ OutputOK /\ RleOK /\ Given /\ Len(stream) \in Nat /\ Len(tree) \in Nat
      /\ pos \in 0 .. Len(stream) /\ PySymbols \in Seq(Bytes) /\ Len(PySymbols) \in Nat
  BY SymbolsOK DEF IInv, Well, Given
<1>4. Coming /\ Walking
  BY <1>1 DEF IInv, Following, Going
<1>5. ok /\ text = file \o outbuf
  <2>1. CASE method = "stored"
    <3>1. pos = Len(stream)
      BY <1>1, <1>3, <2>1 DEF Over, InputAvail
    <3>2. SubSeq(stream, pos + 1, Len(stream)) = <<>>
      BY <1>3, <3>1, SubSeqEmpty
    <3>3. file \o outbuf \in Seq(Vals)
      BY <1>3, Together DEF OutputOK
    <3>4. (file \o outbuf) \o <<>> = file \o outbuf
      BY <3>3, ConcatEmptySeq
    <3> QED
      BY <1>0, <1>4, <2>1, <3>2, <3>4 DEF Coming
  <2>2. CASE method = "packed"
    <3>1. pos = Len(stream)
      BY <1>1, <1>3, <2>2 DEF Over, InputAvail
    <3>2. RleState(m, text) /\ m = Len(Symbols)
      BY <1>0, <1>4, <2>2, <3>1 DEF Coming, Consumed, Symbols
    <3> QED
      BY <1>1, <1>3, <3>2, AllRead
  <2>3. CASE method = "squeezed"
    <3>1. Place
      BY <1>4, <2>3 DEF Walking
    <3>2. Unread = SymbolsStep(SymbolsFrom, BitsRead, 0)
      BY <1>1, <1>3, <3>1, UnreadIs
    <3>3. Len(tree) = 0 \/ BitsRead = AllBits
      <4>1. CASE tree = <<>>
        BY <4>1, EmptySeq
      <4>2. CASE ~MoreBits
        BY <1>3, <3>1, <4>2, BitsIn
      <4> QED
        BY <1>1, <2>3, <4>1, <4>2 DEF Over
    <3>4. Unread = <<>>
      BY <1>3, <3>2, <3>3 DEF SymbolsStep
    <3>5. RleState(m, text) /\ m = Len(Symbols)
      BY <1>0, <1>3, <1>4, <2>3, <3>4, EmptySeq DEF Coming, Consumed, Symbols
    <3> QED
      BY <1>1, <1>3, <3>5, AllRead
  <2> QED
    BY <1>3, <2>1, <2>2, <2>3 DEF Well
<1>6. Well'
  <2>1. OutputOK' /\ RleOK' /\ pos' = pos /\ bits_left' = bits_left /\ node' = node
        /\ rle_active' = rle_active
    BY <1>1, <1>3 DEF OutputOK, RleOK, output, rle, reading
  <2> QED
    BY <1>1, <1>2, <1>3, <2>1 DEF Well
<1>7. (Well /\ pc = "end" /\ ok /\ PyOutput = file \o outbuf)'
  BY <1>1, <1>2, <1>5, <1>6 DEF output
<1> QED
  BY <1>7, Ends, PTL

LEMMA CloseKeeps ==
    ASSUME IInv, Close
    PROVE  IInv'
<1>0. PICK text, s : text = PyOutput /\ s = outbuf
  OBVIOUS
<1>1. /\ pc = "end" /\ Flushing(s) /\ pc' = "closed"
      /\ UNCHANGED member /\ UNCHANGED reading /\ UNCHANGED rle
  BY <1>0 DEF Close, FlushOutbuf
<1>2. /\ method' = method /\ stream' = stream /\ tree' = tree /\ PyOutput' = text /\ Given'
  BY <1>0, <1>1, SameMember DEF IInv, Well
<1>3. /\ Well /\ OutputOK /\ RleOK /\ text = file \o s
      /\ s \in Seq(Vals) /\ Len(s) <= OutSize /\ file \in Seq(Vals) /\ Len(file) % RecSize = 0
  BY <1>0, <1>1 DEF IInv, Well, OutputOK, Ended
<1>4. Flushed(s, text)
  <2>1. PICK rest : rest = <<>>
    OBVIOUS
  <2>2. rest \in Seq(Vals)
    BY <2>1, EmptySeq
  <2>3. (file \o s) \o rest = text
    <3>1. file \o s \in Seq(Vals)
      BY <1>3, Together
    <3>2. (file \o s) \o <<>> = file \o s
      BY <3>1, ConcatEmptySeq
    <3> QED
      BY <1>3, <2>1, <3>2
  <2>4. Flushed(s, (file \o s) \o rest)
    BY <1>1, <1>3, <2>2, FlushKeeps
  <2> QED
    BY <2>3, <2>4
<1>5. WholeOrRefused'
  <2>1. CASE ok' /\ file' = file \o Padded(s)
    <3>1. file \o Padded(s) = Padded(file \o s)
      BY <1>3, FilledRecords
    <3>2. file' = Padded(PyOutput')
      BY <1>2, <1>3, <2>1, <3>1
    <3> QED
      BY <2>1, <3>2 DEF WholeOrRefused
  <2>2. CASE ~ok' /\ IsPrefix(file', Padded(text))
    BY <1>2, <2>2 DEF WholeOrRefused
  <2> QED
    BY <1>4, <2>1, <2>2 DEF Flushed
<1>6. Well'
  <2>1. OutputOK' /\ RleOK' /\ pos' = pos /\ bits_left' = bits_left /\ node' = node
        /\ rle_active' = rle_active
    BY <1>1, <1>3, <1>4 DEF Flushed, RleOK, rle, reading
  <2> QED
    BY <1>1, <1>2, <1>3, <2>1 DEF Well
<1>7. (Well /\ pc = "closed" /\ WholeOrRefused)'
  BY <1>1, <1>5, <1>6
<1> QED
  BY <1>7, Closes, PTL
-----------------------------------------------------------------------------
LEMMA Stuttering ==
    ASSUME IInv, UNCHANGED vars
    PROVE  IInv'
<1>1. /\ UNCHANGED member /\ UNCHANGED <<output, rle>> /\ UNCHANGED reading
      /\ pc' = pc /\ outbuf' = outbuf /\ file' = file /\ ok' = ok
      /\ pos' = pos /\ bits_left' = bits_left /\ node' = node
      /\ rle_prev' = rle_prev /\ rle_active' = rle_active /\ cnt' = cnt
  BY DEF vars, member, output, reading, rle
<1>2. /\ method' = method /\ stream' = stream /\ tree' = tree /\ PyOutput' = PyOutput
      /\ Symbols' = Symbols /\ SymbolsFrom' = SymbolsFrom /\ PySymbols' = PySymbols /\ Given' = Given
  BY <1>1, SameMember
<1>3. Well'
  BY <1>1, <1>2 DEF IInv, Well, OutputOK, RleOK
<1>4. BitsRead' = BitsRead /\ Copies' = Copies /\ Place' = Place
  BY <1>1, <1>2 DEF BitsRead, Copies, Place
<1>5. Unread' = Unread
  BY <1>1, <1>2, <1>4 DEF Unread
<1>6. Consumed' = Consumed
  BY <1>1, <1>2, <1>5 DEF Consumed
<1>7. Going => Coming'
  BY <1>1, <1>2, <1>4, <1>6 DEF IInv, Following, Coming, RleState
<1>8. Going => Walking'
  BY <1>2, <1>4, <1>5, <1>6 DEF IInv, Following, Walking
<1>9. Following' /\ Ended' /\ WholeOrRefused'
  BY <1>1, <1>2, <1>7, <1>8 DEF IInv, Following, Going, Ended, WholeOrRefused
<1> QED
  BY <1>3, <1>9 DEF IInv

(* The invariant: what was put, and what the Python recursion gives from   *)
(* the symbol and the bit that come next, make up the Python output.       *)
THEOREM UnsqueezeInvariant == Spec => []IInv
<1>1. Init => IInv
  BY Starts
<1>2. IInv /\ [Next]_vars => IInv'
  <2> SUFFICES ASSUME IInv, [Next]_vars PROVE IInv'
    OBVIOUS
  <2> QED
    BY StoredKeeps, PackedKeeps, StartSymbolKeeps, WalkKeeps, RunGoesOn, FinishKeeps,
       CloseKeeps, Stuttering DEF Next, Step, Closed
<1> QED
  BY <1>1, <1>2, PTL DEF Spec

(* The types, and the bound of the buffer: it is never written past its    *)
(* end, however often the disk refuses it (putbyte, flush$outbuf).         *)
THEOREM UnsqueezeTypes == Spec => []TypeOK
<1>1. IInv => TypeOK
  BY DEF IInv, Well, OutputOK, RleOK, TypeOK
<1> QED
  BY <1>1, UnsqueezeInvariant, PTL

(* At every step that has not failed, what has been put is the beginning   *)
(* of what the Python tool makes of the same data.                         *)
THEOREM UnsqueezePrefix == Spec => []PrefixOfPython
<1>1. ASSUME IInv, ok PROVE IsPrefix(file \o outbuf, PyOutput) \/ file = Padded(PyOutput)
  <2>1. Well /\ file \o outbuf \in Seq(Vals)
    BY <1>1, Together DEF IInv, Well, OutputOK
  <2>2. CASE Going
    <3>1. ASSUME NEW rest \in Seq(Vals), PyOutput = (file \o outbuf) \o rest
          PROVE  IsPrefix(file \o outbuf, PyOutput)
      <4> DEFINE put == file \o outbuf
      <4>1. put \in Seq(Vals) /\ PyOutput = put \o rest
        BY <2>1, <3>1
      <4> HIDE DEF put
      <4>2. IsPrefix(put, put \o rest)
        BY <4>1, Begins
      <4> QED
        BY <4>1, <4>2 DEF put
    <3>2. Coming
      BY <1>1, <2>2 DEF IInv, Following
    <3>3. CASE method = "stored"
      <4>1. stream \in Seq(Bytes) /\ Len(stream) \in Nat /\ pos \in Nat /\ Bytes \subseteq Vals
        BY <2>1 DEF Well, Given, Vals
      <4>2. \A i \in pos + 1 .. Len(stream) : stream[i] \in Vals
        BY <4>1
      <4>3. SubSeq(stream, pos + 1, Len(stream)) \in Seq(Vals)
        BY <4>1, <4>2, SubSeqProperties
      <4> QED
        BY <3>1, <3>2, <3>3, <4>3 DEF Coming
    <3>4. CASE method # "stored"
      <4>1. RleState(Consumed, PyOutput) /\ RleOK
        BY <2>1, <3>2, <3>4 DEF Coming, Well
      <4>2. PICK i : i = IF rle_active THEN Consumed ELSE Consumed + 1
        OBVIOUS
      <4>3. Symbols \in Seq(Bytes) /\ i \in 1 .. Len(Symbols) + 1
        BY <2>1, <4>1, <4>2, SymbolsOK DEF Well, RleState
      <4>4. RleFrom(Symbols)[i][rle_prev] \in Seq(Vals)
        BY <4>1, <4>3, RleIs DEF RleOK
      <4>5. Copies \in Seq(Vals)
        <5>1. rle_prev \in Vals /\ cnt \in Nat /\ <<>> \in Seq(Vals)
          BY <4>1, EmptySeq, ByteFacts DEF RleOK, Vals
        <5>2. [n \in 1 .. cnt |-> rle_prev] \in Seq(Vals)
          BY <5>1, RepeatIs
        <5> QED
          BY <5>1, <5>2 DEF Copies
      <4>6. Copies \o RleFrom(Symbols)[i][rle_prev] \in Seq(Vals)
        BY <4>4, <4>5, Together
      <4>7. PyOutput = (file \o outbuf) \o (Copies \o RleFrom(Symbols)[i][rle_prev])
        BY <4>1, <4>2 DEF RleState
      <4> QED
        BY <3>1, <4>6, <4>7
    <3> QED
      BY <3>3, <3>4
  <2>3. CASE pc = "end"
    <3>1. PyOutput = file \o outbuf
      BY <1>1, <2>3 DEF IInv, Ended
    <3>2. <<>> \in Seq(Vals) /\ (file \o outbuf) \o <<>> = file \o outbuf
      BY <2>1, EmptySeq, ConcatEmptySeq
    <3>3. IsPrefix(file \o outbuf, (file \o outbuf) \o <<>>)
      <4> DEFINE put == file \o outbuf
      <4>1. put \in Seq(Vals)
        BY <2>1
      <4> HIDE DEF put
      <4>2. IsPrefix(put, put \o <<>>)
        BY <3>2, <4>1, Begins
      <4> QED
        BY <4>2 DEF put
    <3> QED
      BY <3>1, <3>2, <3>3
  <2>4. CASE pc = "closed"
    BY <1>1, <2>4 DEF IInv, WholeOrRefused
  <2> QED
    BY <2>1, <2>2, <2>3, <2>4 DEF Well, Going
<1>2. IInv => PrefixOfPython
  BY <1>1 DEF PrefixOfPython
<1> QED
  BY <1>2, UnsqueezeInvariant, PTL

(* A file said to be OK is all of the Python output and its padding; one   *)
(* that is not is the beginning of it.                                     *)
THEOREM UnsqueezeWhole == Spec => []WholeOrRefused
<1>1. IInv => WholeOrRefused
  BY DEF IInv
<1> QED
  BY <1>1, UnsqueezeInvariant, PTL
==============================================================================
