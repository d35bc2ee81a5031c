------------------------- MODULE Extraction_proofs --------------------------
(***************************************************************************)
(* No file either program makes is made over another one, or over the      *)
(* archive while it is read, and 80un's exit status can be believed: for   *)
(* every alphabet, every length of a name and of the table, and every      *)
(* directory and archive.                                                  *)
(*                                                                         *)
(* The invariant has two halves that share nothing but the step.  CpmInv   *)
(* ties the table of 80un.com to the members made: as long as it has room  *)
(* it holds every one of them.  RunInv ties the directory to the results   *)
(* written so far: what was there before, and each result of the name it   *)
(* was given.  Both rest on what numbering does to names: the digits of    *)
(* two numbers are two, so are the names that end in them, and among more  *)
(* candidates than names taken one is free.  That comes first.             *)
(***************************************************************************)
EXTENDS Extraction, FiniteSetTheorems, SequenceTheorems, WellFoundedInduction, TLAPS

LEMMA LeastOf ==
    ASSUME NEW S, S \subseteq Nat, S # {}
    PROVE  \E m \in S : \A n \in S : m <= n
<1>1. PICK m \in S : \A n \in S : ~(<<n, m>> \in OpToRel(<, Nat))
  BY NatLessThanWellFounded, WFMin, Zenon
<1>2. \A n \in S : ~(n < m)
  BY <1>1 DEF OpToRel
<1> QED
  BY <1>2

LEMMA MinOf ==
    ASSUME NEW S, S \subseteq Nat, S # {}
    PROVE  Min(S) \in S /\ \A n \in S : Min(S) <= n
BY LeastOf DEF Min

LEMMA MaxOf ==
    ASSUME NEW S, S \subseteq Nat, S # {}, NEW top \in Nat, \A n \in S : n <= top
    PROVE  Max(S) \in S /\ \A n \in S : n <= Max(S)
<1> DEFINE Below == {top - n : n \in S}
<1>1. Below \subseteq Nat /\ Below # {}
  <2>1. \A n \in S : top - n \in Nat
    OBVIOUS
  <2>2. PICK n \in S : TRUE
    OBVIOUS
  <2> QED
    BY <2>1, <2>2
<1>2. PICK b \in Below : \A c \in Below : b <= c
  BY <1>1, LeastOf, Zenon
<1>3. PICK m \in S : b = top - m
  OBVIOUS
<1>4. \A n \in S : m >= n
  <2> TAKE n \in S
  <2>1. top - n \in Below
    OBVIOUS
  <2> QED
    BY <1>2, <1>3, <2>1
<1> QED
  BY <1>3, <1>4 DEF Max
-----------------------------------------------------------------------------
LEMMA Quotient ==
    ASSUME NEW b \in Nat, b >= 2, NEW k \in Nat
    PROVE  /\ k \div b \in Nat /\ k % b \in 0 .. b - 1
           /\ k = (b * (k \div b)) + (k % b)
           /\ k >= b => k \div b < k
BY SMT

\* What Digits[k] is made from, for any function that gives the digits of less.
DigitsFrom(g, k) == IF k < Base THEN <<Digit[k + 1]>>
                    ELSE Append(g[k \div Base], Digit[(k % Base) + 1])
UpTo(g, n) == g = [k \in 0 .. n |-> DigitsFrom(g, k)]

LEMMA BaseIsNat == Base \in Nat /\ Base >= 2 /\ Base <= 10
BY SuffixAssumption

LEMMA BaseQuotient ==
    \A k \in Nat : /\ k \div Base \in Nat /\ k % Base \in 0 .. Base - 1
                   /\ k = (Base * (k \div Base)) + (k % Base)
                   /\ ~(k < Base) => k \div Base < k
<1> TAKE k \in Nat
<1>1. Base \in Nat /\ Base >= 2
  BY BaseIsNat
<1>2. /\ k \div Base \in Nat /\ k % Base \in 0 .. Base - 1
      /\ k = (Base * (k \div Base)) + (k % Base)
      /\ k >= Base => k \div Base < k
  BY <1>1, Quotient
<1> QED
  BY <1>1, <1>2

LEMMA DigitsFromBelow == \A g : \A k \in Nat : k < Base => DigitsFrom(g, k) = <<Digit[k + 1]>>
BY DEF DigitsFrom

LEMMA DigitsFromAbove ==
    \A g : \A k \in Nat :
      ~(k < Base) => DigitsFrom(g, k) = Append(g[k \div Base], Digit[(k % Base) + 1])
BY DEF DigitsFrom

LEMMA OneUpTo ==
    ASSUME NEW m \in Nat, NEW n \in Nat, NEW g, UpTo(g, m), NEW h, UpTo(h, n)
    PROVE  \A k \in 0 .. m : k <= n => g[k] = h[k]
<1> DEFINE Bad == {k \in 0 .. m : k <= n /\ g[k] # h[k]}
<1>1. SUFFICES ASSUME Bad # {} PROVE FALSE
  OBVIOUS
<1>2. PICK k \in Bad : \A j \in Bad : k <= j
  <2>1. Bad \subseteq Nat
    OBVIOUS
  <2> HIDE DEF Bad
  <2> QED
    BY <1>1, <2>1, LeastOf
<1>3. k \in Nat /\ k \in 0 .. m /\ k \in 0 .. n
  BY <1>2
<1>4. g[k] = DigitsFrom(g, k) /\ h[k] = DigitsFrom(h, k)
  BY <1>3 DEF UpTo
<1>5. CASE k < Base
  BY <1>2, <1>4, <1>5 DEF DigitsFrom
<1>6. CASE k >= Base
  <2>1. k \div Base \in Nat /\ k \div Base < k
    BY <1>3, <1>6, BaseIsNat, Quotient
  <2>2. g[k \div Base] = h[k \div Base]
    BY <1>2, <1>3, <2>1
  <2> QED
    BY <1>2, <1>3, <1>4, <1>6, <2>2, BaseIsNat DEF DigitsFrom
<1> QED
  BY <1>3, <1>5, <1>6, BaseIsNat

LEMMA AnyUpTo == \A n \in Nat : \E g : UpTo(g, n)
<1> DEFINE Bad == {n \in Nat : ~\E g : UpTo(g, n)}
<1>1. SUFFICES ASSUME Bad # {} PROVE FALSE
  OBVIOUS
<1>2. PICK n \in Bad : \A j \in Bad : n <= j
  BY <1>1, LeastOf
<1>3. CASE n = 0
  <2> DEFINE g == [k \in 0 .. 0 |-> <<Digit[k + 1]>>]
  <2>1. UpTo(g, 0)
    BY BaseIsNat DEF UpTo, DigitsFrom
  <2> QED
    BY <1>2, <1>3, <2>1
<1>4. CASE n > 0
  <2>1. PICK g : UpTo(g, n - 1)
    BY <1>2, <1>4
  <2> DEFINE h == [k \in 0 .. n |-> IF k = n THEN DigitsFrom(g, n) ELSE g[k]]
  <2>2. ASSUME NEW k \in 0 .. n
        PROVE  h[k] = DigitsFrom(h, k)
    <3>1. k < n => g[k] = DigitsFrom(g, k)
      BY <1>2, <2>1, <2>2 DEF UpTo
    <3>2. h[k] = DigitsFrom(g, k)
      BY <1>2, <3>1
    <3>3. CASE k < Base
      BY <3>2, <3>3 DEF DigitsFrom
    <3>4. CASE k >= Base
      <4>1. k \div Base \in 0 .. n /\ k \div Base < n
        BY <1>2, <3>4, BaseIsNat, Quotient
      <4>2. h[k \div Base] = g[k \div Base]
        BY <4>1
      <4>3. ~(k < Base)
        BY <1>2, <3>4, BaseIsNat
      <4> QED
        BY <3>2, <4>2, <4>3 DEF DigitsFrom
    <3> QED
      BY <1>2, <3>3, <3>4, BaseIsNat
  <2>3. h = [k \in 0 .. n |-> DigitsFrom(h, k)]
    BY <2>2
  <2>4. UpTo(h, n)
    BY <2>3 DEF UpTo
  <2> QED
    BY <1>2, <2>4
<1> QED
  BY <1>2, <1>3, <1>4

\* There is such a function, so what the recursion says of Digits is so.
LEMMA DigitsRecursion == \A k \in Nat : Digits[k] = DigitsFrom(Digits, k)
<1> DEFINE upTo(n) == CHOOSE g : UpTo(g, n)
           f == [k \in Nat |-> upTo(k)[k]]
<1>1. \A n \in Nat : UpTo(upTo(n), n)
  BY AnyUpTo, Zenon
<1>2. ASSUME NEW k \in Nat
      PROVE  f[k] = DigitsFrom(f, k)
  <2>1. k \in 0 .. k
    OBVIOUS
  <2>2. UpTo(upTo(k), k)
    BY <1>1
  <2>3. upTo(k)[k] = DigitsFrom(upTo(k), k)
    BY <2>1, <2>2 DEF UpTo
  <2>4. f[k] = upTo(k)[k]
    OBVIOUS
  <2>5. CASE k < Base
    BY <2>3, <2>4, <2>5 DEF DigitsFrom
  <2>6. CASE ~(k < Base)
    <3> DEFINE q == k \div Base
    <3>1. q \in Nat /\ q < k /\ q \in 0 .. k /\ q <= q
      BY <2>6, BaseIsNat, Quotient
    <3>2. upTo(q)[q] = upTo(k)[q]
      <4>1. UpTo(upTo(q), q)
        BY <1>1, <3>1
      <4>2. q \in 0 .. q /\ q <= k
        BY <3>1
      <4> HIDE DEF upTo, q
      <4> QED
        BY <2>2, <3>1, <4>1, <4>2, OneUpTo
    <3>3. f[q] = upTo(k)[q]
      BY <3>1, <3>2
    <3>4. DigitsFrom(upTo(k), k) = Append(upTo(k)[q], Digit[(k % Base) + 1])
      BY <2>6 DEF DigitsFrom
    <3>5. DigitsFrom(f, k) = Append(f[q], Digit[(k % Base) + 1])
      BY <2>6 DEF DigitsFrom
    <3> HIDE DEF f, upTo, q
    <3> QED
      BY <2>3, <2>4, <3>3, <3>4, <3>5
  <2> QED
    BY <2>5, <2>6
<1>3. f = [k \in Nat |-> DigitsFrom(f, k)]
  BY <1>2
<1> HIDE DEF f
<1>4. \E g : g = [k \in Nat |-> IF k < Base THEN <<Digit[k + 1]>>
                                ELSE Append(g[k \div Base], Digit[(k % Base) + 1])]
  BY <1>3 DEF DigitsFrom
<1>5. Digits = [k \in Nat |-> IF k < Base THEN <<Digit[k + 1]>>
                              ELSE Append(Digits[k \div Base], Digit[(k % Base) + 1])]
  BY <1>4 DEF Digits
<1> QED
  BY <1>5 DEF DigitsFrom
-----------------------------------------------------------------------------
Figures == {Digit[i] : i \in 1 .. Base}

LEMMA FigureFacts ==
    /\ \A i \in 1 .. 10 : Digit[i] # "-" /\ Digit[i] # "."
    /\ \A i, j \in 1 .. 10 : Digit[i] = Digit[j] => i = j
    /\ Figures \subseteq Chars /\ "-" \notin Figures /\ "." \notin Figures
    /\ \A c \in Figures : Fold[c] = c
<1>1. /\ Digit[1] = "0" /\ Digit[2] = "1" /\ Digit[3] = "2" /\ Digit[4] = "3" /\ Digit[5] = "4"
      /\ Digit[6] = "5" /\ Digit[7] = "6" /\ Digit[8] = "7" /\ Digit[9] = "8" /\ Digit[10] = "9"
  BY DEF Digit
<1>2. \A i \in 1 .. 10 : i \in {1, 2, 3, 4, 5, 6, 7, 8, 9, 10}
  BY SMT
<1>3. \A i \in 1 .. 10 : Digit[i] # "-" /\ Digit[i] # "."
  BY <1>1, <1>2
<1>4. \A i, j \in 1 .. 10 : Digit[i] = Digit[j] => i = j
  BY <1>1, <1>2
<1>5. 1 .. Base \subseteq 1 .. 10
  BY BaseIsNat
<1>6. \A c \in Figures : \E i \in 1 .. 10 : i \in 1 .. Base /\ c = Digit[i]
  BY <1>5 DEF Figures
<1>7. /\ \A i \in 1 .. Base : Digit[i] \in Chars /\ Fold[Digit[i]] = Digit[i]
  BY CharAssumption
<1>8. Figures \subseteq Chars /\ "-" \notin Figures /\ "." \notin Figures
  BY <1>3, <1>6, <1>7
<1>9. \A c \in Figures : Fold[c] = c
  BY <1>6, <1>7
<1> QED
  BY <1>3, <1>4, <1>8, <1>9

LEMMA DigitsType == \A k \in Nat : Digits[k] \in Seq(Figures) /\ Len(Digits[k]) >= 1
<1> DEFINE Bad == {k \in Nat : ~(Digits[k] \in Seq(Figures) /\ Len(Digits[k]) >= 1)}
<1>1. SUFFICES ASSUME Bad # {} PROVE FALSE
  OBVIOUS
<1>2. PICK k \in Bad : \A j \in Bad : k <= j
  <2>1. Bad \subseteq Nat
    OBVIOUS
  <2> HIDE DEF Bad
  <2> QED
    BY <1>1, <2>1, LeastOf
<1>3. Digits[k] = DigitsFrom(Digits, k) /\ k \in Nat
  BY <1>2, DigitsRecursion
<1>6. ~(Digits[k] \in Seq(Figures) /\ Len(Digits[k]) >= 1)
  BY <1>2
<1>4. CASE k < Base
  <2>1. Digit[k + 1] \in Figures
    BY <1>3, <1>4, BaseIsNat DEF Figures
  <2>2. Digits[k] = <<Digit[k + 1]>>
    BY <1>3, <1>4, DigitsFromBelow
  <2>3. \A c \in Figures : <<c>> \in Seq(Figures) /\ Len(<<c>>) >= 1
    OBVIOUS
  <2> QED
    BY <1>6, <2>1, <2>2, <2>3, Zenon
<1>5. CASE ~(k < Base)
  <2> DEFINE q == k \div Base
             c == Digit[(k % Base) + 1]
  <2>1. q \in Nat /\ q < k /\ k % Base \in 0 .. Base - 1
    BY <1>3, <1>5, BaseQuotient
  <2>2. c \in Figures
    BY <2>1, BaseIsNat DEF Figures
  <2>3. Digits[q] \in Seq(Figures) /\ Len(Digits[q]) >= 1
    BY <1>2, <1>3, <2>1
  <2>4. Digits[k] = Append(Digits[q], c)
    BY <1>3, <1>5, DigitsFromAbove
  <2> HIDE DEF c, q
  <2>5. Digits[k] \in Seq(Figures) /\ Len(Digits[k]) = Len(Digits[q]) + 1 /\ Len(Digits[q]) \in Nat
    BY <2>2, <2>3, <2>4
  <2> QED
    BY <1>2, <2>3, <2>5
<1> QED
  BY <1>4, <1>5

LEMMA AppendApart ==
    ASSUME NEW S, NEW s \in Seq(S), NEW t \in Seq(S), NEW c \in S, NEW d \in S,
           Append(s, c) = Append(t, d)
    PROVE  s = t /\ c = d
<1>1. /\ Len(Append(s, c)) = Len(s) + 1 /\ Append(s, c)[Len(s) + 1] = c
      /\ \A i \in 1 .. Len(s) : Append(s, c)[i] = s[i]
      /\ Len(Append(t, d)) = Len(t) + 1 /\ Append(t, d)[Len(t) + 1] = d
      /\ \A i \in 1 .. Len(t) : Append(t, d)[i] = t[i]
      /\ Len(s) \in Nat /\ Len(t) \in Nat
  OBVIOUS
<1>2. Len(s) = Len(t)
  BY <1>1
<1> QED
  BY <1>1, <1>2, SeqEqual

\* Two numbers are written as two.
LEMMA DigitsApart == \A j, k \in Nat : Digits[j] = Digits[k] => j = k
<1> DEFINE Bad == {j \in Nat : \E k \in Nat : Digits[j] = Digits[k] /\ j # k}
<1>1. SUFFICES ASSUME Bad # {} PROVE FALSE
  OBVIOUS
<1>2. PICK j \in Bad : \A i \in Bad : j <= i
  <2>1. Bad \subseteq Nat
    OBVIOUS
  <2> HIDE DEF Bad
  <2> QED
    BY <1>1, <2>1, LeastOf
<1>3. PICK k \in Nat : Digits[j] = Digits[k] /\ j # k
  BY <1>2
<1>4. j \in Nat /\ k \in Nat
  BY <1>2
<1>5. /\ Digits[j] = DigitsFrom(Digits, j) /\ Digits[k] = DigitsFrom(Digits, k)
      /\ Digits[j \div Base] \in Seq(Figures) /\ Len(Digits[j \div Base]) >= 1
      /\ Digits[k \div Base] \in Seq(Figures) /\ Len(Digits[k \div Base]) >= 1
  BY <1>4, DigitsRecursion, DigitsType, BaseQuotient
<1>6. /\ j \div Base \in Nat /\ j % Base \in 0 .. Base - 1
      /\ j = (Base * (j \div Base)) + (j % Base) /\ (~(j < Base) => j \div Base < j)
      /\ k \div Base \in Nat /\ k % Base \in 0 .. Base - 1
      /\ k = (Base * (k \div Base)) + (k % Base)
  BY <1>4, BaseQuotient
<1>7. /\ \A n \in Nat : n < Base => n + 1 \in 1 .. 10
      /\ (j % Base) + 1 \in 1 .. 10 /\ (k % Base) + 1 \in 1 .. 10
  BY <1>6, BaseIsNat
<1>8. \A n \in Nat : n < Base => ~(Len(DigitsFrom(Digits, n)) > 1)
  <2> TAKE n \in Nat
  <2> HAVE n < Base
  <2>1. Len(DigitsFrom(Digits, n)) = 1
    BY DigitsFromBelow
  <2> QED
    BY <2>1
<1>9. \A n \in Nat : ~(n < Base) => Len(DigitsFrom(Digits, n)) > 1
  <2> TAKE n \in Nat
  <2> HAVE ~(n < Base)
  <2>1. /\ Digits[n \div Base] \in Seq(Figures) /\ Len(Digits[n \div Base]) >= 1
        /\ DigitsFrom(Digits, n) = Append(Digits[n \div Base], Digit[(n % Base) + 1])
    BY DigitsType, BaseQuotient, DigitsFromAbove
  <2>2. Len(DigitsFrom(Digits, n)) = Len(Digits[n \div Base]) + 1 /\ Len(Digits[n \div Base]) \in Nat
    BY <2>1
  <2> QED
    BY <2>1, <2>2
<1>12. j < Base <=> k < Base
  <2>1. DigitsFrom(Digits, j) = DigitsFrom(Digits, k)
    BY <1>3, <1>5
  <2>2. \A n \in Nat : n < Base <=> ~(Len(DigitsFrom(Digits, n)) > 1)
    BY <1>8, <1>9, Zenon
  <2> QED
    BY <1>4, <2>1, <2>2
<1>10. CASE j < Base
  <2>1. k < Base
    BY <1>10, <1>12
  <2>2. Digit[j + 1] = Digit[k + 1]
    <3>1. <<Digit[j + 1]>> = <<Digit[k + 1]>>
      BY <1>3, <1>4, <1>5, <1>10, <2>1, DigitsFromBelow
    <3> QED
      BY <3>1
  <2>3. j + 1 = k + 1
    BY <1>4, <1>7, <1>10, <2>1, <2>2, FigureFacts
  <2> QED
    BY <1>3, <1>4, <2>3
<1>11. CASE ~(j < Base)
  <2>1. ~(k < Base)
    BY <1>11, <1>12
  <2>2. Append(Digits[j \div Base], Digit[(j % Base) + 1])
          = Append(Digits[k \div Base], Digit[(k % Base) + 1])
    BY <1>3, <1>4, <1>5, <1>11, <2>1, DigitsFromAbove
  <2>3. Digit[(j % Base) + 1] \in Figures /\ Digit[(k % Base) + 1] \in Figures
    BY <1>6, BaseIsNat DEF Figures
  <2>4. /\ Digits[j \div Base] = Digits[k \div Base]
        /\ Digit[(j % Base) + 1] = Digit[(k % Base) + 1]
    <3> DEFINE s == Digits[j \div Base]
               t == Digits[k \div Base]
               c == Digit[(j % Base) + 1]
               d == Digit[(k % Base) + 1]
    <3>1. /\ s \in Seq(Figures) /\ t \in Seq(Figures) /\ c \in Figures /\ d \in Figures
          /\ Append(s, c) = Append(t, d)
      BY <1>5, <2>2, <2>3
    <3> HIDE DEF s, t, c, d
    <3>2. s = t /\ c = d
      BY <3>1, AppendApart
    <3> QED
      BY <3>2 DEF s, t, c, d
  <2>5. (j % Base) + 1 = (k % Base) + 1
    BY <1>7, <2>4, FigureFacts
  <2>6. j \div Base = k \div Base
    BY <1>2, <1>6, <1>11, <2>4
  <2> QED
    BY <1>3, <1>6, <2>5, <2>6
<1> QED
  BY <1>10, <1>11
-----------------------------------------------------------------------------
LEMMA OneOf == ASSUME NEW S, NEW x \in S PROVE <<x>> \in Seq(S) /\ Len(<<x>>) = 1 /\ <<x>>[1] = x
OBVIOUS

LEMMA NoneOf == ASSUME NEW S PROVE <<>> \in Seq(S) /\ Len(<<>>) = 0
OBVIOUS

LEMMA PartOf ==
    ASSUME NEW S, NEW s \in Seq(S), NEW a \in Nat, a >= 1, NEW b \in Int, b <= Len(s)
    PROVE  /\ SubSeq(s, a, b) \in Seq(S)
           /\ Len(SubSeq(s, a, b)) = IF a <= b THEN b - a + 1 ELSE 0
           /\ \A i \in 1 .. b - a + 1 : SubSeq(s, a, b)[i] = s[a + i - 1]
<1>1. \A i \in a .. b : s[i] \in S
  OBVIOUS
<1> QED
  BY <1>1, SubSeqProperties

LEMMA MapKeepsLength ==
    ASSUME NEW B, NEW f \in [Chars -> B], NEW s \in Seq(Chars)
    PROVE  /\ MapChars(f, s) \in Seq(B) /\ Len(MapChars(f, s)) = Len(s)
           /\ \A i \in 1 .. Len(s) : MapChars(f, s)[i] = f[s[i]]
<1>1. MapChars(f, s) = [i \in 1 .. Len(s) |-> f[s[i]]] /\ Len(s) \in Nat
  BY DEF MapChars
<1>2. \A i \in 1 .. Len(s) : f[s[i]] \in B
  OBVIOUS
<1>3. MapChars(f, s) \in [1 .. Len(s) -> B]
  BY <1>1, <1>2
<1> QED
  BY <1>1, <1>3

LEMMA CutFits ==
    ASSUME NEW S, NEW s \in Seq(S), NEW n \in Int
    PROVE  /\ Cut(s, n) \in Seq(S) /\ Len(Cut(s, n)) \in 0 .. Len(s)
           /\ n >= 0 => Len(Cut(s, n)) <= n
           /\ n >= 1 /\ s # <<>> => Len(Cut(s, n)) >= 1
<1> DEFINE b == IF Len(s) < n THEN Len(s) ELSE n
<1>1. b \in Int /\ b <= Len(s) /\ b <= n /\ Len(s) \in Nat
  OBVIOUS
<1>2. /\ SubSeq(s, 1, b) \in Seq(S)
      /\ Len(SubSeq(s, 1, b)) = IF 1 <= b THEN b - 1 + 1 ELSE 0
  <2> HIDE DEF b
  <2> QED
    BY <1>1, PartOf
<1>3. n >= 1 /\ s # <<>> => b >= 1
  BY <1>1
<1> HIDE DEF b
<1>4. Cut(s, n) = SubSeq(s, 1, b)
  BY DEF Cut, b
<1> QED
  BY <1>1, <1>2, <1>3, <1>4

LEMMA KeptIn ==
    ASSUME NEW S, NEW s \in Seq(S), NEW bad, Kept(s, bad) # {}
    PROVE  /\ Kept(s, bad) \subseteq 1 .. Len(s)
           /\ Max(Kept(s, bad)) \in 1 .. Len(s) /\ Min(Kept(s, bad)) \in 1 .. Len(s)
<1>1. Kept(s, bad) \subseteq 1 .. Len(s) /\ Len(s) \in Nat
  BY DEF Kept
<1>2. Kept(s, bad) \subseteq Nat /\ \A n \in Kept(s, bad) : n <= Len(s)
  BY <1>1
<1> QED
  BY <1>1, <1>2, MinOf, MaxOf

LEMMA StripKeeps ==
    ASSUME NEW S, NEW s \in Seq(S), NEW bad
    PROVE  Strip(s) \in Seq(S) /\ RStrip(s, bad) \in Seq(S)
<1>1. ASSUME NEW b, Kept(s, b) # {}, NEW a \in 1 .. Len(s)
      PROVE  SubSeq(s, a, Max(Kept(s, b))) \in Seq(S)
  <2>1. Max(Kept(s, b)) \in 1 .. Len(s)
    BY <1>1, KeptIn
  <2> QED
    BY <2>1, PartOf
<1>2. Strip(s) \in Seq(S)
  <2>1. CASE Kept(s, {" "}) = {}
    BY <2>1, NoneOf DEF Strip
  <2>2. CASE Kept(s, {" "}) # {}
    <3>1. Min(Kept(s, {" "})) \in 1 .. Len(s)
      BY <2>2, KeptIn
    <3> QED
      BY <1>1, <2>2, <3>1 DEF Strip
  <2> QED
    BY <2>1, <2>2
<1>3. RStrip(s, bad) \in Seq(S)
  <2>1. CASE Kept(s, bad) = {}
    BY <2>1, NoneOf DEF RStrip
  <2>2. CASE Kept(s, bad) # {}
    <3>1. 1 \in 1 .. Len(s)
      BY <2>2, KeptIn
    <3> QED
      BY <1>1, <2>2, <3>1 DEF RStrip
  <2> QED
    BY <2>1, <2>2
<1> QED
  BY <1>2, <1>3

LEMMA LastDotIn == ASSUME NEW S, NEW s \in Seq(S) PROVE LastDot(s) \in 0 .. Len(s)
<1> DEFINE D == {0} \union {i \in DOMAIN s : s[i] = "."}
<1>1. D \subseteq Nat /\ D # {} /\ Len(s) \in Nat /\ \A n \in D : n <= Len(s)
  OBVIOUS
<1>2. Max(D) \in D
  <2> HIDE DEF D
  <2> QED
    BY <1>1, MaxOf
<1> QED
  BY <1>1, <1>2 DEF LastDot
-----------------------------------------------------------------------------
\* The names cpm$name can put in an FCB.
CpmChars == Chars \ {"."}
Fcbs == {n \in [name : Seq(CpmChars), type : Seq(CpmChars)] :
           Len(n.name) \in 1 .. NameLen /\ Len(n.type) <= TypeLen}

LEMMA Lengths == /\ NameLen \in Nat /\ TypeLen \in Nat /\ MaxSuffix \in Nat /\ MaxMembers \in Nat
                 /\ TableCap \in Nat /\ TableCap < MaxSuffix /\ TableCap >= 1 /\ NameLen > 2
<1>1. /\ NameLen \in Nat /\ TypeLen \in Nat /\ MaxSuffix \in Nat /\ MaxMembers \in Nat
      /\ TableCap \in 1 .. MaxSuffix - 1
  BY LengthAssumption, SuffixAssumption
<1>2. 0 \in Nat /\ 0 \in 0 .. MaxSuffix /\ Len(Digits[0]) + 1 < NameLen
  <2>1. 0 \in Nat /\ 0 \in 0 .. MaxSuffix
    BY <1>1
  <2>2. \A k \in 0 .. MaxSuffix : Len(Digits[k]) + 1 < NameLen
    BY CharAssumption
  <2> QED
    BY <2>1, <2>2
<1>3. Digits[0] \in Seq(Figures) /\ Len(Digits[0]) >= 1
  BY <1>2, DigitsType
<1>4. Len(Digits[0]) \in Nat
  BY <1>3
<1> QED
  BY <1>1, <1>2, <1>3, <1>4

LEMMA FcbNameFits == ASSUME NEW stored \in Seq(Chars) PROVE FcbName(stored) \in Fcbs
<1> DEFINE s == Strip(stored)
           dot == IF LastDot(s) = 0 THEN Len(s) + 1 ELSE LastDot(s)
           name == Cut(SubSeq(s, 1, dot - 1), NameLen)
           type == Cut(SubSeq(s, dot + 1, Len(s)), TypeLen)
<1>1. s \in Seq(Chars)
  BY StripKeeps
<1>2. dot \in Nat /\ dot >= 1 /\ dot <= Len(s) + 1 /\ Len(s) \in Nat
  <2>1. LastDot(s) \in 0 .. Len(s)
    BY <1>1, LastDotIn
  <2> HIDE DEF s
  <2> QED
    BY <1>1, <2>1
<1> HIDE DEF s, dot
<1>3. SubSeq(s, 1, dot - 1) \in Seq(Chars) /\ SubSeq(s, dot + 1, Len(s)) \in Seq(Chars)
  BY <1>1, <1>2, PartOf
<1>4. /\ name \in Seq(Chars) /\ Len(name) <= NameLen /\ Len(name) \in Nat
      /\ type \in Seq(Chars) /\ Len(type) <= TypeLen
  <2> DEFINE ahead == SubSeq(s, 1, dot - 1)
             after == SubSeq(s, dot + 1, Len(s))
  <2>1. ahead \in Seq(Chars) /\ after \in Seq(Chars)
    BY <1>3
  <2>2. NameLen \in Int /\ NameLen >= 0 /\ TypeLen \in Int /\ TypeLen >= 0
    BY Lengths
  <2> HIDE DEF ahead, after
  <2>3. Cut(ahead, NameLen) \in Seq(Chars) /\ Len(Cut(ahead, NameLen)) <= NameLen
    BY <2>1, <2>2, CutFits
  <2>4. Cut(after, TypeLen) \in Seq(Chars) /\ Len(Cut(after, TypeLen)) <= TypeLen
    BY <2>1, <2>2, CutFits
  <2> QED
    BY <2>3, <2>4 DEF ahead, after
<1> HIDE DEF name, type
<1>5. Cpm \in [Chars -> CpmChars]
  BY CharAssumption DEF CpmChars
<1>6. /\ MapChars(Cpm, name) \in Seq(CpmChars) /\ Len(MapChars(Cpm, name)) = Len(name)
      /\ MapChars(Cpm, type) \in Seq(CpmChars) /\ Len(MapChars(Cpm, type)) = Len(type)
  <2>1. \A t \in Seq(Chars) : /\ MapChars(Cpm, t) \in Seq(CpmChars)
                              /\ Len(MapChars(Cpm, t)) = Len(t)
    BY <1>5, MapKeepsLength
  <2> QED
    BY <1>4, <2>1
<1>7. Unnamed \in Seq(CpmChars) /\ Len(Unnamed) = 1
  <2>1. "U" \in CpmChars
    BY CharAssumption DEF CpmChars
  <2> QED
    BY <2>1, OneOf DEF Unnamed
<1>8. name # <<>> => Len(name) >= 1
  BY <1>4
<1>9. FcbName(stored) = [name |-> IF name = <<>> THEN Unnamed ELSE MapChars(Cpm, name),
                         type |-> MapChars(Cpm, type)]
  BY DEF FcbName, name, type, s, dot
<1> DEFINE part == IF name = <<>> THEN Unnamed ELSE MapChars(Cpm, name)
<1>10. part \in Seq(CpmChars) /\ Len(part) \in 1 .. NameLen
  <2>1. name = <<>> => part = Unnamed
    OBVIOUS
  <2>2. name # <<>> => part = MapChars(Cpm, name)
    OBVIOUS
  <2> HIDE DEF part
  <2>3. CASE name = <<>>
    <3>1. 1 \in 1 .. NameLen
      BY Lengths
    <3> QED
      BY <1>7, <2>1, <2>3, <3>1, Zenon
  <2>4. CASE name # <<>>
    BY <1>4, <1>6, <1>8, <2>2, <2>4
  <2> QED
    BY <2>3, <2>4
<1> HIDE DEF part
<1>11. FcbName(stored) = [name |-> part, type |-> MapChars(Cpm, type)]
  BY <1>9 DEF part
<1> QED
  BY <1>4, <1>6, <1>10, <1>11 DEF Fcbs

\* A name and its suffix, before and after they are put together.
LEMMA SuffixPut ==
    ASSUME NEW s \in Seq(CpmChars), NEW k \in 0 .. MaxSuffix
    PROVE  LET cut == Cut(s, (NameLen - 1) - Len(Digits[k]))
               all == cut \o <<"-">> \o Digits[k]
           IN  /\ Digits[k] \in Seq(CpmChars) /\ cut \in Seq(CpmChars) /\ all \in Seq(CpmChars)
               /\ Len(Digits[k]) \in Nat /\ Len(Digits[k]) >= 1
               /\ Len(all) = Len(cut) + 1 + Len(Digits[k])
               /\ Len(all) \in 1 .. NameLen
               /\ all[Len(cut) + 1] = "-"
               /\ \A i \in 1 .. Len(Digits[k]) : all[Len(cut) + 1 + i] = Digits[k][i]
<1> DEFINE d == Digits[k]
           cut == Cut(s, (NameLen - 1) - Len(d))
<1>1. k \in Nat /\ Figures \subseteq CpmChars
  BY Lengths, FigureFacts DEF CpmChars
<1>2. d \in Seq(Figures) /\ Len(d) >= 1
  BY <1>1, DigitsType
<1>3. d \in Seq(CpmChars) /\ Len(d) \in Nat
  BY <1>1, <1>2, SeqMonotonic
<1>4. Len(d) + 1 < NameLen
  BY CharAssumption
<1> HIDE DEF d
<1>5. (NameLen - 1) - Len(d) \in Nat
  BY <1>3, <1>4, Lengths
<1>6. cut \in Seq(CpmChars) /\ Len(cut) <= (NameLen - 1) - Len(d) /\ Len(cut) \in Nat
  BY <1>5, CutFits
<1> HIDE DEF cut
<1>7. <<"-">> \in Seq(CpmChars)
  <2>1. "-" \in CpmChars
    BY CharAssumption DEF CpmChars
  <2> QED
    BY <2>1, OneOf
<1>8. /\ cut \o <<"-">> \in Seq(CpmChars) /\ Len(cut \o <<"-">>) = Len(cut) + 1
      /\ (cut \o <<"-">>)[Len(cut) + 1] = "-"
  BY <1>6, <1>7
<1>9. LET head == cut \o <<"-">>
      IN  /\ head \o d \in Seq(CpmChars) /\ Len(head \o d) = Len(head) + Len(d)
          /\ \A i \in 1 .. Len(head) + Len(d) :
                (head \o d)[i] = IF i <= Len(head) THEN head[i] ELSE d[i - Len(head)]
  <2> DEFINE head == cut \o <<"-">>
  <2>1. head \in Seq(CpmChars)
    BY <1>8
  <2> HIDE DEF head
  <2>2. /\ head \o d \in Seq(CpmChars) /\ Len(head \o d) = Len(head) + Len(d)
        /\ \A i \in 1 .. Len(head) + Len(d) :
              (head \o d)[i] = IF i <= Len(head) THEN head[i] ELSE d[i - Len(head)]
    BY <1>3, <2>1, ConcatProperties
  <2> QED
    BY <2>2 DEF head
<1> DEFINE all == (cut \o <<"-">>) \o d
<1>10. /\ all \in Seq(CpmChars) /\ Len(all) = Len(cut) + 1 + Len(d) /\ all[Len(cut) + 1] = "-"
       /\ \A i \in 1 .. Len(d) : all[Len(cut) + 1 + i] = d[i]
  BY <1>3, <1>6, <1>8, <1>9
<1> HIDE DEF all
<1>11. Len(all) \in 1 .. NameLen
  BY <1>3, <1>6, <1>10, Lengths
<1> QED
  BY <1>2, <1>3, <1>6, <1>10, <1>11 DEF d, cut, all

LEMMA NumberedIs ==
    ASSUME NEW n \in Fcbs, NEW k \in Nat, k # 0
    PROVE  Numbered(n, k) = [name |-> Cut(n.name, (NameLen - 1) - Len(Digits[k]))
                                        \o <<"-">> \o Digits[k],
                             type |-> n.type]
BY DEF Numbered, Fcbs

LEMMA NumberedFits ==
    ASSUME NEW n \in Fcbs, NEW k \in 0 .. MaxSuffix
    PROVE  Numbered(n, k) \in Fcbs
<1>1. CASE k = 0
  BY <1>1 DEF Numbered
<1>2. CASE k # 0
  <2> DEFINE all == Cut(n.name, (NameLen - 1) - Len(Digits[k])) \o <<"-">> \o Digits[k]
  <2>1. n.name \in Seq(CpmChars) /\ n.type \in Seq(CpmChars) /\ Len(n.type) <= TypeLen
    BY DEF Fcbs
  <2>2. all \in Seq(CpmChars) /\ Len(all) \in 1 .. NameLen
    BY <2>1, SuffixPut
  <2>4. k \in Nat
    BY Lengths
  <2>3. Numbered(n, k) = [name |-> all, type |-> n.type]
    BY <1>2, <2>4, NumberedIs
  <2> HIDE DEF all
  <2> QED
    BY <2>1, <2>2, <2>3 DEF Fcbs
<1> QED
  BY <1>1, <1>2

\* The "-" of the longer suffix comes where the shorter one's text has a digit
\* or a character of the name before it: two suffixes make two names.
LEMMA NumberedApart ==
    ASSUME NEW n \in Fcbs, NEW j \in 1 .. MaxSuffix, NEW k \in 1 .. MaxSuffix,
           Numbered(n, j) = Numbered(n, k)
    PROVE  j = k
<1> DEFINE dj == Digits[j]
           dk == Digits[k]
           cj == Cut(n.name, (NameLen - 1) - Len(dj))
           ck == Cut(n.name, (NameLen - 1) - Len(dk))
           aj == cj \o <<"-">> \o dj
           ak == ck \o <<"-">> \o dk
<1>1. n.name \in Seq(CpmChars)
  BY DEF Fcbs
<1>2. /\ j \in Nat /\ j # 0 /\ j \in 0 .. MaxSuffix
      /\ k \in Nat /\ k # 0 /\ k \in 0 .. MaxSuffix
  BY Lengths
<1>3. aj = ak
  <2>1. Numbered(n, j) = [name |-> aj, type |-> n.type]
    BY <1>2, NumberedIs
  <2>2. Numbered(n, k) = [name |-> ak, type |-> n.type]
    BY <1>2, NumberedIs
  <2> HIDE DEF aj, ak
  <2>3. Numbered(n, j).name = aj
    BY <2>1
  <2>4. Numbered(n, k).name = ak
    BY <2>2
  <2> QED
    BY <2>3, <2>4
<1>4. /\ dj \in Seq(CpmChars) /\ cj \in Seq(CpmChars)
      /\ Len(dj) \in Nat /\ Len(dj) >= 1
      /\ Len(aj) = Len(cj) + 1 + Len(dj) /\ aj[Len(cj) + 1] = "-"
      /\ \A i \in 1 .. Len(dj) : aj[Len(cj) + 1 + i] = dj[i]
  BY <1>1, <1>2, SuffixPut
<1>5. /\ dk \in Seq(CpmChars) /\ ck \in Seq(CpmChars)
      /\ Len(dk) \in Nat /\ Len(dk) >= 1
      /\ Len(ak) = Len(ck) + 1 + Len(dk) /\ ak[Len(ck) + 1] = "-"
      /\ \A i \in 1 .. Len(dk) : ak[Len(ck) + 1 + i] = dk[i]
  BY <1>1, <1>2, SuffixPut
<1>6. /\ \A i \in 1 .. Len(dj) : dj[i] # "-"
      /\ \A i \in 1 .. Len(dk) : dk[i] # "-"
  <2>1. dj \in Seq(Figures) /\ dk \in Seq(Figures)
    BY <1>2, DigitsType
  <2>2. "-" \notin Figures
    BY FigureFacts
  <2> HIDE DEF dj, dk
  <2> QED
    BY <2>1, <2>2
<1> HIDE DEF dj, dk, cj, ck, aj, ak
<1>7. Len(cj) \in Nat /\ Len(ck) \in Nat
  BY <1>4, <1>5
<1>8. Len(cj) + 1 + Len(dj) = Len(ck) + 1 + Len(dk)
  BY <1>3, <1>4, <1>5
<1>9. ~(Len(cj) < Len(ck))
  <2> SUFFICES ASSUME Len(cj) < Len(ck) PROVE FALSE
    OBVIOUS
  <2> DEFINE i == Len(ck) - Len(cj)
  <2>1. i \in 1 .. Len(dj) /\ Len(ck) + 1 = Len(cj) + 1 + i
    BY <1>4, <1>5, <1>7, <1>8
  <2> HIDE DEF i
  <2> QED
    BY <1>3, <1>4, <1>5, <1>6, <2>1
<1>10. ~(Len(ck) < Len(cj))
  <2> SUFFICES ASSUME Len(ck) < Len(cj) PROVE FALSE
    OBVIOUS
  <2> DEFINE i == Len(cj) - Len(ck)
  <2>1. i \in 1 .. Len(dk) /\ Len(cj) + 1 = Len(ck) + 1 + i
    BY <1>4, <1>5, <1>7, <1>8
  <2> HIDE DEF i
  <2> QED
    BY <1>3, <1>4, <1>5, <1>6, <2>1
<1>11. Len(cj) = Len(ck) /\ Len(dj) = Len(dk)
  BY <1>4, <1>5, <1>7, <1>8, <1>9, <1>10
<1>12. dj = dk
  <2>1. \A i \in 1 .. Len(dj) : dj[i] = dk[i]
    BY <1>3, <1>4, <1>5, <1>11
  <2> QED
    BY <1>4, <1>5, <1>11, <2>1, SeqEqual
<1> QED
  BY <1>2, <1>12, DigitsApart DEF dj, dk

\* A table of fewer names than there are suffixes leaves one of them.
LEMMA SuffixLeft ==
    ASSUME NEW n \in Fcbs, NEW T, table \in Seq(T), Len(table) < MaxSuffix
    PROVE  \E k \in 1 .. MaxSuffix : ~Taken(Numbered(n, k))
<1> SUFFICES ASSUME \A k \in 1 .. MaxSuffix : Numbered(n, k) \in ToSet(table) PROVE FALSE
  BY DEF Taken
<1> DEFINE S == ToSet(table)
           f == [k \in 1 .. MaxSuffix |-> Numbered(n, k)]
<1>1. Len(table) \in Nat /\ DOMAIN table = 1 .. Len(table)
  OBVIOUS
<1>2. IsFiniteSet(S) /\ Cardinality(S) <= Len(table) /\ Cardinality(S) \in Nat
  <2>1. table \in Surjection(1 .. Len(table), S)
    BY <1>1 DEF Surjection, ToSet
  <2>2. ExistsSurjection(1 .. Len(table), S)
    BY <2>1 DEF ExistsSurjection
  <2>3. IsFiniteSet(S)
    BY <1>1, <2>2, FS_NatSurjection
  <2> QED
    BY <1>1, <2>2, <2>3, FS_SurjCardinalityBound, FS_CardinalityType
<1>3. IsFiniteSet(1 .. MaxSuffix) /\ Cardinality(1 .. MaxSuffix) = MaxSuffix
  BY Lengths, FS_Interval
<1>4. f \in [1 .. MaxSuffix -> S]
  OBVIOUS
<1>5. Cardinality(S) < Cardinality(1 .. MaxSuffix)
  BY <1>1, <1>2, <1>3, Lengths
<1> HIDE DEF f, S
<1>6. PICK j, k \in 1 .. MaxSuffix : j # k /\ f[j] = f[k]
  BY <1>2, <1>3, <1>4, <1>5, FS_PigeonHole
<1> QED
  BY <1>6, NumberedApart DEF f

LEMMA NewNameFree ==
    ASSUME NEW n \in Fcbs, NEW T, table \in Seq(T), Len(table) < MaxSuffix
    PROVE  NewName(n) \in Fcbs /\ NewName(n) \notin ToSet(table)
<1> DEFINE free == {k \in 0 .. MaxSuffix : ~Taken(Numbered(n, k))}
           least == Min(free \union {MaxSuffix})
<1>1. MaxSuffix \in Nat
  BY Lengths
<1>2. PICK k \in free : TRUE
  BY <1>1, SuffixLeft
<1>3. free \union {MaxSuffix} \subseteq Nat /\ free \subseteq 0 .. MaxSuffix
  BY <1>1
<1>4. least \in free \union {MaxSuffix} /\ \A m \in free \union {MaxSuffix} : least <= m
  <2> DEFINE S == free \union {MaxSuffix}
  <2>1. S \subseteq Nat /\ S # {}
    BY <1>3
  <2> HIDE DEF S
  <2> QED
    BY <2>1, MinOf DEF S
<1>5. least \in free
  <2>1. CASE least = MaxSuffix
    <3>1. MaxSuffix <= k /\ k \in 0 .. MaxSuffix
      BY <1>2, <1>3, <1>4, <2>1
    <3>2. k = MaxSuffix
      BY <1>1, <3>1
    <3> QED
      BY <1>2, <2>1, <3>2
  <2> QED
    BY <1>4, <2>1
<1>6. least \in 0 .. MaxSuffix /\ ~Taken(Numbered(n, least))
  BY <1>5
<1>7. NewName(n) = Numbered(n, least)
  BY DEF NewName
<1> HIDE DEF least
<1> QED
  BY <1>6, <1>7, NumberedFits DEF Taken
-----------------------------------------------------------------------------
LEMMA CappedTyped == ASSUME NEW s \in Seq(Chars) PROVE Capped(s) \in Seq(Chars)
<1> DEFINE dot == LastDot(s)
           suffix == IF dot # 0 /\ Len(s) - dot <= PyExtMax THEN SubSeq(s, dot, Len(s)) ELSE <<>>
<1>1. Len(s) \in Nat /\ PyMax \in Nat /\ PyExtMax \in Nat /\ dot \in 0 .. Len(s)
  BY LengthAssumption, LastDotIn
<1> HIDE DEF dot
<1>2. suffix \in Seq(Chars)
  <2>1. CASE dot # 0 /\ Len(s) - dot <= PyExtMax
    <3>1. SubSeq(s, dot, Len(s)) \in Seq(Chars)
      BY <1>1, <2>1, PartOf
    <3> QED
      BY <2>1, <3>1
  <2>2. CASE ~(dot # 0 /\ Len(s) - dot <= PyExtMax)
    BY <2>2, NoneOf
  <2> QED
    BY <2>1, <2>2
<1> HIDE DEF suffix
<1>3. CASE Len(s) <= PyMax
  BY <1>3 DEF Capped
<1>4. CASE ~(Len(s) <= PyMax)
  <2>1. PyMax - Len(suffix) \in Int /\ PyMax - Len(suffix) <= Len(s)
    BY <1>1, <1>2, <1>4
  <2>2. SubSeq(s, 1, PyMax - Len(suffix)) \in Seq(Chars)
    BY <2>1, PartOf
  <2>3. SubSeq(s, 1, PyMax - Len(suffix)) \o suffix \in Seq(Chars)
    BY <1>2, <2>2, ConcatProperties
  <2>4. Capped(s) = SubSeq(s, 1, PyMax - Len(suffix)) \o suffix
    BY <1>4 DEF Capped, suffix, dot
  <2> QED
    BY <2>3, <2>4
<1> QED
  BY <1>3, <1>4

LEMMA CleanedTyped == ASSUME NEW stored \in Seq(Chars) PROVE Cleaned(stored) \in Seq(Chars)
<1> DEFINE s == RStrip(Strip(MapChars(Safe, stored)), {".", " "})
           firstDot == Min({Len(s) + 1} \union {i \in DOMAIN s : s[i] = "."})
           device == MapChars(Fold, SubSeq(s, 1, firstDot - 1)) \in Devices
           whole == IF device THEN <<"_">> \o s ELSE s
<1>1. MapChars(Safe, stored) \in Seq(Chars)
  BY CharAssumption, MapKeepsLength
<1>2. s \in Seq(Chars)
  <2>1. Strip(MapChars(Safe, stored)) \in Seq(Chars)
    BY <1>1, StripKeeps
  <2> QED
    BY <2>1, StripKeeps
<1> HIDE DEF s
<1>3. whole \in Seq(Chars)
  <2>1. <<"_">> \in Seq(Chars)
    BY CharAssumption, OneOf
  <2>2. <<"_">> \o s \in Seq(Chars)
    BY <1>2, <2>1, ConcatProperties
  <2> HIDE DEF device
  <2> QED
    BY <1>2, <2>2
<1> HIDE DEF whole
<1>4. Cleaned(stored) = IF s = <<>> THEN <<>> ELSE Capped(whole)
  BY DEF Cleaned, whole, device, firstDot, s
<1>5. CASE s = <<>>
  BY <1>4, <1>5, NoneOf
<1>6. CASE s # <<>>
  BY <1>3, <1>4, <1>6, CappedTyped
<1> QED
  BY <1>5, <1>6

LEMMA CleanTyped ==
    ASSUME NEW stored \in Seq(Chars), NEW fallback \in Seq(Chars)
    PROVE  Clean(stored, fallback) \in Seq(Chars)
<1>1. Unnamed \in Seq(Chars)
  BY CharAssumption, OneOf DEF Unnamed
<1> QED
  BY <1>1, CleanedTyped DEF Clean

\* The two parts of a name its number goes between.
StemOf(s) == IF LastDot(s) = 0 THEN s ELSE SubSeq(s, 1, LastDot(s) - 1)
TailOf(s) == IF LastDot(s) \in {0, Len(s)} THEN <<>> ELSE SubSeq(s, LastDot(s), Len(s))

LEMMA SuffixedIs ==
    ASSUME NEW s, NEW k, k # 0
    PROVE  Suffixed(s, k) = StemOf(s) \o <<"_">> \o Digits[k] \o TailOf(s)
BY DEF Suffixed, StemOf, TailOf

LEMMA NotSuffixed == ASSUME NEW s PROVE Suffixed(s, 0) = s
BY DEF Suffixed

LEMMA PartsOfName ==
    ASSUME NEW s \in Seq(Chars)
    PROVE  /\ StemOf(s) \in Seq(Chars) /\ TailOf(s) \in Seq(Chars)
           /\ Len(StemOf(s)) + Len(TailOf(s)) >= Len(s) - 1
<1> DEFINE dot == LastDot(s)
<1>1. dot \in 0 .. Len(s) /\ Len(s) \in Nat
  BY LastDotIn
<1> HIDE DEF dot
<1>2. CASE dot = 0
  <2>1. StemOf(s) = s /\ TailOf(s) = <<>>
    BY <1>2 DEF StemOf, TailOf, dot
  <2> QED
    BY <1>1, <2>1, NoneOf
<1>3. CASE dot # 0 /\ dot = Len(s)
  <2>1. StemOf(s) = SubSeq(s, 1, dot - 1) /\ TailOf(s) = <<>>
    BY <1>3 DEF StemOf, TailOf, dot
  <2>2. SubSeq(s, 1, dot - 1) \in Seq(Chars)
        /\ Len(SubSeq(s, 1, dot - 1)) = IF 1 <= dot - 1 THEN dot - 1 - 1 + 1 ELSE 0
    BY <1>1, <1>3, PartOf
  <2>3. Len(SubSeq(s, 1, dot - 1)) = dot - 1
    BY <1>1, <1>3, <2>2
  <2> QED
    BY <1>1, <1>3, <2>1, <2>2, <2>3, NoneOf
<1>4. CASE dot # 0 /\ dot # Len(s)
  <2> DEFINE stem == SubSeq(s, 1, dot - 1)
             tail == SubSeq(s, dot, Len(s))
  <2>1. StemOf(s) = stem /\ TailOf(s) = tail
    BY <1>4 DEF StemOf, TailOf, dot
  <2>2. stem \in Seq(Chars) /\ Len(stem) = IF 1 <= dot - 1 THEN dot - 1 - 1 + 1 ELSE 0
    BY <1>1, <1>4, PartOf
  <2>3. tail \in Seq(Chars) /\ Len(tail) = IF dot <= Len(s) THEN Len(s) - dot + 1 ELSE 0
    BY <1>1, <1>4, PartOf
  <2> HIDE DEF stem, tail
  <2>4. Len(stem) = dot - 1 /\ Len(tail) = Len(s) - dot + 1
    BY <1>1, <1>4, <2>2, <2>3
  <2> QED
    BY <1>1, <2>1, <2>2, <2>3, <2>4
<1> QED
  BY <1>2, <1>3, <1>4

LEMMA Joined ==
    ASSUME NEW a \in Seq(Chars), NEW b \in Seq(Chars)
    PROVE  /\ a \o b \in Seq(Chars) /\ Len(a \o b) = Len(a) + Len(b)
           /\ \A i \in 1 .. Len(a) + Len(b) :
                 (a \o b)[i] = IF i <= Len(a) THEN a[i] ELSE b[i - Len(a)]
BY ConcatProperties

\* Where the number stands, in a name made of four parts.
LEMMA FourParts ==
    ASSUME NEW a \in Seq(Chars), NEW b \in Seq(Chars), NEW c \in Seq(Chars), NEW d \in Seq(Chars)
    PROVE  /\ a \o b \o c \o d \in Seq(Chars)
           /\ Len(a \o b \o c \o d) = Len(a) + Len(b) + Len(c) + Len(d)
           /\ \A i \in 1 .. Len(c) : (a \o b \o c \o d)[Len(a) + Len(b) + i] = c[i]
<1> DEFINE ab == a \o b
           abc == ab \o c
<1>1. ab \in Seq(Chars) /\ Len(ab) = Len(a) + Len(b)
  BY ConcatProperties
<1> HIDE DEF ab
<1>2. /\ abc \in Seq(Chars) /\ Len(abc) = Len(ab) + Len(c)
      /\ \A i \in 1 .. Len(ab) + Len(c) : abc[i] = IF i <= Len(ab) THEN ab[i] ELSE c[i - Len(ab)]
  BY <1>1, Joined, Zenon
<1> HIDE DEF abc
<1>3. /\ abc \o d \in Seq(Chars) /\ Len(abc \o d) = Len(abc) + Len(d)
      /\ \A i \in 1 .. Len(abc) + Len(d) :
            (abc \o d)[i] = IF i <= Len(abc) THEN abc[i] ELSE d[i - Len(abc)]
  BY <1>2, Joined, Zenon
<1>4. Len(a) \in Nat /\ Len(b) \in Nat /\ Len(c) \in Nat /\ Len(d) \in Nat
  OBVIOUS
<1>5. ASSUME NEW i \in 1 .. Len(c)
      PROVE  (abc \o d)[Len(a) + Len(b) + i] = c[i]
  <2> DEFINE p == Len(a) + Len(b) + i
  <2>1. /\ p \in 1 .. Len(ab) + Len(c) /\ p \in 1 .. Len(abc) + Len(d)
        /\ p <= Len(abc) /\ ~(p <= Len(ab)) /\ p - Len(ab) = i
    BY <1>1, <1>2, <1>4
  <2> HIDE DEF p
  <2>2. (abc \o d)[p] = abc[p]
    BY <1>3, <2>1
  <2>3. abc[p] = c[i]
    BY <1>2, <2>1
  <2> QED
    BY <2>2, <2>3 DEF p
<1>6. Len(abc \o d) = Len(a) + Len(b) + Len(c) + Len(d)
  BY <1>1, <1>2, <1>3, <1>4
<1> QED
  BY <1>3, <1>5, <1>6 DEF abc, ab

LEMMA SuffixedParts ==
    ASSUME NEW s \in Seq(Chars), NEW k \in Nat, k # 0
    PROVE  LET stem == Len(StemOf(s)) + 1
           IN  /\ Suffixed(s, k) \in Seq(Chars) /\ stem \in Nat
               /\ Digits[k] \in Seq(Chars) /\ Len(Digits[k]) \in Nat
               /\ Len(Suffixed(s, k)) = stem + Len(Digits[k]) + Len(TailOf(s))
               /\ Len(Suffixed(s, k)) > Len(s)
               /\ \A i \in 1 .. Len(Digits[k]) : Suffixed(s, k)[stem + i] = Digits[k][i]
<1> DEFINE d == Digits[k]
           bar == <<"_">>
<1>1. d \in Seq(Figures) /\ Len(d) >= 1
  BY DigitsType
<1>2. d \in Seq(Chars) /\ Len(d) \in Nat
  BY <1>1, FigureFacts, SeqMonotonic
<1>3. bar \in Seq(Chars) /\ Len(bar) = 1
  BY CharAssumption, OneOf
<1>4. /\ StemOf(s) \in Seq(Chars) /\ TailOf(s) \in Seq(Chars)
      /\ Len(StemOf(s)) + Len(TailOf(s)) >= Len(s) - 1
      /\ Len(StemOf(s)) \in Nat /\ Len(TailOf(s)) \in Nat /\ Len(s) \in Nat
  <2>1. /\ StemOf(s) \in Seq(Chars) /\ TailOf(s) \in Seq(Chars)
        /\ Len(StemOf(s)) + Len(TailOf(s)) >= Len(s) - 1
    BY PartsOfName, Zenon
  <2>2. \A t \in Seq(Chars) : Len(t) \in Nat
    OBVIOUS
  <2> QED
    BY <2>1, <2>2
<1> DEFINE all == StemOf(s) \o bar \o d \o TailOf(s)
<1>5. Suffixed(s, k) = all
  BY SuffixedIs
<1> HIDE DEF d, bar
<1>6. /\ all \in Seq(Chars)
      /\ Len(all) = Len(StemOf(s)) + Len(bar) + Len(d) + Len(TailOf(s))
      /\ \A i \in 1 .. Len(d) : all[Len(StemOf(s)) + Len(bar) + i] = d[i]
  <2> DEFINE a == StemOf(s)
             t == TailOf(s)
  <2>1. a \in Seq(Chars) /\ t \in Seq(Chars) /\ bar \in Seq(Chars) /\ d \in Seq(Chars)
    BY <1>2, <1>3, <1>4
  <2> HIDE DEF a, t
  <2>2. a \o bar \o d \o t \in Seq(Chars)
    BY <2>1, FourParts
  <2>3. Len(a \o bar \o d \o t) = Len(a) + Len(bar) + Len(d) + Len(t)
    BY <2>1, FourParts
  <2>4. \A i \in 1 .. Len(d) : (a \o bar \o d \o t)[Len(a) + Len(bar) + i] = d[i]
    BY <2>1, FourParts
  <2> QED
    BY <2>2, <2>3, <2>4 DEF a, t
<1> HIDE DEF all
<1>7. Len(all) > Len(s)
  BY <1>1, <1>2, <1>3, <1>4, <1>6
<1> DEFINE stem == Len(StemOf(s)) + 1
<1>8. stem = Len(StemOf(s)) + Len(bar) /\ stem \in Nat
  BY <1>3, <1>4
<1> HIDE DEF stem
<1>9. /\ all \in Seq(Chars) /\ Len(all) = stem + Len(d) + Len(TailOf(s)) /\ Len(all) > Len(s)
      /\ \A i \in 1 .. Len(d) : all[stem + i] = d[i]
  BY <1>6, <1>7, <1>8
<1>10. /\ Suffixed(s, k) \in Seq(Chars) /\ stem \in Nat
       /\ d \in Seq(Chars) /\ Len(d) \in Nat
       /\ Len(Suffixed(s, k)) = stem + Len(d) + Len(TailOf(s))
       /\ Len(Suffixed(s, k)) > Len(s)
       /\ \A i \in 1 .. Len(d) : Suffixed(s, k)[stem + i] = d[i]
  BY <1>2, <1>5, <1>8, <1>9
<1> QED
  BY <1>10, Zenon DEF d, stem
LEMMA FoldedNames ==
    ASSUME NEW s \in Seq(Chars)
    PROVE  /\ Folded(s) \in Seq(Chars) /\ Len(Folded(s)) = Len(s)
           /\ \A i \in 1 .. Len(s) : Folded(s)[i] = Fold[s[i]]
<1>1. Fold \in [Chars -> Chars]
  BY CharAssumption
<1> QED
  BY <1>1, MapKeepsLength DEF Folded

\* Folding leaves a number's digits as they are, and two numbers of one name
\* that come out equal have their digits in the same places.
LEMMA SuffixedApart ==
    ASSUME NEW s \in Seq(Chars), NEW j \in Nat, NEW k \in Nat,
           Folded(Suffixed(s, j)) = Folded(Suffixed(s, k))
    PROVE  j = k
<1>1. ASSUME NEW n \in Nat
      PROVE  /\ Suffixed(s, n) \in Seq(Chars)
             /\ Len(Folded(Suffixed(s, n))) = Len(Suffixed(s, n))
             /\ n # 0 => Len(Suffixed(s, n)) > Len(s)
  <2>1. CASE n = 0
    BY <2>1, NotSuffixed, FoldedNames
  <2>2. CASE n # 0
    <3>1. Suffixed(s, n) \in Seq(Chars) /\ Len(Suffixed(s, n)) > Len(s)
      BY <2>2, SuffixedParts
    <3> QED
      BY <3>1, FoldedNames
  <2> QED
    BY <2>1, <2>2
<1>2. Len(Suffixed(s, j)) = Len(Suffixed(s, k)) /\ Len(s) \in Nat
  BY <1>1
<1>3. CASE j = 0 \/ k = 0
  <2>1. Len(Suffixed(s, 0)) = Len(s)
    BY NotSuffixed
  <2>2. \A n \in Nat : n # 0 => Len(Suffixed(s, n)) > Len(s)
    BY <1>1
  <2>3. CASE j = 0
    <3>1. Len(Suffixed(s, k)) = Len(s)
      BY <1>2, <2>1, <2>3
    <3>2. ~(Len(Suffixed(s, k)) > Len(s))
      BY <1>2, <3>1
    <3> QED
      BY <2>2, <2>3, <3>2
  <2>4. CASE k = 0
    <3>1. Len(Suffixed(s, j)) = Len(s)
      BY <1>2, <2>1, <2>4
    <3>2. ~(Len(Suffixed(s, j)) > Len(s))
      BY <1>2, <3>1
    <3> QED
      BY <2>2, <2>4, <3>2
  <2> QED
    BY <1>3, <2>3, <2>4
<1>4. CASE j # 0 /\ k # 0
  <2> DEFINE stem == Len(StemOf(s)) + 1
             after == Len(TailOf(s))
             dj == Digits[j]
             dk == Digits[k]
             sj == Suffixed(s, j)
             sk == Suffixed(s, k)
  <2>1. /\ sj \in Seq(Chars) /\ stem \in Nat
        /\ dj \in Seq(Chars) /\ Len(dj) \in Nat
        /\ Len(sj) = stem + Len(dj) + after
        /\ \A i \in 1 .. Len(dj) : sj[stem + i] = dj[i]
    BY <1>4, SuffixedParts, Zenon
  <2>2. /\ sk \in Seq(Chars)
        /\ dk \in Seq(Chars) /\ Len(dk) \in Nat
        /\ Len(sk) = stem + Len(dk) + after
        /\ \A i \in 1 .. Len(dk) : sk[stem + i] = dk[i]
    BY <1>4, SuffixedParts, Zenon
  <2>3. after \in Nat
    <3>1. TailOf(s) \in Seq(Chars)
      BY PartsOfName
    <3> QED
      BY <3>1
  <2>4. /\ Folded(sj) = Folded(sk) /\ Len(sj) = Len(sk)
        /\ \A i \in 1 .. Len(sj) : Folded(sj)[i] = Fold[sj[i]]
        /\ \A i \in 1 .. Len(sk) : Folded(sk)[i] = Fold[sk[i]]
    BY <1>1, <1>2, FoldedNames
  <2>5. dj \in Seq(Figures) /\ dk \in Seq(Figures)
    BY DigitsType
  <2> HIDE DEF stem, after, dj, dk, sj, sk
  <2>6. Len(dj) = Len(dk)
    BY <2>1, <2>2, <2>3, <2>4
  <2>7. ASSUME NEW i \in 1 .. Len(dj)
        PROVE  dj[i] = dk[i]
    <3>1. stem + i \in 1 .. Len(sj) /\ stem + i \in 1 .. Len(sk)
      BY <2>1, <2>2, <2>3, <2>6
    <3>2. Fold[dj[i]] = Fold[dk[i]]
      BY <2>1, <2>2, <2>4, <2>6, <3>1
    <3>3. dj[i] \in Figures /\ dk[i] \in Figures
      BY <2>5, <2>6
    <3> QED
      BY <3>2, <3>3, FigureFacts
  <2>8. dj = dk
    BY <2>1, <2>2, <2>6, <2>7, SeqEqual
  <2> QED
    BY <2>8, DigitsApart DEF dj, dk
<1> QED
  BY <1>3, <1>4

\* One of the candidates unique_filename goes through is free.
LEMMA UniqueFree ==
    ASSUME NEW s \in Seq(Chars), IsFiniteSet(used)
    PROVE  Unique(s) \in Seq(Chars) /\ Folded(Unique(s)) \notin used
<1> DEFINE top == Cardinality(used)
           free == {k \in 0 .. top : Folded(Suffixed(s, k)) \notin used}
<1>1. top \in Nat
  BY FS_CardinalityType
<1>2. free # {}
  <2> SUFFICES ASSUME free = {} PROVE FALSE
    OBVIOUS
  <2> DEFINE f == [k \in 0 .. top |-> Folded(Suffixed(s, k))]
  <2>1. f \in [0 .. top -> used]
    OBVIOUS
  <2>2. IsFiniteSet(0 .. top) /\ Cardinality(0 .. top) = top + 1
    BY <1>1, FS_Interval
  <2>3. Cardinality(used) < Cardinality(0 .. top)
    BY <1>1, <2>2
  <2> DEFINE all == 0 .. top
  <2> HIDE DEF f, top, all
  <2>4. PICK j, k \in all : j # k /\ f[j] = f[k]
    <3>1. /\ f \in [all -> used] /\ IsFiniteSet(all)
          /\ Cardinality(used) < Cardinality(all)
      BY <2>1, <2>2, <2>3 DEF all
    <3> QED
      BY <3>1, FS_PigeonHole
  <2>5. j \in Nat /\ k \in Nat
    BY <1>1 DEF all
  <2>6. Folded(Suffixed(s, j)) = Folded(Suffixed(s, k))
    BY <2>4 DEF f, all
  <2> QED
    BY <2>4, <2>5, <2>6, SuffixedApart
<1>3. Min(free) \in free
  <2>1. free \subseteq Nat
    BY <1>1
  <2> HIDE DEF free
  <2> QED
    BY <1>2, <2>1, MinOf
<1>4. Unique(s) = Suffixed(s, Min(free))
  BY DEF Unique
<1>5. Min(free) \in Nat /\ Folded(Suffixed(s, Min(free))) \notin used
  BY <1>1, <1>3
<1> HIDE DEF free
<1>6. Suffixed(s, Min(free)) \in Seq(Chars)
  <2>1. CASE Min(free) = 0
    BY <2>1, NotSuffixed
  <2>2. CASE Min(free) # 0
    BY <1>5, <2>2, SuffixedParts
  <2> QED
    BY <2>1, <2>2
<1> QED
  BY <1>4, <1>5, <1>6
-----------------------------------------------------------------------------

\* The names cpm$name has made, and those of them it keeps.
Reserved == IF onDrive THEN 1 ELSE 0
Kind == /\ nameMax \in 1 .. TableCap /\ onDrive \in BOOLEAN /\ started \in BOOLEAN
        /\ table \in Seq({own} \union Fcbs) /\ made \in Seq(Fcbs)
Recording == /\ ~started => table = <<>> /\ made = <<>>
             /\ started => Len(table) = IF Len(made) + Reserved < nameMax
                                        THEN Len(made) + Reserved ELSE nameMax
             /\ started /\ onDrive => own \in ToSet(table)
             /\ \A i \in DOMAIN made : i <= Room => made[i] \in ToSet(table)
CpmInv == Kind /\ Recording /\ ArchiveKept /\ MembersKept

\* 80un's names, and what they are made for.
PyKind == /\ pc \in {"start", "read", "write", "done", "failed"} /\ IsFiniteSet(used)
          /\ pyMade \in Seq(Seq(Chars)) /\ paths \in Seq(Seq(Chars))
          /\ results \in Seq([file : {"archive"}, member : Nat])
Begun == /\ pc = "start" => used = {} /\ pyMade = <<>> /\ results = <<>>
         /\ pc = "read" => /\ used = {Folded(pyMade[i]) : i \in DOMAIN pyMade}
                           /\ Len(pyMade) = Len(results)
         /\ pc \in {"start", "read"} =>
              /\ paths = <<>> /\ skipped = {} /\ disk = before
              /\ opt.away \/ before[Folded(ArchiveName)] = File("archive")
         /\ opt.list => pc \notin {"read", "write"} /\ disk = before
Failing == pc = "failed" /\ why # "disk" => disk = before

\* The directory while results are written in it: what was there, and the
\* results so far, each of the name it was given.
Writing == pc \in {"write", "done"} =>
    /\ Len(results) = Len(pyMade) /\ Len(paths) <= Len(results)
    /\ pc = "done" => Len(paths) = Len(results)
    /\ \A i \in DOMAIN paths : paths[i] = pyMade[i]
    /\ skipped \subseteq DOMAIN paths
    /\ DOMAIN before \subseteq DOMAIN disk
    /\ \A n \in DOMAIN disk \ DOMAIN before : \E i \in DOMAIN paths : n = Folded(pyMade[i])
    /\ \A i \in DOMAIN paths : IsOnDisk(Folded(pyMade[i]), Due(i))
RunInv == PyKind /\ Begun /\ Failing /\ Writing /\ PyMembersKept /\ NoClobber
IInv == CpmInv /\ RunInv
-----------------------------------------------------------------------------
LEMMA KeptInSet ==
    ASSUME NEW S, NEW s \in Seq(S), NEW x \in S
    PROVE  /\ Append(s, x) \in Seq(S) /\ Len(Append(s, x)) = Len(s) + 1
           /\ DOMAIN Append(s, x) = 1 .. Len(s) + 1
           /\ \A i \in 1 .. Len(s) : Append(s, x)[i] = s[i]
           /\ Append(s, x)[Len(s) + 1] = x
           /\ ToSet(Append(s, x)) = ToSet(s) \union {x}
<1>1. /\ Append(s, x) \in Seq(S) /\ Len(Append(s, x)) = Len(s) + 1
      /\ DOMAIN Append(s, x) = 1 .. Len(s) + 1 /\ Len(s) \in Nat
      /\ \A i \in 1 .. Len(s) : Append(s, x)[i] = s[i]
      /\ Append(s, x)[Len(s) + 1] = x
  OBVIOUS
<1>2. ToSet(Append(s, x)) = ToSet(s) \union {x}
  <2>1. DOMAIN s = 1 .. Len(s)
    OBVIOUS
  <2> QED
    BY <1>1, <2>1 DEF ToSet
<1> QED
  BY <1>1, <1>2

LEMMA CpmStart == Init => CpmInv
<1> SUFFICES ASSUME Init PROVE CpmInv
  OBVIOUS
<1>1. /\ nameMax \in 1 .. TableCap /\ onDrive \in BOOLEAN /\ started = FALSE
      /\ table = <<>> /\ made = <<>>
  <2>1. 1 \in 1 .. TableCap
    BY Lengths
  <2> QED
    BY <2>1 DEF Init, CpmInit
<1>2. Kind
  BY <1>1, NoneOf DEF Kind
<1>3. Recording /\ ArchiveKept /\ MembersKept
  BY <1>1 DEF Recording, ArchiveKept, MembersKept
<1> QED
  BY <1>2, <1>3 DEF CpmInv

LEMMA CpmStarts == CpmInv /\ Start => CpmInv'
<1> SUFFICES ASSUME CpmInv, Start PROVE CpmInv'
  OBVIOUS
<1>1. /\ ~started /\ table = <<>> /\ made = <<>> /\ nameMax \in Nat /\ nameMax >= 1
      /\ nameMax \in 1 .. TableCap /\ onDrive \in BOOLEAN
  BY Lengths DEF Start, CpmInv, Kind, Recording
<1>2. /\ own' = own /\ onDrive' = onDrive /\ nameMax' = nameMax /\ made' = made /\ started' = TRUE
  BY DEF Start
<1>3. Len(table) = 0 /\ Len(made) = 0 /\ table \in Seq({own} \union Fcbs)
  BY <1>1
<1>4. /\ onDrive => table' = Append(table, own)
      /\ ~onDrive => table' = table
  BY <1>1, <1>3 DEF Start, Recorded
<1>5. /\ Append(table, own) \in Seq({own} \union Fcbs) /\ Len(Append(table, own)) = 1
      /\ own \in ToSet(Append(table, own))
  <2> DEFINE R == {own} \union Fcbs
  <2>1. own \in R /\ table \in Seq(R)
    BY <1>3
  <2> HIDE DEF R
  <2>2. /\ Append(table, own) \in Seq(R) /\ Len(Append(table, own)) = Len(table) + 1
        /\ ToSet(Append(table, own)) = ToSet(table) \union {own}
    BY <2>1, KeptInSet
  <2> QED
    BY <1>3, <2>2 DEF R
<1>6. Kind'
  <2>1. made \in Seq(Fcbs)
    BY DEF CpmInv, Kind
  <2>2. table' \in Seq({own} \union Fcbs)
    BY <1>1, <1>3, <1>4, <1>5, Zenon
  <2> QED
    BY <1>1, <1>2, <2>1, <2>2 DEF Kind
<1>7. Recording' /\ ArchiveKept' /\ MembersKept'
  <2>1. Len(table') = Reserved' /\ Reserved' \in 0 .. 1
    BY <1>1, <1>2, <1>3, <1>4, <1>5 DEF Reserved
  <2>2. Len(table') = IF Len(made') + Reserved' < nameMax' THEN Len(made') + Reserved' ELSE nameMax'
    <3> DEFINE t == Len(table')
               r == Reserved'
    <3>1. t = r /\ r \in 0 .. 1 /\ Len(made') = 0 /\ nameMax' \in Nat /\ nameMax' >= 1
      BY <1>1, <1>2, <1>3, <2>1
    <3> HIDE DEF t, r
    <3>2. t = IF Len(made') + r < nameMax' THEN Len(made') + r ELSE nameMax'
      BY <3>1
    <3> QED
      BY <3>2 DEF t, r
  <2>3. onDrive' => own' \in ToSet(table')
    BY <1>2, <1>4, <1>5
  <2> QED
    BY <1>1, <1>2, <2>2, <2>3 DEF Recording, ArchiveKept, MembersKept
<1> QED
  BY <1>6, <1>7 DEF CpmInv

\* A name is made that is not in the table, and goes into it if there is room.
LEMMA CpmMakes ==
    ASSUME CpmInv, NEW stored \in Stored, MakeMember(stored)
    PROVE  CpmInv'
<1> DEFINE n == NewName(FcbName(stored))
           R == {own} \union Fcbs
<1>1. /\ started /\ made' = Append(made, n) /\ table' = Recorded(n)
      /\ own' = own /\ onDrive' = onDrive /\ nameMax' = nameMax /\ started' = started
  BY DEF MakeMember
<1>2. /\ nameMax \in Nat /\ nameMax >= 1 /\ nameMax < MaxSuffix /\ MaxSuffix \in Nat
      /\ table \in Seq(R) /\ made \in Seq(Fcbs) /\ onDrive \in BOOLEAN
      /\ nameMax \in 1 .. TableCap /\ started \in BOOLEAN
  BY Lengths DEF CpmInv, Kind
<1>3. /\ Len(table) = IF Len(made) + Reserved < nameMax THEN Len(made) + Reserved ELSE nameMax
      /\ onDrive => own \in ToSet(table)
      /\ \A i \in DOMAIN made : i <= Room => made[i] \in ToSet(table)
      /\ Len(made) \in Nat /\ Reserved \in 0 .. 1 /\ Room = nameMax - Reserved
  BY <1>1, <1>2 DEF CpmInv, Recording, Reserved, Room
<1> HIDE DEF R
<1>4. Len(table) \in Nat /\ Len(table) < MaxSuffix
  BY <1>2, <1>3
<1>5. n \in Fcbs /\ n \notin ToSet(table)
  <2>1. stored \in Seq(Chars)
    BY StoredAssumption
  <2>2. FcbName(stored) \in Fcbs
    BY <2>1, FcbNameFits
  <2> QED
    BY <1>2, <1>4, <2>2, NewNameFree
<1>6. n \in R
  BY <1>5 DEF R
<1> HIDE DEF n
<1>7. /\ made' \in Seq(Fcbs) /\ Len(made') = Len(made) + 1 /\ DOMAIN made' = 1 .. Len(made) + 1
      /\ \A i \in 1 .. Len(made) : made'[i] = made[i]
      /\ made'[Len(made) + 1] = n /\ DOMAIN made = 1 .. Len(made)
  BY <1>1, <1>2, <1>5, KeptInSet
<1>8. /\ table' \in Seq(R) /\ ToSet(table) \subseteq ToSet(table')
      /\ Len(table) < nameMax => Len(table') = Len(table) + 1 /\ n \in ToSet(table')
      /\ ~(Len(table) < nameMax) => table' = table
  <2>1. CASE Len(table) < nameMax
    <3>1. table' = Append(table, n)
      BY <1>1, <2>1 DEF Recorded
    <3> QED
      BY <1>2, <1>6, <2>1, <3>1, KeptInSet
  <2>2. CASE ~(Len(table) < nameMax)
    BY <1>1, <1>2, <2>2 DEF Recorded
  <2> QED
    BY <2>1, <2>2
<1>9. Kind'
  BY <1>1, <1>2, <1>7, <1>8 DEF Kind, R
<1>10. Reserved' = Reserved /\ Room' = Room
  BY <1>1 DEF Reserved, Room
<1>11. ASSUME NEW i \in DOMAIN made', i <= Room
       PROVE  made'[i] \in ToSet(table')
  <2>1. CASE i \in 1 .. Len(made)
    BY <1>3, <1>7, <1>8, <1>11, <2>1
  <2>2. CASE i = Len(made) + 1
    BY <1>2, <1>3, <1>7, <1>8, <1>11, <2>2
  <2> QED
    BY <1>3, <1>7, <2>1, <2>2
<1>12. Recording'
  <2>1. Len(table') = IF Len(made') + Reserved' < nameMax' THEN Len(made') + Reserved' ELSE nameMax'
    <3>1. CASE Len(table) < nameMax
      BY <1>1, <1>2, <1>3, <1>7, <1>8, <1>10, <3>1
    <3>2. CASE ~(Len(table) < nameMax)
      BY <1>1, <1>2, <1>3, <1>7, <1>8, <1>10, <3>2
    <3> QED
      BY <3>1, <3>2
  <2>2. onDrive' => own' \in ToSet(table')
    BY <1>1, <1>3, <1>8
  <2> QED
    BY <1>1, <1>10, <1>11, <2>1, <2>2 DEF Recording
<1>13. ArchiveKept'
  <2>1. ASSUME onDrive, NEW i \in DOMAIN made'
        PROVE  made'[i] # own
    <3>1. CASE i \in 1 .. Len(made)
      BY <1>7, <2>1, <3>1 DEF CpmInv, ArchiveKept
    <3>2. CASE i = Len(made) + 1
      BY <1>3, <1>5, <1>7, <2>1, <3>2
    <3> QED
      BY <1>3, <1>7, <3>1, <3>2
  <2> QED
    BY <1>1, <2>1 DEF ArchiveKept
<1>14. MembersKept'
  <2>1. ASSUME NEW i \in DOMAIN made', NEW j \in DOMAIN made', i < j, i <= Room
        PROVE  made'[i] # made'[j]
    <3>1. i \in 1 .. Len(made)
      BY <1>3, <1>7, <2>1
    <3>2. CASE j \in 1 .. Len(made)
      BY <1>7, <2>1, <3>1, <3>2 DEF CpmInv, MembersKept
    <3>3. CASE j = Len(made) + 1
      <4>1. made[i] \in ToSet(table)
        BY <1>3, <1>7, <2>1, <3>1
      <4> QED
        BY <1>5, <1>7, <3>1, <3>3, <4>1
    <3> QED
      BY <1>3, <1>7, <3>2, <3>3
  <2> QED
    BY <1>10, <2>1 DEF MembersKept
<1> QED
  BY <1>9, <1>12, <1>13, <1>14 DEF CpmInv

LEMMA CpmKeeps == CpmInv /\ [Next]_vars => CpmInv'
<1> SUFFICES ASSUME CpmInv, [Next]_vars PROVE CpmInv'
  OBVIOUS
<1>1. CASE UNCHANGED cpm
  BY <1>1 DEF cpm, CpmInv, Kind, Recording, Reserved, ArchiveKept, MembersKept, Room
<1>2. CASE Cpm80un
  BY <1>2, CpmStarts, CpmMakes DEF Cpm80un
<1>3. ~Cpm80un => UNCHANGED cpm
  BY DEF Next, vars, cpm, Detect, ReadMember, BadData, ReadEnd, ReadFile, Write, WriteFails, Done
<1> QED
  BY <1>1, <1>2, <1>3

\* What main and cpm$name keep true of the table and the names made.
THEOREM CpmInvariant == Spec => []CpmInv
<1>1. CpmInv /\ [Next]_vars => CpmInv'
  BY CpmKeeps
<1> QED
  BY <1>1, CpmStart, PTL DEF Spec

\* No member of 80un.com is made over the archive it comes from
\* (reserve$name, src/plm/names.plm, from main of src/plm/main.plm).
THEOREM ArchiveIsKept == Spec => []ArchiveKept
<1>1. CpmInv => ArchiveKept
  BY DEF CpmInv
<1> QED
  BY <1>1, CpmInvariant, PTL

\* Nor over another member the table had room for (name$taken and cpm$name).
THEOREM MembersAreKept == Spec => []MembersKept
<1>1. CpmInv => MembersKept
  BY DEF CpmInv
<1> QED
  BY <1>1, CpmInvariant, PTL

\* A number put on a name never makes it too long for an FCB, costs it its
\* name part, or touches its type (cpm$name).
THEOREM NamesFitFcb == Spec => []FitsFcb
<1>1. CpmInv => FitsFcb
  <2> SUFFICES ASSUME CpmInv, NEW i \in DOMAIN made
               PROVE  /\ Len(made[i].name) \in 1 .. NameLen /\ Len(made[i].type) <= TypeLen
                      /\ "." \notin ToSet(made[i].name \o made[i].type)
    BY DEF FitsFcb
  <2> DEFINE a == made[i].name
             b == made[i].type
  <2>1. made[i] \in Fcbs
    BY DEF CpmInv, Kind
  <2>2. /\ Len(a) \in 1 .. NameLen /\ Len(b) <= TypeLen
        /\ a \in Seq(CpmChars) /\ b \in Seq(CpmChars)
    BY <2>1 DEF Fcbs
  <2> HIDE DEF a, b
  <2>3. a \o b \in Seq(CpmChars)
    BY <2>2, ConcatProperties
  <2>4. "." \notin ToSet(a \o b)
    <3> DEFINE s == a \o b
    <3>1. s \in Seq(CpmChars)
      BY <2>3
    <3> HIDE DEF s
    <3>2. \A k \in DOMAIN s : s[k] # "."
      BY <3>1 DEF CpmChars
    <3> QED
      BY <3>2 DEF ToSet, s
  <2> QED
    BY <2>2, <2>4 DEF a, b
<1> QED
  BY <1>1, CpmInvariant, PTL
-----------------------------------------------------------------------------
LEMMA NothingIn == \A s : s = <<>> => DOMAIN s = {} /\ Len(s) = 0
OBVIOUS

LEMMA RunStart == Init => RunInv
<1> SUFFICES ASSUME Init PROVE RunInv
  OBVIOUS
<1>1. /\ used = {} /\ pyMade = <<>> /\ results = <<>> /\ paths = <<>> /\ skipped = {}
      /\ why = "" /\ disk = before
  BY DEF Init
<1>2. pc \in {"start", "done"}
  BY DEF Init
<1>3. pc = "start" => opt.away \/ before[Folded(ArchiveName)] = File("archive")
  <2> SUFFICES ASSUME pc = "start", ~opt.away
               PROVE  before[Folded(ArchiveName)] = File("archive")
    OBVIOUS
  <2>1. PICK old \in SUBSET Before : before = Directory(opt.away, old)
    BY DEF Init
  <2>2. Folded(ArchiveName) \in {Folded(x) : x \in old \union (IF opt.away THEN {} ELSE {ArchiveName})}
    OBVIOUS
  <2> QED
    BY <2>1, <2>2 DEF Directory
<1>4. PyKind
  BY <1>1, <1>2, NoneOf, FS_EmptySet DEF PyKind
<1>5. /\ DOMAIN pyMade = {} /\ DOMAIN paths = {}
      /\ Len(pyMade) = 0 /\ Len(results) = 0 /\ Len(paths) = 0
  BY <1>1, NothingIn
<1>6. Begun /\ Failing
  BY <1>1, <1>2, <1>3 DEF Begun, Failing
<1>7. PyMembersKept /\ NoClobber
  BY <1>1, <1>5 DEF PyMembersKept, NoClobber
<1>8. Writing
  <2>1. Len(results) = Len(pyMade) /\ Len(paths) <= Len(results) /\ Len(paths) = Len(results)
    BY <1>5
  <2>2. skipped \subseteq DOMAIN paths
    BY <1>1
  <2>3. DOMAIN before \subseteq DOMAIN disk /\ \A n \in DOMAIN disk \ DOMAIN before : FALSE
    BY <1>1, Zenon
  <2> QED
    BY <1>5, <2>1, <2>2, <2>3 DEF Writing
<1> QED
  BY <1>4, <1>6, <1>7, <1>8 DEF RunInv

LEMMA RunStutters == RunInv /\ UNCHANGED <<pyNames, py>> => RunInv'
BY DEF RunInv, PyKind, Begun, Failing, Writing, PyMembersKept, NoClobber, IsOnDisk, Due,
       pyNames, py

LEMMA RunDetects ==
    ASSUME RunInv, NEW forced, NEW holds, NEW ext, Detect(forced, holds, ext)
    PROVE  RunInv'
<1>1. /\ pc = "start" /\ pc' \in {"read", "done", "failed"} /\ (opt.list => pc' # "read")
      /\ (pc' = "failed" => why' # "disk")
      /\ UNCHANGED <<pyNames, opt, results, paths, disk, before, skipped>>
  BY DEF Detect, Ends
<1>2. used' = {} /\ pyMade' = <<>> /\ results' = <<>> /\ paths' = <<>> /\ skipped' = {}
      /\ disk' = before' /\ UNCHANGED <<opt, before>>
      /\ (opt.away \/ before[Folded(ArchiveName)] = File("archive"))
  BY <1>1 DEF RunInv, Begun, pyNames
<1>3. PyKind'
  BY <1>1, <1>2, NoneOf, FS_EmptySet DEF PyKind
<1>4. /\ DOMAIN pyMade' = {} /\ DOMAIN paths' = {}
      /\ Len(pyMade') = 0 /\ Len(results') = 0 /\ Len(paths') = 0
  BY <1>2
<1>5. Begun'
  <2>1. used' = {Folded(pyMade'[i]) : i \in DOMAIN pyMade'}
    BY <1>2, <1>4
  <2>2. /\ pc' # "start" /\ Len(pyMade') = Len(results')
        /\ paths' = <<>> /\ skipped' = {} /\ disk' = before'
        /\ opt' = opt /\ before' = before
    BY <1>1, <1>2, <1>4
  <2>3. opt.list => pc' \notin {"read", "write"}
    BY <1>1
  <2> QED
    BY <1>2, <2>1, <2>2, <2>3 DEF Begun
<1>6. Failing'
  BY <1>2 DEF Failing
<1>7. PyMembersKept' /\ NoClobber'
  BY <1>2, <1>4 DEF PyMembersKept, NoClobber
<1>8. Writing'
  BY <1>2, <1>4 DEF Writing
<1> QED
  BY <1>3, <1>5, <1>6, <1>7, <1>8 DEF RunInv

\* A member gets a name no member has, and comes out of a file nothing has
\* been written to.
LEMMA RunReads ==
    ASSUME RunInv, NEW stored \in PyStored, NEW name \in Embedded \union {stored},
           ReadMember(stored, name)
    PROVE  RunInv'
<1> DEFINE fallback == IF fmt = "lbr" THEN stored ELSE Unnamed
           p == Unique(Clean(name, fallback))
           r == Member(Read, Len(results) + 1)
<1>1. /\ pc = "read" /\ pyMade' = Append(pyMade, p) /\ used' = used \union {Folded(p)}
      /\ \/ (pc' = "failed" /\ why' = "text" /\ results' = results)
         \/ (pc' = pc /\ why' = why /\ results' = Append(results, r))
      /\ UNCHANGED <<opt, paths, disk, before, skipped>>
  BY DEF ReadMember, PyMakeMember, Ends
<1>2. /\ IsFiniteSet(used) /\ pyMade \in Seq(Seq(Chars)) /\ paths = <<>> /\ skipped = {}
      /\ results \in Seq([file : {"archive"}, member : Nat])
      /\ used = {Folded(pyMade[i]) : i \in DOMAIN pyMade} /\ Len(pyMade) = Len(results)
      /\ disk = before /\ (opt.away \/ before[Folded(ArchiveName)] = File("archive"))
      /\ ~opt.list
  BY <1>1 DEF RunInv, PyKind, Begun
<1>3. p \in Seq(Chars) /\ Folded(p) \notin used
  <2>1. name \in Seq(Chars) /\ stored \in Seq(Chars) /\ Unnamed \in Seq(Chars)
    BY StoredAssumption, CharAssumption, OneOf DEF Unnamed
  <2>2. fallback \in Seq(Chars)
    BY <2>1
  <2> HIDE DEF fallback
  <2>3. Clean(name, fallback) \in Seq(Chars)
    BY <2>1, <2>2, CleanTyped
  <2> QED
    BY <1>2, <2>3, UniqueFree
<1>4. r \in [file : {"archive"}, member : Nat]
  <2>1. Read = "archive"
    BY <1>2 DEF Read
  <2>2. Len(results) + 1 \in Nat
    BY <1>2
  <2> QED
    BY <2>1, <2>2 DEF Member
<1> HIDE DEF p, r
<1>5. /\ pyMade' \in Seq(Seq(Chars)) /\ Len(pyMade') = Len(pyMade) + 1
      /\ DOMAIN pyMade' = 1 .. Len(pyMade) + 1 /\ pyMade'[Len(pyMade) + 1] = p
      /\ \A i \in 1 .. Len(pyMade) : pyMade'[i] = pyMade[i]
      /\ Len(pyMade) \in Nat /\ DOMAIN pyMade = 1 .. Len(pyMade)
  BY <1>1, <1>2, <1>3, KeptInSet
<1>6. /\ Append(results, r) \in Seq([file : {"archive"}, member : Nat])
      /\ Len(Append(results, r)) = Len(results) + 1
  BY <1>2, <1>4, KeptInSet
<1>7. used' = {Folded(pyMade'[i]) : i \in DOMAIN pyMade'}
  <2> DEFINE f == [i \in DOMAIN pyMade |-> Folded(pyMade[i])]
             g == [i \in DOMAIN pyMade' |-> Folded(pyMade'[i])]
  <2>1. used = {f[i] : i \in 1 .. Len(pyMade)}
    BY <1>2, <1>5
  <2>2. /\ \A i \in 1 .. Len(pyMade) : g[i] = f[i]
        /\ g[Len(pyMade) + 1] = Folded(p)
    BY <1>5
  <2>3. {Folded(pyMade'[i]) : i \in DOMAIN pyMade'} = {g[i] : i \in 1 .. Len(pyMade) + 1}
    BY <1>5
  <2> HIDE DEF f, g
  <2>4. {g[i] : i \in 1 .. Len(pyMade) + 1} = {f[i] : i \in 1 .. Len(pyMade)} \union {Folded(p)}
    <3>1. 1 .. Len(pyMade) + 1 = (1 .. Len(pyMade)) \union {Len(pyMade) + 1}
      BY <1>5
    <3> QED
      BY <2>2, <3>1, Zenon
  <2> QED
    BY <1>1, <2>1, <2>3, <2>4
<1>8. PyKind'
  <2>1. IsFiniteSet(used')
    BY <1>1, <1>2, FS_AddElement
  <2>2. results' \in Seq([file : {"archive"}, member : Nat])
    BY <1>1, <1>2, <1>6
  <2>3. paths' \in Seq(Seq(Chars))
    BY <1>1, <1>2, NoneOf
  <2>4. pc' \in {"start", "read", "write", "done", "failed"}
    BY <1>1
  <2> QED
    BY <1>5, <2>1, <2>2, <2>3, <2>4 DEF PyKind
<1>9. Begun'
  <2>1. pc' = "read" => Len(pyMade') = Len(results')
    BY <1>1, <1>2, <1>5, <1>6
  <2> QED
    BY <1>1, <1>2, <1>7, <2>1 DEF Begun
<1>10. Failing' /\ Writing'
  BY <1>1, <1>2 DEF Failing, Writing
<1>11. PyMembersKept'
  <2>1. ASSUME NEW i \in DOMAIN pyMade', NEW j \in DOMAIN pyMade', i < j
        PROVE  Folded(pyMade'[i]) # Folded(pyMade'[j])
    <3>1. i \in 1 .. Len(pyMade)
      BY <1>5, <2>1
    <3>2. CASE j \in 1 .. Len(pyMade)
      BY <1>5, <2>1, <3>1, <3>2 DEF RunInv, PyMembersKept
    <3>3. CASE j = Len(pyMade) + 1
      <4>1. Folded(pyMade[i]) \in used
        BY <1>2, <1>5, <3>1
      <4> QED
        BY <1>3, <1>5, <3>1, <3>3, <4>1
    <3> QED
      BY <1>5, <3>2, <3>3
  <2> QED
    BY <2>1 DEF PyMembersKept
<1>12. NoClobber'
  BY <1>1, <1>2 DEF NoClobber
<1> QED
  BY <1>8, <1>9, <1>10, <1>11, <1>12 DEF RunInv

LEMMA RunEndsReading == RunInv /\ (BadData \/ ReadEnd) => RunInv'
<1> SUFFICES ASSUME RunInv, BadData \/ ReadEnd PROVE RunInv'
  OBVIOUS
<1>1. /\ pc = "read" /\ (pc' = "write" \/ (pc' = "failed" /\ why' = "data"))
      /\ UNCHANGED <<pyNames, opt, results, paths, disk, before, skipped>>
  BY DEF BadData, ReadEnd, Ends
<1>2. /\ paths = <<>> /\ skipped = {} /\ disk = before /\ Len(pyMade) = Len(results) /\ ~opt.list
      /\ Len(results) \in Nat
  BY <1>1 DEF RunInv, PyKind, Begun
<1>3. PyKind'
  BY <1>1 DEF RunInv, PyKind, pyNames
<1>4. Begun' /\ Failing' /\ PyMembersKept' /\ NoClobber'
  BY <1>1, <1>2 DEF RunInv, Begun, Failing, PyMembersKept, NoClobber, pyNames
<1>5. Writing'
  BY <1>1, <1>2 DEF Writing, pyNames
<1> QED
  BY <1>3, <1>4, <1>5 DEF RunInv
-----------------------------------------------------------------------------
LEMMA ExtensionTyped == ASSUME NEW name \in Seq(Chars) PROVE Extension(name) \in Seq(Chars)
<1>1. LastDot(name) \in 0 .. Len(name) /\ Len(name) \in Nat
  BY LastDotIn
<1>2. LastDot(name) # 0 => SubSeq(name, LastDot(name) + 1, Len(name)) \in Seq(Chars)
  <2> DEFINE a == LastDot(name) + 1
  <2>1. a \in Nat /\ a >= 1
    BY <1>1
  <2> HIDE DEF a
  <2>2. SubSeq(name, a, Len(name)) \in Seq(Chars)
    BY <1>1, <2>1, PartOf
  <2> QED
    BY <2>2 DEF a
<1>3. LastDot(name) # 0 => Folded(SubSeq(name, LastDot(name) + 1, Len(name))) \in Seq(Chars)
  BY <1>2, FoldedNames
<1> QED
  BY <1>3, NoneOf DEF Extension

LEMMA StemTyped == Stem \in Seq(Chars)
<1>1. ArchiveName \in Seq(Chars)
  BY StoredAssumption
<1>2. LastDot(ArchiveName) \in 0 .. Len(ArchiveName) /\ Len(ArchiveName) \in Nat
  BY <1>1, LastDotIn
<1>3. LastDot(ArchiveName) # 0 => SubSeq(ArchiveName, 1, LastDot(ArchiveName) - 1) \in Seq(Chars)
  BY <1>1, <1>2, PartOf
<1> QED
  BY <1>1, <1>3 DEF Stem

LEMMA RebuiltTyped == Rebuilt \in Seq(Chars)
<1> DEFINE ext == Extension(ArchiveName)
           new == <<".", ext[1], ext[1], ext[3]>>
<1>1. ext \in Seq(Chars) /\ Stem \in Seq(Chars) /\ Out \in Seq(Chars)
  BY StoredAssumption, ExtensionTyped, StemTyped
<1>2. Stem \o Out \in Seq(Chars)
  BY <1>1, ConcatProperties
<1> HIDE DEF ext
<1>3. Len(ext) = 3 => Stem \o new \in Seq(Chars)
  <2> SUFFICES ASSUME Len(ext) = 3 PROVE Stem \o new \in Seq(Chars)
    OBVIOUS
  <2>1. ext[1] \in Chars /\ ext[3] \in Chars /\ "." \in Chars
    <3>1. 1 \in 1 .. Len(ext) /\ 3 \in 1 .. Len(ext)
      OBVIOUS
    <3>2. "." \in Chars
      BY CharAssumption
    <3>3. \A i \in 1 .. Len(ext) : ext[i] \in Chars
      BY <1>1, ElementOfSeq
    <3> QED
      BY <3>1, <3>2, <3>3
  <2>2. new \in Seq(Chars)
    <3>1. \A a, b, c \in Chars : <<a, b, b, c>> \in Seq(Chars)
      OBVIOUS
    <3> QED
      BY <2>1, <3>1
  <2> HIDE DEF new
  <2> QED
    BY <1>1, <2>2, ConcatProperties
<1>4. Rebuilt = IF Len(ext) # 3 \/ ext[2] \notin Squeezed THEN Stem \o Out
                ELSE IF ext[1] = ext[2] /\ ext[2] = ext[3] THEN Stem
                ELSE Stem \o new
  BY DEF Rebuilt, ext, new
<1> HIDE DEF new
<1> QED
  BY <1>1, <1>2, <1>3, <1>4, Zenon

LEMMA RunReadsFile ==
    ASSUME RunInv, NEW named \in Embedded \union {<<>>}, ReadFile(named)
    PROVE  RunInv'
<1> DEFINE p == IF fmt = "bas" THEN ArchiveName
                ELSE IF named = <<>> THEN Rebuilt ELSE Clean(named, Stem \o Out)
           r == Member(Read, 1)
<1>1. /\ pc = "read" /\ pc' = "write" /\ pyMade' = <<p>> /\ results' = <<r>>
      /\ UNCHANGED <<used, opt, paths, disk, before, skipped, why>>
  BY DEF ReadFile
<1>2. /\ IsFiniteSet(used) /\ paths = <<>> /\ skipped = {} /\ disk = before
      /\ (opt.away \/ before[Folded(ArchiveName)] = File("archive"))
      /\ ~opt.list
  BY <1>1 DEF RunInv, PyKind, Begun
<1>3. p \in Seq(Chars)
  <2>1. /\ ArchiveName \in Seq(Chars) /\ Rebuilt \in Seq(Chars)
        /\ named # <<>> => named \in Seq(Chars)
    BY StoredAssumption, RebuiltTyped
  <2>2. Stem \o Out \in Seq(Chars)
    <3>1. Stem \in Seq(Chars) /\ Out \in Seq(Chars)
      BY StoredAssumption, StemTyped
    <3> QED
      BY <3>1, ConcatProperties
  <2>3. named # <<>> => Clean(named, Stem \o Out) \in Seq(Chars)
    <3> DEFINE fallback == Stem \o Out
    <3>1. fallback \in Seq(Chars)
      BY <2>2
    <3> HIDE DEF fallback
    <3>2. named # <<>> => Clean(named, fallback) \in Seq(Chars)
      BY <2>1, <3>1, CleanTyped
    <3> QED
      BY <3>2 DEF fallback
  <2> QED
    BY <2>1, <2>3, Zenon
<1>4. r \in [file : {"archive"}, member : Nat]
  <2>1. Read = "archive"
    BY <1>2 DEF Read
  <2> QED
    BY <2>1 DEF Member
<1> HIDE DEF p, r
<1>5. /\ pyMade' \in Seq(Seq(Chars)) /\ Len(pyMade') = 1 /\ DOMAIN pyMade' = {1}
      /\ results' \in Seq([file : {"archive"}, member : Nat]) /\ Len(results') = 1
  <2>1. \A S : \A x \in S : <<x>> \in Seq(S) /\ Len(<<x>>) = 1 /\ DOMAIN <<x>> = {1}
    OBVIOUS
  <2> QED
    BY <1>1, <1>3, <1>4, <2>1, Zenon
<1>6. PyKind'
  BY <1>1, <1>2, <1>5, NoneOf DEF PyKind
<1>7. Begun' /\ Failing'
  BY <1>1, <1>2 DEF Begun, Failing
<1>8. PyMembersKept' /\ NoClobber'
  BY <1>1, <1>2, <1>5 DEF PyMembersKept, NoClobber
<1>9. Writing'
  <2>1. /\ Len(paths') = 0 /\ DOMAIN paths' = {} /\ skipped' = {}
    BY <1>1, <1>2, NothingIn
  <2>2. DOMAIN before' \subseteq DOMAIN disk' /\ \A n \in DOMAIN disk' \ DOMAIN before' : FALSE
    BY <1>1, <1>2, Zenon
  <2> QED
    BY <1>1, <1>5, <2>1, <2>2 DEF Writing
<1> QED
  BY <1>6, <1>7, <1>8, <1>9 DEF RunInv

\* No two results have one name, so none is numbered again on its way out.
LEMMA PathIsName ==
    ASSUME RunInv, pc = "write", Len(paths) < Len(results)
    PROVE  /\ Len(paths) + 1 \in DOMAIN pyMade /\ Path = pyMade[Len(paths) + 1]
           /\ \A i \in DOMAIN paths : Folded(pyMade[i]) # Folded(pyMade[Len(paths) + 1])
           /\ DOMAIN paths = 1 .. Len(paths) /\ Len(paths) \in Nat
           /\ pyMade[Len(paths) + 1] \in Seq(Chars)
<1> DEFINE last == Len(paths) + 1
           name == pyMade[last]
           free == {k \in 0 .. Len(paths) : Suffixed(name, k) \notin ToSet(paths)}
<1>1. /\ pyMade \in Seq(Seq(Chars)) /\ paths \in Seq(Seq(Chars)) /\ Len(results) = Len(pyMade)
      /\ \A i \in DOMAIN paths : paths[i] = pyMade[i]
  BY DEF RunInv, PyKind, Writing
<1>2. /\ last \in DOMAIN pyMade /\ DOMAIN paths = 1 .. Len(paths) /\ Len(paths) \in Nat
      /\ \A i \in DOMAIN paths : i \in DOMAIN pyMade /\ i < last
  BY <1>1
<1>3. name \in Seq(Chars)
  BY <1>1, <1>2
<1>4. \A i \in DOMAIN paths : Folded(pyMade[i]) # Folded(name)
  BY <1>2 DEF RunInv, PyMembersKept
<1>5. name \notin ToSet(paths)
  BY <1>1, <1>4 DEF ToSet
<1> HIDE DEF name
<1>6. Min(free) = 0
  <2>1. 0 \in free
    BY <1>2, <1>5, NotSuffixed
  <2>2. free \subseteq Nat
    BY <1>2
  <2> HIDE DEF free
  <2>3. Min(free) \in free /\ Min(free) <= 0
    BY <2>1, <2>2, MinOf
  <2>4. Min(free) \in Nat
    BY <2>2, <2>3
  <2> QED
    BY <2>3, <2>4
<1>7. Path = Suffixed(name, Min(free))
  BY DEF Path, name
<1> HIDE DEF free
<1>8. Path = name
  BY <1>6, <1>7, NotSuffixed
<1> QED
  BY <1>2, <1>3, <1>4, <1>8 DEF name
LEMMA RunWrites == RunInv /\ Write => RunInv'
<1> SUFFICES ASSUME RunInv, Write PROVE RunInv'
  OBVIOUS
<1> DEFINE last == Len(paths) + 1
           name == pyMade[last]
           key == Folded(name)
<1>1. /\ pc = "write" /\ Len(paths) < Len(results) /\ pc' = pc /\ paths' = Append(paths, Path)
      /\ UNCHANGED <<used, pyMade, opt, results, before, why>>
  BY DEF Write, pyNames
<1>2. /\ last \in DOMAIN pyMade /\ Path = name /\ name \in Seq(Chars)
      /\ \A i \in DOMAIN paths : Folded(pyMade[i]) # key
      /\ DOMAIN paths = 1 .. Len(paths) /\ Len(paths) \in Nat
  BY <1>1, PathIsName
<1>3. /\ paths \in Seq(Seq(Chars)) /\ Len(results) = Len(pyMade) /\ Len(results) \in Nat
      /\ \A i \in DOMAIN paths : paths[i] = pyMade[i]
      /\ skipped \subseteq DOMAIN paths /\ DOMAIN before \subseteq DOMAIN disk
      /\ \A n \in DOMAIN disk \ DOMAIN before : \E i \in DOMAIN paths : n = Folded(pyMade[i])
      /\ \A i \in DOMAIN paths : IsOnDisk(Folded(pyMade[i]), Due(i))
  BY <1>1 DEF RunInv, PyKind, Writing
<1> HIDE DEF name
<1>4. /\ paths' \in Seq(Seq(Chars)) /\ Len(paths') = last /\ DOMAIN paths' = 1 .. last
      /\ \A i \in DOMAIN paths : i \in DOMAIN paths' /\ paths'[i] = paths[i]
      /\ paths'[last] = name
      /\ \A i \in DOMAIN paths' : i \in DOMAIN paths \/ i = last
  BY <1>1, <1>2, <1>3, KeptInSet
<1>5. last \notin DOMAIN paths /\ last \in Nat
  BY <1>2
<1>6. \/ /\ opt.noClobber /\ key \in DOMAIN disk
         /\ skipped' = skipped \union {last} /\ disk' = disk
      \/ /\ ~(opt.noClobber /\ key \in DOMAIN disk)
         /\ skipped' = skipped
         /\ disk' = [n \in DOMAIN disk \union {key} |-> IF n = key THEN results[last] ELSE disk[n]]
  BY <1>2, <1>4 DEF Write, With
<1> HIDE DEF key
<1>7. /\ \A n \in DOMAIN disk : n # key => n \in DOMAIN disk' /\ disk'[n] = disk[n]
      /\ DOMAIN disk \subseteq DOMAIN disk'
      /\ \A n \in DOMAIN disk' : n \in DOMAIN disk \/ n = key
      /\ opt.noClobber => \A n \in DOMAIN disk : disk'[n] = disk[n]
  BY <1>6
<1>8. PyKind'
  BY <1>1, <1>4 DEF RunInv, PyKind
<1>9. Begun' /\ Failing' /\ PyMembersKept'
  BY <1>1 DEF RunInv, Begun, Failing, PyMembersKept
\* What is skipped was there before the first result was written.
<1>10. key \in DOMAIN disk => key \in DOMAIN before
  BY <1>2, <1>3
<1>11. NoClobber'
  <2> SUFFICES ASSUME opt.noClobber
               PROVE  /\ \A n \in DOMAIN before : disk'[n] = before[n]
                      /\ \A i \in skipped' : Folded(pyMade[i]) \in DOMAIN before
    BY <1>1 DEF NoClobber
  <2>1. \A n \in DOMAIN before : disk'[n] = before[n]
    BY <1>3, <1>7 DEF RunInv, NoClobber
  <2>2. ASSUME NEW i \in skipped'
        PROVE  Folded(pyMade[i]) \in DOMAIN before
    <3>1. CASE i \in skipped
      BY <3>1 DEF RunInv, NoClobber
    <3>2. CASE i \notin skipped
      <4>1. i = last /\ key \in DOMAIN disk
        BY <1>6, <2>2, <3>2
      <4> QED
        BY <1>10, <4>1 DEF key, name
    <3> QED
      BY <3>1, <3>2
  <2> QED
    BY <2>1, <2>2
<1>12. ASSUME NEW i \in DOMAIN paths
       PROVE  IsOnDisk(Folded(pyMade[i]), Due(i))'
  <2> DEFINE n == Folded(pyMade[i])
  <2>1. n \in DOMAIN disk /\ disk[n] = Due(i) /\ n # key
    BY <1>2, <1>3 DEF IsOnDisk
  <2>2. i \in skipped' <=> i \in skipped
    BY <1>5, <1>6
  <2>3. Due(i)' = Due(i)
    BY <1>1, <2>2 DEF Due
  <2>4. n \in DOMAIN disk' /\ disk'[n] = Due(i)
    <3> HIDE DEF n
    <3> QED
      BY <1>7, <2>1
  <2> QED
    BY <1>1, <2>3, <2>4 DEF IsOnDisk
<1>13. ASSUME NEW i, i = last
       PROVE  IsOnDisk(Folded(pyMade[i]), Due(i))'
  <2>1. Folded(pyMade[i]) = key
    BY <1>13 DEF name, key
  <2>2. i \notin skipped
    BY <1>3, <1>5, <1>13
  <2>3. CASE opt.noClobber /\ key \in DOMAIN disk
    <3>1. i \in skipped' /\ disk' = disk
      BY <1>6, <1>13, <2>3
    <3>2. key \in DOMAIN before /\ disk[key] = before[key]
      BY <1>10, <2>3 DEF RunInv, NoClobber
    <3> QED
      BY <1>1, <2>1, <2>3, <3>1, <3>2 DEF IsOnDisk, Due
  <2>4. CASE ~(opt.noClobber /\ key \in DOMAIN disk)
    <3>1. i \notin skipped' /\ key \in DOMAIN disk' /\ disk'[key] = results[i]
      BY <1>6, <1>13, <2>2, <2>4
    <3> QED
      BY <1>1, <2>1, <3>1 DEF IsOnDisk, Due
  <2> QED
    BY <2>3, <2>4
<1>14. Writing'
  <2>1. Len(results') = Len(pyMade') /\ Len(paths') <= Len(results') /\ pc' # "done"
    BY <1>1, <1>2, <1>3, <1>4
  <2>2. \A i \in DOMAIN paths' : paths'[i] = pyMade'[i]
    BY <1>1, <1>3, <1>4 DEF name
  <2>3. skipped' \subseteq DOMAIN paths'
    BY <1>2, <1>3, <1>4, <1>6
  <2>4. DOMAIN before' \subseteq DOMAIN disk'
    BY <1>1, <1>3, <1>7
  <2>5. ASSUME NEW n \in DOMAIN disk' \ DOMAIN before'
        PROVE  \E i \in DOMAIN paths' : n = Folded(pyMade'[i])
    <3>1. CASE n = key
      <4>1. last \in DOMAIN paths' /\ n = Folded(pyMade'[last])
        BY <1>1, <1>2, <1>4, <3>1 DEF key, name
      <4> QED
        BY <4>1
    <3>2. CASE n \in DOMAIN disk
      <4>1. PICK i \in DOMAIN paths : n = Folded(pyMade[i])
        BY <1>1, <1>3, <2>5, <3>2
      <4>2. i \in DOMAIN paths'
        BY <1>4
      <4> QED
        BY <1>1, <4>1, <4>2
    <3> QED
      BY <1>7, <2>5, <3>1, <3>2
  <2>6. \A i \in DOMAIN paths' : IsOnDisk(Folded(pyMade[i]), Due(i))'
    BY <1>4, <1>12, <1>13
  <2> QED
    BY <2>1, <2>2, <2>3, <2>4, <2>5, <2>6 DEF Writing
<1> QED
  BY <1>8, <1>9, <1>11, <1>14 DEF RunInv

\* A write that fails leaves its file as it was, or short; with -n it is not a
\* file that was there.
LEMMA RunFails == RunInv /\ WriteFails => RunInv'
<1> SUFFICES ASSUME RunInv, WriteFails PROVE RunInv'
  OBVIOUS
<1> DEFINE key == Folded(pyMade[Len(paths) + 1])
<1>1. /\ pc = "write" /\ Len(paths) < Len(results) /\ pc' = "failed" /\ why' = "disk"
      /\ UNCHANGED <<used, pyMade, opt, results, paths, before, skipped>>
  BY DEF WriteFails, Ends, pyNames
<1>2. Path = pyMade[Len(paths) + 1]
  BY <1>1, PathIsName
<1>3. /\ ~(opt.noClobber /\ key \in DOMAIN disk)
      /\ \/ disk' = disk
         \/ disk' = [n \in DOMAIN disk \union {key} |-> IF n = key THEN File("partial") ELSE disk[n]]
  BY <1>2 DEF WriteFails, With
<1> HIDE DEF key
<1>4. DOMAIN before \subseteq DOMAIN disk
  BY <1>1 DEF RunInv, Writing
<1>5. NoClobber'
  <2>1. opt.noClobber => \A n \in DOMAIN before : disk'[n] = before[n]
    BY <1>3, <1>4 DEF RunInv, NoClobber
  <2> QED
    BY <1>1, <2>1 DEF RunInv, NoClobber
<1>6. PyKind' /\ Failing' /\ Writing' /\ PyMembersKept'
  BY <1>1 DEF RunInv, PyKind, Failing, Writing, PyMembersKept
<1>7. Begun'
  BY <1>1 DEF RunInv, Begun
<1> QED
  BY <1>5, <1>6, <1>7 DEF RunInv

LEMMA RunIsDone == RunInv /\ Done => RunInv'
<1> SUFFICES ASSUME RunInv, Done PROVE RunInv'
  OBVIOUS
<1>1. /\ pc = "write" /\ Len(paths) = Len(results) /\ pc' = "done"
      /\ UNCHANGED <<used, pyMade, opt, results, paths, disk, before, skipped, why>>
  BY DEF Done, pyNames
<1>2. PyKind' /\ Failing' /\ PyMembersKept' /\ NoClobber'
  BY <1>1 DEF RunInv, PyKind, Failing, PyMembersKept, NoClobber
<1>3. Begun'
  BY <1>1 DEF RunInv, Begun
<1>4. Writing'
  BY <1>1 DEF RunInv, Writing, IsOnDisk, Due
<1> QED
  BY <1>2, <1>3, <1>4 DEF RunInv

LEMMA RunKeeps == RunInv /\ [Next]_vars => RunInv'
<1> SUFFICES ASSUME RunInv, [Next]_vars PROVE RunInv'
  OBVIOUS
<1>1. CASE UNCHANGED vars
  BY <1>1, RunStutters DEF vars
<1>2. CASE Cpm80un
  <2>1. UNCHANGED <<pyNames, py>>
    BY <1>2 DEF Cpm80un, Start, MakeMember, pyNames
  <2> QED
    BY <2>1, RunStutters
<1>3. ASSUME NEW forced \in {"no", "bas", "arc", "lbr"} \union Compressed,
             NEW holds \in Contents, NEW ext \in Extensions, Detect(forced, holds, ext)
      PROVE  RunInv'
  BY <1>3, RunDetects
<1>4. ASSUME NEW stored \in PyStored, NEW name \in Embedded \union {stored},
             ReadMember(stored, name)
      PROVE  RunInv'
  BY <1>4, RunReads
<1>5. ASSUME NEW named \in Embedded \union {<<>>}, ReadFile(named)
      PROVE  RunInv'
  BY <1>5, RunReadsFile
<1>6. CASE BadData \/ ReadEnd
  BY <1>6, RunEndsReading
<1>7. CASE Write \/ WriteFails \/ Done
  BY <1>7, RunWrites, RunFails, RunIsDone
<1> QED
  BY <1>1, <1>2, <1>3, <1>4, <1>5, <1>6, <1>7 DEF Next

\* What cmd_extract and the readers keep true of a run of 80un.
THEOREM RunInvariant == Spec => []RunInv
<1>1. RunInv /\ [Next]_vars => RunInv'
  BY RunKeeps
<1> QED
  BY <1>1, RunStart, PTL DEF Spec

\* Every member 80un extracts has a file of its own, on a host that does not
\* tell cases apart too (unique_filename, src/un80/cpm.py).
THEOREM PyMembersAreKept == Spec => []PyMembersKept
<1>1. RunInv => PyMembersKept
  BY DEF RunInv
<1> QED
  BY <1>1, RunInvariant, PTL

\* Every member is read from the archive as it was, whatever the members
\* before it are called: the file is read to its end before any is written
\* (extract_arc and extract_lbr, under cmd_extract).
THEOREM ReadIsWhole == Spec => []ReadWhole
<1>1. RunInv => ReadWhole
  <2> SUFFICES ASSUME RunInv, NEW i \in DOMAIN results PROVE results[i].file = "archive"
    BY DEF ReadWhole
  <2>1. results \in Seq([file : {"archive"}, member : Nat]) /\ i \in 1 .. Len(results)
    BY DEF RunInv, PyKind
  <2>2. results[i] \in [file : {"archive"}, member : Nat]
    BY <2>1, ElementOfSeq
  <2> QED
    BY <2>2
<1> QED
  BY <1>1, RunInvariant, PTL

\* -n leaves every file as it was, and leaves out a member for no other reason
\* (safe_write, src/un80/cli.py).
THEOREM NothingClobbered == Spec => []NoClobber
<1>1. RunInv => NoClobber
  BY DEF RunInv
<1> QED
  BY <1>1, RunInvariant, PTL

\* 0: every result is on the disk, of the name it was given, or was left out
\* for a file that was there.  1, unless a file could not be written, and -l:
\* nothing on the disk has changed (main and cmd_extract, src/un80/cli.py).
THEOREM ExitStatusTells == Spec => []ExitTells
<1>1. RunInv => ExitTells
  <2> SUFFICES ASSUME RunInv PROVE ExitTells
    OBVIOUS
  <2>1. ASSUME pc = "done", NEW i \in DOMAIN results
        PROVE  IsOnDisk(Folded(pyMade[i]), Due(i))
    <3>1. /\ Len(paths) = Len(results) /\ paths \in Seq(Seq(Chars))
          /\ results \in Seq([file : {"archive"}, member : Nat])
          /\ \A j \in DOMAIN paths : IsOnDisk(Folded(pyMade[j]), Due(j))
      BY <2>1 DEF RunInv, PyKind, Writing
    <3>2. i \in DOMAIN paths
      BY <3>1
    <3> QED
      BY <3>1, <3>2
  <2>2. (pc = "failed" /\ why # "disk") \/ opt.list => disk = before
    BY DEF RunInv, Begun, Failing
  <2> QED
    BY <2>1, <2>2 DEF ExitTells
<1> QED
  BY <1>1, RunInvariant, PTL
==============================================================================
