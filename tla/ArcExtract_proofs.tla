------------------------- MODULE ArcExtract_proofs --------------------------
(***************************************************************************)
(* Whatever becomes of a member, the driver stands where the next header   *)
(* begins; so no member is lost, and an archive that is not cut inside a   *)
(* header gives the members that the Python tool finds.  For archives of   *)
(* any number of members, of any sizes, cut at any place.                  *)
(*                                                                         *)
(* First where things lie in an archive (Start, Layout and the fields of a *)
(* header), then the driver's own invariant, then what parse_header makes  *)
(* of the same cells.                                                      *)
(***************************************************************************)
EXTENDS ArcExtract, SequenceTheorems, WellFoundedInduction, TLAPS

\* A set of numbers that is not empty has a least one.
LEMMA LeastOf ==
    ASSUME NEW S, S \subseteq Nat, S # {}
    PROVE  \E m \in S : \A n \in S : m <= n
<1>1. PICK m \in S : \A n \in S : ~(<<n, m>> \in OpToRel(<, Nat))
  BY NatLessThanWellFounded, WFMin, Zenon
<1>2. \A n \in S : ~(n < m)
  BY <1>1 DEF OpToRel
<1> QED
  BY <1>2
-----------------------------------------------------------------------------
(* Cells and headers.                                                      *)
N == Len(members)
Archived == members \in Seq(Members) /\ ended \in BOOLEAN

\* The fields a member has.
LEMMA MemberFields ==
    ASSUME NEW m \in Members
    PROVE  m.method \in {"old", "known", "unknown"} /\ m.name \in Names /\ m.size \in Nat
BY MembersAssumption DEF Names

\* Four cells, and four with a fifth after them.
LEMMA FourCells ==
    ASSUME NEW a, NEW b, NEW c, NEW d, NEW e
    PROVE  /\ <<a, b, c, d>> \o <<>> = <<a, b, c, d>>
           /\ <<a, b, c, d>> \o <<e>> = <<a, b, c, d, e>>
           /\ <<a, b, c, d>> \in Seq({a, b, c, d, e}) /\ <<a, b, c, d, e>> \in Seq({a, b, c, d, e})
           /\ Len(<<a, b, c, d>>) = 4 /\ Len(<<a, b, c, d, e>>) = 5
<1> DEFINE S == {a, b, c, d, e}
<1>1. /\ <<a, b, c, d>> \in Seq(S) /\ <<a, b, c, d, e>> \in Seq(S) /\ <<>> \in Seq(S) /\ <<e>> \in Seq(S)
      /\ Len(<<a, b, c, d>>) = 4 /\ Len(<<a, b, c, d, e>>) = 5 /\ Len(<<>>) = 0 /\ Len(<<e>>) = 1
  OBVIOUS
<1>2. <<a, b, c, d>> \o <<>> = <<a, b, c, d>>
  BY <1>1, ConcatEmptySeq, Zenon
<1>3. <<a, b, c, d>> \o <<e>> = <<a, b, c, d, e>>
  <2> DEFINE s == <<a, b, c, d>> \o <<e>>
             t == <<a, b, c, d, e>>
  <2>1. /\ s \in Seq(S) /\ Len(s) = 5
        /\ \A i \in 1 .. 5 : s[i] = IF i <= 4 THEN <<a, b, c, d>>[i] ELSE <<e>>[i - 4]
    BY <1>1, ConcatProperties
  <2>2. s[1] = a /\ s[2] = b /\ s[3] = c /\ s[4] = d /\ s[5] = e
    <3> HIDE DEF s
    <3> QED
      BY <2>1
  <2>3. t[1] = a /\ t[2] = b /\ t[3] = c /\ t[4] = d /\ t[5] = e /\ t \in Seq(S) /\ Len(t) = 5
    BY <1>1
  <2>4. \A i \in 1 .. 5 : i \in {1, 2, 3, 4, 5}
    BY SMT
  <2> HIDE DEF s, t
  <2>5. \A i \in 1 .. 5 : s[i] = t[i]
    BY <2>2, <2>3, <2>4
  <2>6. s = t
    BY <2>1, <2>3, <2>5, SeqEqual
  <2> QED
    BY <2>6 DEF s, t
<1> QED
  BY <1>1, <1>2, <1>3

\* How long a header is, and what is in it.
LEMMA HeaderOf ==
    ASSUME NEW m \in Members
    PROVE  /\ Len(Header(m)) = HeaderLen(m.method) /\ HeaderLen(m.method) \in {4, 5}
           /\ Header(m)[1] = <<"mark">> /\ Header(m)[2] = <<"method", m.method>>
           /\ Header(m)[3] = <<"name", m.name>> /\ Header(m)[4] = <<"size", m.size>>
           /\ m.method # "old" => Header(m)[5] = <<"orig">>
           /\ \E S : Header(m) \in Seq(S)
<1> DEFINE a == <<"mark">>
           b == <<"method", m.method>>
           c == <<"name", m.name>>
           d == <<"size", m.size>>
           e == <<"orig">>
           S == {a, b, c, d, e}
<1>1. Header(m) = <<a, b, c, d>> \o (IF m.method = "old" THEN <<>> ELSE <<e>>)
  BY DEF Header
<1> HIDE DEF a, b, c, d, e
<1>2. CASE m.method = "old"
  <2>1. Header(m) = <<a, b, c, d>>
    BY <1>1, <1>2, FourCells
  <2>2. Header(m) \in Seq(S) /\ Len(Header(m)) = 4
    BY <2>1, FourCells
  <2>3. Header(m)[1] = a /\ Header(m)[2] = b /\ Header(m)[3] = c /\ Header(m)[4] = d
    BY <2>1
  <2> QED
    BY <1>2, <2>2, <2>3 DEF HeaderLen, a, b, c, d
<1>3. CASE m.method # "old"
  <2>1. Header(m) = <<a, b, c, d, e>>
    BY <1>1, <1>3, FourCells
  <2>2. Header(m) \in Seq(S) /\ Len(Header(m)) = 5
    BY <2>1, FourCells
  <2>3. /\ Header(m)[1] = a /\ Header(m)[2] = b /\ Header(m)[3] = c /\ Header(m)[4] = d
        /\ Header(m)[5] = e
    BY <2>1
  <2> QED
    BY <1>3, <2>2, <2>3 DEF HeaderLen, a, b, c, d, e
<1> QED
  BY <1>2, <1>3

\* A member is its header and then its data.
LEMMA CellsOf ==
    ASSUME NEW m \in Members
    PROVE  /\ Len(Cells(m)) = HeaderLen(m.method) + m.size
           /\ \A j \in 1 .. HeaderLen(m.method) : Cells(m)[j] = Header(m)[j]
           /\ \A j \in HeaderLen(m.method) + 1 .. Len(Cells(m)) : Cells(m)[j] = <<"data">>
           /\ Len(Cells(m)) \in Nat /\ Len(Cells(m)) >= 4
<1> DEFINE d == <<"data">>
           data == [i \in 1 .. m.size |-> d]
           h == Header(m)
           k == HeaderLen(m.method)
<1>1. m.size \in Nat
  BY MemberFields
<1>2. PICK S : h \in Seq(S)
  BY HeaderOf
<1>3. Len(h) = k /\ k \in {4, 5}
  BY HeaderOf
<1>4. data \in Seq(S \union {d}) /\ Len(data) = m.size /\ \A i \in 1 .. m.size : data[i] = d
  <2> HIDE DEF d
  <2> QED
    BY <1>1
<1>5. h \in Seq(S \union {d})
  <2> HIDE DEF h, d
  <2> QED
    BY <1>2
<1> HIDE DEF data, h, k
<1>6. /\ Len(h \o data) = Len(h) + Len(data)
      /\ \A i \in 1 .. Len(h) + Len(data) :
            (h \o data)[i] = IF i <= Len(h) THEN h[i] ELSE data[i - Len(h)]
  <2> HIDE DEF d
  <2> QED
    BY <1>4, <1>5, ConcatProperties
<1>7. Cells(m) = h \o data
  BY DEF Cells, h, data
<1> HIDE DEF d
<1>8. /\ Len(h \o data) = k + m.size /\ k \in Nat
      /\ \A i \in 1 .. k : (h \o data)[i] = h[i]
      /\ \A i \in k + 1 .. k + m.size : (h \o data)[i] = d
  BY <1>1, <1>3, <1>4, <1>6
<1>9. k + m.size \in Nat /\ k + m.size >= 4
  BY <1>1, <1>3
<1> QED
  BY <1>7, <1>8, <1>9 DEF h, k, d
-----------------------------------------------------------------------------
(* Where members begin.                                                    *)
StartFrom(g, i) == IF i = 1 THEN 0 ELSE g[i - 1] + Len(Cells(members[i - 1]))

\* Start is the function its definition describes.
LEMMA StartRecursion ==
    ASSUME Archived
    PROVE  \A i \in 1 .. N + 1 : Start[i] = StartFrom(Start, i)
<1> DEFINE UpTo(g, n) == g = [i \in 1 .. n |-> StartFrom(g, i)]
           Bad == {n \in Nat : n <= N + 1 /\ ~\E g : UpTo(g, n)}
<1>1. N \in Nat
  BY DEF Archived, N
<1>2. Bad = {}
  <2> SUFFICES ASSUME Bad # {} PROVE FALSE
    OBVIOUS
  <2>1. PICK n \in Bad : \A k \in Bad : n <= k
    <3>1. Bad \subseteq Nat
      OBVIOUS
    <3> HIDE DEF Bad
    <3> QED
      BY <3>1, LeastOf
  <2>2. n \in Nat /\ n <= N + 1 /\ ~\E g : UpTo(g, n)
    BY <2>1
  <2>3. n # 0
    <3> SUFFICES ASSUME n = 0 PROVE FALSE
      OBVIOUS
    <3> DEFINE g == [i \in 1 .. 0 |-> 0]
    <3>1. g = [i \in 1 .. 0 |-> StartFrom(g, i)]
      <4>1. \A i \in 1 .. 0 : FALSE
        OBVIOUS
      <4> QED
        BY <4>1
    <3> QED
      BY <2>2, <3>1
  <2>4. n - 1 \in Nat /\ n - 1 \notin Bad
    BY <2>1, <2>2, <2>3
  <2>5. PICK g : UpTo(g, n - 1)
    BY <1>1, <2>2, <2>4
  <2> DEFINE h == [i \in 1 .. n |-> IF i = n THEN StartFrom(g, n) ELSE g[i]]
  <2>6. ASSUME NEW i \in 1 .. n
        PROVE  h[i] = StartFrom(h, i)
    <3>1. i # n => i \in 1 .. n - 1
      BY <2>2
    <3>2. i # n => g[i] = StartFrom(g, i)
      BY <2>5, <3>1
    <3>3. h[i] = StartFrom(g, i)
      BY <3>2
    <3>4. i # 1 => i - 1 \in 1 .. n /\ i - 1 # n
      BY <2>2
    <3>5. i # 1 => h[i - 1] = g[i - 1]
      BY <3>4
    <3> HIDE DEF h
    <3> QED
      BY <3>3, <3>5 DEF StartFrom
  <2>7. h = [i \in 1 .. n |-> StartFrom(h, i)]
    BY <2>6
  <2> QED
    BY <2>2, <2>7
<1>3. N + 1 \in Nat /\ N + 1 \notin Bad
  BY <1>1, <1>2
<1>4. \E g : UpTo(g, N + 1)
  BY <1>3
<1>5. \E g : g = [i \in 1 .. Len(members) + 1 |->
                    IF i = 1 THEN 0 ELSE g[i - 1] + Len(Cells(members[i - 1]))]
  BY <1>4 DEF StartFrom, N
<1>6. Start = [i \in 1 .. Len(members) + 1 |->
                 IF i = 1 THEN 0 ELSE Start[i - 1] + Len(Cells(members[i - 1]))]
  BY <1>5 DEF Start
<1> QED
  BY <1>6 DEF StartFrom, N

\* A member begins where the one before it ends.
LEMMA StartSteps ==
    ASSUME Archived
    PROVE  /\ Start[1] = 0 /\ N \in Nat
           /\ \A i \in 1 .. N : /\ members[i] \in Members
                                /\ Start[i + 1] = Start[i] + Len(Cells(members[i]))
                                /\ Len(Cells(members[i])) \in Nat /\ Len(Cells(members[i])) >= 4
<1>1. N \in Nat /\ 1 \in 1 .. N + 1
  BY DEF Archived, N
<1>2. Start[1] = 0
  BY <1>1, StartRecursion DEF StartFrom
<1>3. ASSUME NEW i \in 1 .. N
      PROVE  /\ members[i] \in Members
             /\ Start[i + 1] = Start[i] + Len(Cells(members[i]))
             /\ Len(Cells(members[i])) \in Nat /\ Len(Cells(members[i])) >= 4
  <2>1. members[i] \in Members
    BY DEF Archived, N
  <2>2. i + 1 \in 1 .. N + 1 /\ i + 1 # 1 /\ (i + 1) - 1 = i
    BY <1>1
  <2>3. Start[i + 1] = StartFrom(Start, i + 1)
    BY <2>2, StartRecursion
  <2>4. Start[i + 1] = Start[i] + Len(Cells(members[i]))
    BY <2>2, <2>3 DEF StartFrom
  <2> QED
    BY <2>1, <2>4, CellsOf
<1> QED
  BY <1>1, <1>2, <1>3

\* ... at a number,
LEMMA StartType == ASSUME Archived PROVE \A i \in 1 .. N + 1 : Start[i] \in Nat
<1> DEFINE Bad == {i \in 1 .. N + 1 : Start[i] \notin Nat}
<1> SUFFICES ASSUME Bad # {} PROVE FALSE
  OBVIOUS
<1>1. N \in Nat
  BY StartSteps
<1>2. PICK i \in Bad : \A k \in Bad : i <= k
  <2>1. Bad \subseteq Nat
    BY <1>1
  <2> HIDE DEF Bad
  <2> QED
    BY <2>1, LeastOf
<1>3. i \in 1 .. N + 1 /\ Start[i] \notin Nat
  BY <1>2
<1>4. CASE i = 1
  BY <1>3, <1>4, StartSteps
<1>5. CASE i # 1
  <2> DEFINE k == i - 1
  <2>1. k \in 1 .. N /\ k \in 1 .. N + 1 /\ k + 1 = i /\ ~(i <= k)
    BY <1>1, <1>3, <1>5
  <2> HIDE DEF k
  <2>2. Start[k] \in Nat
    BY <1>2, <2>1
  <2>3. Start[k + 1] = Start[k] + Len(Cells(members[k])) /\ Len(Cells(members[k])) \in Nat
    BY <2>1, StartSteps
  <2> QED
    BY <1>3, <2>1, <2>2, <2>3
<1> QED
  BY <1>4, <1>5

\* ... and no two overlap.
LEMMA StartGrows ==
    ASSUME Archived
    PROVE  \A i, j \in 1 .. N + 1 : i < j => Start[i] + Len(Cells(members[i])) <= Start[j]
<1> SUFFICES ASSUME NEW i \in 1 .. N + 1
             PROVE  \A j \in 1 .. N + 1 : i < j => Start[i] + Len(Cells(members[i])) <= Start[j]
  OBVIOUS
<1> DEFINE c == Start[i] + Len(Cells(members[i]))
           Bad == {j \in 1 .. N + 1 : i < j /\ ~(c <= Start[j])}
<1> SUFFICES ASSUME Bad # {} PROVE FALSE
  OBVIOUS
<1>1. N \in Nat
  BY StartSteps
<1>2. PICK j \in Bad : \A k \in Bad : j <= k
  <2>1. Bad \subseteq Nat
    BY <1>1
  <2> HIDE DEF Bad
  <2> QED
    BY <2>1, LeastOf
<1>3. j \in 1 .. N + 1 /\ i < j /\ ~(c <= Start[j])
  BY <1>2
<1> DEFINE k == j - 1
<1>4. k \in 1 .. N /\ k \in 1 .. N + 1 /\ k + 1 = j /\ ~(j <= k) /\ i <= k /\ i \in 1 .. N
  BY <1>1, <1>3
<1> HIDE DEF k
<1>5. /\ Start[k + 1] = Start[k] + Len(Cells(members[k])) /\ Len(Cells(members[k])) \in Nat
      /\ Start[k] \in Nat /\ Start[i] \in Nat /\ Len(Cells(members[i])) \in Nat
  BY <1>4, StartSteps, StartType
<1>6. c \in Nat
  BY <1>5
<1>7. CASE i = k
  BY <1>3, <1>4, <1>5, <1>6, <1>7
<1>8. CASE i # k
  <2>1. i < k
    BY <1>4, <1>8
  <2>2. c <= Start[k]
    <3> HIDE DEF c
    <3> QED
      BY <1>2, <1>4, <2>1
  <2> HIDE DEF c
  <2> QED
    BY <1>3, <1>4, <1>5, <1>6, <2>2
<1> QED
  BY <1>7, <1>8
-----------------------------------------------------------------------------
(* What lies where in the file.                                            *)
LEMMA MemberAtIs ==
    ASSUME Archived, NEW i \in 1 .. N, NEW p \in Start[i] + 1 .. Start[i + 1]
    PROVE  MemberAt(p) = i
<1>1. /\ N \in Nat /\ DOMAIN members = 1 .. N /\ i \in 1 .. N + 1 /\ i + 1 \in 1 .. N + 1
      /\ \A k \in 1 .. N + 1 : Start[k] \in Nat
  BY StartSteps, StartType DEF Archived, N
<1>2. ASSUME NEW k \in 1 .. N, p \in Start[k] + 1 .. Start[k + 1]
      PROVE  k = i
  <2>1. /\ k \in 1 .. N + 1 /\ k + 1 \in 1 .. N + 1 /\ Start[k] \in Nat /\ Start[k + 1] \in Nat
        /\ Start[i] \in Nat /\ Start[i + 1] \in Nat
    BY <1>1
  <2>2. CASE k < i
    <3>1. Start[k] + Len(Cells(members[k])) <= Start[i]
      BY <1>1, <2>1, <2>2, StartGrows
    <3>2. Start[k + 1] = Start[k] + Len(Cells(members[k]))
      BY StartSteps
    <3> QED
      BY <1>2, <2>1, <3>1, <3>2
  <2>3. CASE i < k
    <3>1. Start[i] + Len(Cells(members[i])) <= Start[k]
      BY <1>1, <2>1, <2>3, StartGrows
    <3>2. Start[i + 1] = Start[i] + Len(Cells(members[i]))
      BY StartSteps
    <3> QED
      BY <1>2, <2>1, <3>1, <3>2
  <2> QED
    BY <1>1, <2>2, <2>3
<1>3. /\ i \in DOMAIN members /\ p \in Start[i] + 1 .. Start[i + 1]
      /\ \A k \in DOMAIN members : p \in Start[k] + 1 .. Start[k + 1] => k = i
  BY <1>1, <1>2
<1> QED
  BY <1>3 DEF MemberAt

\* Every cell before the end mark belongs to a member.
LEMMA MemberFor ==
    ASSUME Archived, NEW p \in 1 .. Start[N + 1]
    PROVE  \E i \in 1 .. N : p \in Start[i] + 1 .. Start[i + 1]
<1> DEFINE S == {i \in 1 .. N + 1 : p <= Start[i]}
<1>1. /\ N \in Nat /\ N + 1 \in 1 .. N + 1 /\ Start[1] = 0
      /\ \A k \in 1 .. N + 1 : Start[k] \in Nat
  BY StartSteps, StartType
<1>2. p \in Nat /\ p >= 1 /\ p <= Start[N + 1]
  BY <1>1
<1>3. S \subseteq Nat /\ S # {}
  BY <1>1, <1>2
<1>4. PICK i \in S : \A k \in S : i <= k
  <2> HIDE DEF S
  <2> QED
    BY <1>3, LeastOf
<1>5. i \in 1 .. N + 1 /\ p <= Start[i]
  BY <1>4
<1>6. i # 1
  BY <1>1, <1>2, <1>5
<1> DEFINE k == i - 1
<1>7. k \in 1 .. N /\ k \in 1 .. N + 1 /\ k + 1 = i /\ ~(i <= k)
  BY <1>1, <1>5, <1>6
<1> HIDE DEF k
<1>8. ~(p <= Start[k])
  BY <1>4, <1>7
<1>9. p \in Start[k] + 1 .. Start[k + 1]
  BY <1>1, <1>2, <1>5, <1>7, <1>8
<1> QED
  BY <1>7, <1>9

\* Every cell of every member is in the file, and the end mark after them.
LEMMA LayoutIs ==
    ASSUME Archived
    PROVE  /\ Len(Layout) = Start[N + 1] + (IF ended THEN 2 ELSE 0)
           /\ \A i \in 1 .. N : \A j \in 1 .. Len(Cells(members[i])) :
                 Layout[Start[i] + j] = Cells(members[i])[j]
           /\ ended => /\ Layout[Start[N + 1] + 1] = <<"mark">>
                       /\ Layout[Start[N + 1] + 2] = <<"method", "end">>
<1> DEFINE n == Start[N + 1]
           f == [p \in 1 .. n |-> Cells(members[MemberAt(p)])[p - Start[MemberAt(p)]]]
           a == <<"mark">>
           b == <<"method", "end">>
           S == {f[p] : p \in 1 .. n} \union {a, b}
           m == IF ended THEN <<a, b>> ELSE <<>>
<1>1. /\ N \in Nat /\ n \in Nat /\ \A k \in 1 .. N + 1 : Start[k] \in Nat
  BY StartSteps, StartType
<1>2. Layout = f \o m
  BY DEF Layout, EndMark, N
<1>3. ASSUME NEW i \in 1 .. N, NEW j \in 1 .. Len(Cells(members[i]))
      PROVE  Start[i] + j \in 1 .. n /\ f[Start[i] + j] = Cells(members[i])[j]
  <2> DEFINE p == Start[i] + j
  <2>1. /\ i \in 1 .. N + 1 /\ i < N + 1 /\ N + 1 \in 1 .. N + 1 /\ Start[i] \in Nat
        /\ Start[i + 1] = Start[i] + Len(Cells(members[i])) /\ Len(Cells(members[i])) \in Nat
    BY <1>1, StartSteps
  <2>2. Start[i + 1] <= n
    BY <2>1, StartGrows
  <2>3. p \in Start[i] + 1 .. Start[i + 1] /\ p \in 1 .. n /\ p - Start[i] = j
    BY <1>1, <2>1, <2>2
  <2> HIDE DEF p
  <2>4. MemberAt(p) = i
    BY <2>3, MemberAtIs
  <2>5. f[p] = Cells(members[i])[j]
    BY <2>3, <2>4
  <2> HIDE DEF f
  <2> QED
    BY <2>3, <2>5 DEF p
<1>4. f \in Seq(S) /\ Len(f) = n
  <2> HIDE DEF a, b, n
  <2>1. f \in [1 .. n -> S]
    OBVIOUS
  <2> HIDE DEF f, S
  <2> QED
    BY <1>1, <2>1
<1> HIDE DEF f, n
<1>5. /\ m \in Seq(S) /\ Len(m) = IF ended THEN 2 ELSE 0
      /\ ended => m[1] = a /\ m[2] = b
  <2> HIDE DEF a, b
  <2>1. <<a, b>> \in Seq(S) /\ Len(<<a, b>>) = 2 /\ <<a, b>>[1] = a /\ <<a, b>>[2] = b
    OBVIOUS
  <2>2. <<>> \in Seq(S) /\ Len(<<>>) = 0
    OBVIOUS
  <2> HIDE DEF S
  <2> QED
    BY <2>1, <2>2
<1> HIDE DEF m, S, a, b
<1>6. /\ Len(f \o m) = n + Len(m)
      /\ \A p \in 1 .. n + Len(m) : (f \o m)[p] = IF p <= n THEN f[p] ELSE m[p - n]
  BY <1>4, <1>5, ConcatProperties
<1>7. ASSUME NEW i \in 1 .. N, NEW j \in 1 .. Len(Cells(members[i]))
      PROVE  Layout[Start[i] + j] = Cells(members[i])[j]
  <2> DEFINE p == Start[i] + j
  <2>1. p \in 1 .. n /\ f[p] = Cells(members[i])[j]
    BY <1>3
  <2> HIDE DEF p
  <2>2. p \in 1 .. n + Len(m) /\ p <= n
    BY <1>1, <1>5, <2>1
  <2> QED
    BY <1>2, <1>6, <2>1, <2>2 DEF p
<1>8. ended => Layout[n + 1] = a /\ Layout[n + 2] = b
  <2> SUFFICES ASSUME ended PROVE Layout[n + 1] = a /\ Layout[n + 2] = b
    OBVIOUS
  <2>1. /\ n + 1 \in 1 .. n + Len(m) /\ n + 2 \in 1 .. n + Len(m)
        /\ ~(n + 1 <= n) /\ ~(n + 2 <= n) /\ (n + 1) - n = 1 /\ (n + 2) - n = 2
    BY <1>1, <1>5
  <2> QED
    BY <1>2, <1>5, <1>6, <2>1
<1> QED
  BY <1>1, <1>2, <1>5, <1>6, <1>7, <1>8 DEF n, a, b

\* The fields of a header, read where the member begins.
LEMMA FieldsAre ==
    ASSUME Archived, NEW i \in 1 .. N
    PROVE  /\ IsMark(Start[i]) /\ AsMethod(Start[i] + 1) = members[i].method
           /\ AsName(Start[i] + 2) = members[i].name /\ AsSize(Start[i] + 3) = members[i].size
<1> DEFINE m == members[i]
           s == Start[i]
<1>1. m \in Members /\ s \in Nat
  BY StartSteps, StartType
<1>2. /\ Len(Cells(m)) \in Nat /\ Len(Cells(m)) >= 4 /\ HeaderLen(m.method) >= 4
      /\ \A j \in 1 .. HeaderLen(m.method) : Cells(m)[j] = Header(m)[j]
      /\ HeaderLen(m.method) \in Nat
  <2> HIDE DEF m
  <2>1. HeaderLen(m.method) \in {4, 5}
    BY <1>1, HeaderOf
  <2> QED
    BY <1>1, <2>1, CellsOf
<1>3. \A j \in 1 .. Len(Cells(m)) : Layout[s + j] = Cells(m)[j]
  BY LayoutIs
<1>4. \A j \in 1 .. 4 : j \in 1 .. Len(Cells(m)) /\ j \in 1 .. HeaderLen(m.method)
  <2> HIDE DEF m
  <2> QED
    BY <1>2
<1>5. \A j \in 1 .. 4 : Layout[s + j] = Header(m)[j]
  BY <1>2, <1>3, <1>4
<1>6. /\ Header(m)[1] = <<"mark">> /\ Header(m)[2] = <<"method", m.method>>
      /\ Header(m)[3] = <<"name", m.name>> /\ Header(m)[4] = <<"size", m.size>>
  BY <1>1, HeaderOf
<1> HIDE DEF m, s
<1>7. /\ Layout[s + 1] = <<"mark">> /\ Layout[s + 2] = <<"method", m.method>>
      /\ Layout[s + 3] = <<"name", m.name>> /\ Layout[s + 4] = <<"size", m.size>>
  BY <1>5, <1>6
<1>8. /\ s + 1 + 1 = s + 2 /\ s + 2 + 1 = s + 3 /\ s + 3 + 1 = s + 4
      /\ s # Str!Eof /\ s + 1 # Str!Eof /\ s + 2 # Str!Eof /\ s + 3 # Str!Eof
  BY <1>1 DEF Str!Eof
<1>9. /\ Cell(s) = <<"mark">> /\ Cell(s + 1) = <<"method", m.method>>
      /\ Cell(s + 2) = <<"name", m.name>> /\ Cell(s + 3) = <<"size", m.size>>
  BY <1>7, <1>8 DEF Cell
<1>10. /\ IsMark(s) /\ AsMethod(s + 1) = m.method
       /\ AsName(s + 2) = m.name /\ AsSize(s + 3) = m.size
  BY <1>9 DEF IsMark, AsMethod, AsName, AsSize
<1> QED
  BY <1>10 DEF m, s

\* The end mark, read where it begins.
LEMMA EndMarkIs ==
    ASSUME Archived, ended
    PROVE  IsMark(Start[N + 1]) /\ AsMethod(Start[N + 1] + 1) = "end"
<1> DEFINE s == Start[N + 1]
<1>1. s \in Nat
  BY StartSteps, StartType
<1>2. Layout[s + 1] = <<"mark">> /\ Layout[s + 2] = <<"method", "end">>
  BY LayoutIs
<1> HIDE DEF s
<1>3. s + 1 + 1 = s + 2 /\ s # Str!Eof /\ s + 1 # Str!Eof
  BY <1>1 DEF Str!Eof
<1>4. Cell(s) = <<"mark">> /\ Cell(s + 1) = <<"method", "end">>
  BY <1>2, <1>3 DEF Cell
<1>5. IsMark(s) /\ AsMethod(s + 1) = "end"
  BY <1>4 DEF IsMark, AsMethod
<1> QED
  BY <1>5 DEF s

\* What a read past the end of the file gives.
LEMMA PastTheEnd ==
    /\ IsMark(Str!Eof) /\ AsMethod(Str!Eof) = "unknown"
    /\ AsName(Str!Eof) = "^Z" /\ AsSize(Str!Eof) = Huge
<1>1. Cell(Str!Eof) = <<"mark">> /\ <<"mark">>[1] = "mark"
  BY DEF Cell
<1> QED
  BY <1>1 DEF IsMark, AsMethod, AsName, AsSize
-----------------------------------------------------------------------------
(* The driver.                                                             *)
\* The member the driver is at, or past the last of them the end mark, and how
\* far it has read of it.
Cur == Len(log) + 1
ReadTo(n) == taken = Min2(Start[Cur] + n, fileLen)

InHeader == {"marker", "eat", "look", "method", "name", "size", "orig", "limit"}
InData == {"create", "decode", "skip"}
AfterData == {"clear", "close"}
AfterSize == {"orig", "limit"} \union InData \union AfterData
AfterName == {"size"} \union AfterSize
AfterMethod == {"name"} \union AfterName

\* A member is gone to only if it begins in the file.  Past the last of them
\* there is one made of ^Z, where the file ends in the end mark.
Within == /\ pc \notin {"scan", "done"} => Cur <= N + 1 /\ Start[Cur] < fileLen
          /\ pc \in {"method"} \union AfterMethod /\ Cur = N + 1 => fileLen = Start[Cur] + 1

Reading == /\ pc \in {"marker", "eat"} => ReadTo(0)
           /\ pc \in {"look", "method"} => ReadTo(1)
           /\ pc = "name" => ReadTo(2)
           /\ pc = "size" => ReadTo(3)
           /\ pc = "orig" => ReadTo(4) /\ method # "old"
           /\ pc = "limit" => ReadTo(HeaderLen(method))

\* What has been read of the header, as far as it is in the file.
Fields == /\ pc \in AfterMethod => method = IF Start[Cur] + 1 < fileLen THEN members[Cur].method
                                            ELSE "unknown"
          /\ pc \in AfterName /\ Start[Cur] + 2 < fileLen => name = members[Cur].name
          /\ pc \in AfterSize /\ Start[Cur] + 3 < fileLen => size = members[Cur].size

\* The limit ends where the member does, unless the file ends before.
Limits == /\ pc \in InHeader \union {"scan", "close"} => ~limited
          /\ pc \in InData => limited
          /\ skipping => pc = "skip"
Ahead == /\ pc \in InData =>
              \/ Cur <= N /\ taken + left = Start[Cur + 1]
              \/ taken = fileLen /\ (Cur <= N => fileLen <= Start[Cur + 1])
         /\ pc \in AfterData => taken = IF Cur <= N THEN Min2(Start[Cur + 1], fileLen) ELSE fileLen

Logged == \A i \in DOMAIN log :
            /\ i <= N + 1 /\ Start[i] < fileLen
            /\ i = N + 1 => fileLen = Start[i] + 1
            /\ i <= N /\ Start[i] + 2 < fileLen => log[i][1] = members[i].name
Ending == pc = "done" => Len(log) >= N \/ fileLen <= Start[Cur]

Outcomes == {"ok", "error", "unsupported", "nocreate"}
Typed == /\ Archived /\ log \in Seq(Names \X Outcomes) /\ TypeOK
         /\ fileLen \in Nat /\ fileLen <= Start[N + 1] + (IF ended THEN 2 ELSE 0)
IInv == /\ Typed /\ Within /\ Reading /\ Fields /\ Limits /\ Ahead /\ Logged /\ Ending /\ Aligned

\* Nothing moves in an archive while it is read.
LEMMA SameArchive == UNCHANGED members => N' = N /\ Start' = Start
BY Zenon DEF N, Start

\* The types of the state, as the arithmetic needs them.
LEMMA Plain ==
    ASSUME Typed
    PROVE  /\ fileLen \in Nat /\ taken \in Nat /\ taken <= fileLen /\ left \in Nat /\ left <= Huge
           /\ N \in Nat /\ Cur \in Nat /\ Cur >= 1 /\ DOMAIN log = 1 .. Len(log) /\ Len(log) \in Nat
           /\ limited \in BOOLEAN /\ short \in BOOLEAN /\ skipping \in BOOLEAN /\ Cur = Len(log) + 1
           /\ Cur <= N + 1 => Cur \in 1 .. N + 1 /\ Start[Cur] \in Nat
           /\ Cur <= N => Cur \in 1 .. N /\ Start[Cur + 1] \in Nat
<1>1. /\ log \in Seq(Names \X Outcomes) /\ fileLen \in Nat /\ taken \in 0 .. fileLen
      /\ left \in 0 .. Huge /\ {limited, short, skipping} \subseteq BOOLEAN
  BY DEF Typed, TypeOK
<1>2. N \in Nat /\ \A i \in 1 .. N + 1 : Start[i] \in Nat
  BY StartSteps, StartType DEF Typed
<1>3. Huge \in Nat
  BY HugeAssumption
<1>4. Len(log) \in Nat /\ DOMAIN log = 1 .. Len(log)
  BY <1>1
<1>5. Cur \in Nat /\ Cur >= 1 /\ Cur = Len(log) + 1
  BY <1>4 DEF Cur
<1> HIDE DEF Cur
<1>6. /\ Cur <= N + 1 => Cur \in 1 .. N + 1
      /\ Cur <= N => Cur \in 1 .. N /\ Cur + 1 \in 1 .. N + 1
  BY <1>2, <1>5
<1> QED
  BY <1>1, <1>2, <1>3, <1>4, <1>5, <1>6

\* A byte read with no limit set.
LEMMA GetMoves ==
    ASSUME Typed, ~limited, Str!SGet, NEW n \in Nat, Start[Cur] \in Nat, ReadTo(n)
    PROVE  /\ taken' = Min2(Start[Cur] + (n + 1), fileLen) /\ taken' \in 0 .. fileLen
           /\ ret' = IF Start[Cur] + n < fileLen THEN Start[Cur] + n ELSE Str!Eof
           /\ short' \in BOOLEAN /\ UNCHANGED <<fileLen, limited, left, skipping>>
<1> DEFINE s == Start[Cur]
<1>1. /\ fileLen \in Nat /\ taken \in Nat /\ taken <= fileLen /\ short \in BOOLEAN
      /\ s \in Nat
  BY Plain
<1>2. taken = IF s + n <= fileLen THEN s + n ELSE fileLen
  BY DEF ReadTo, Min2
<1>3. /\ \/ taken # fileLen /\ taken' = taken + 1 /\ ret' = taken /\ short' = short
         \/ taken = fileLen /\ taken' = taken /\ ret' = Str!Eof /\ short' = TRUE
      /\ UNCHANGED <<fileLen, limited, left, skipping>>
  BY DEF Str!SGet, Str!Advance, Str!Nothing
<1> HIDE DEF s
<1>4. CASE s + n < fileLen
  <2>1. taken = s + n /\ taken # fileLen
    BY <1>1, <1>2, <1>4
  <2>2. taken' = s + (n + 1) /\ s + (n + 1) <= fileLen /\ ret' = s + n
    BY <1>1, <1>3, <1>4, <2>1
  <2>3. taken' = Min2(s + (n + 1), fileLen) /\ taken' \in 0 .. fileLen
    BY <1>1, <2>2 DEF Min2
  <2> QED
    BY <1>1, <1>3, <1>4, <2>2, <2>3 DEF s
<1>5. CASE ~(s + n < fileLen)
  <2>1. taken = fileLen
    BY <1>1, <1>2, <1>5
  <2>2. taken' = fileLen /\ ret' = Str!Eof /\ short' = TRUE
    BY <1>1, <1>3, <2>1
  <2>3. taken' = Min2(s + (n + 1), fileLen) /\ taken' \in 0 .. fileLen
    BY <1>1, <1>5, <2>2 DEF Min2
  <2> QED
    BY <1>3, <1>5, <2>2, <2>3 DEF s
<1> QED
  BY <1>4, <1>5
-----------------------------------------------------------------------------
(* The actions, one by one.                                                *)
LEMMA Kept ==
    ASSUME IInv, UNCHANGED <<members, ended, fileLen, log>>,
           taken' \in 0 .. fileLen, left' \in 0 .. Huge,
           limited' \in BOOLEAN, short' \in BOOLEAN, skipping' \in BOOLEAN,
           pc' \in {"scan", "done"} \union InHeader \union InData \union AfterData,
           method' \in {"end", "old", "known", "unknown"}, name' \in Names,
           size' \in Nat, result' \in 0 .. 2
    PROVE  Typed' /\ Logged' /\ N' = N /\ Start' = Start /\ Cur' = Cur /\ Cur <= N + 2
<1>1. N' = N /\ Start' = Start
  BY SameArchive
<1>2. Cur' = Cur
  BY DEF Cur
<1>3. Cur <= N + 2
  BY DEF IInv, Typed, TypeOK, Cur, N, Archived
<1>4. Archived' /\ log' \in Seq(Names \X Outcomes)
  BY DEF IInv, Typed, Archived
<1>5. fileLen' \in Nat /\ (fileLen <= Start[N + 1] + (IF ended THEN 2 ELSE 0))'
  BY <1>1 DEF IInv, Typed
<1>6. TypeOK'
  BY DEF IInv, Typed, TypeOK, InHeader, InData, AfterData
<1>7. Logged'
  BY <1>1 DEF IInv, Logged
<1> QED
  BY <1>1, <1>2, <1>3, <1>4, <1>5, <1>6, <1>7 DEF Typed

\* The types of TypeOK, one by one.
LEMMA KindsOf ==
    ASSUME TypeOK
    PROVE  /\ method \in {"end", "old", "known", "unknown"} /\ name \in Names
           /\ size \in Nat /\ result \in 0 .. 2 /\ left \in 0 .. Huge /\ taken \in 0 .. fileLen
           /\ limited \in BOOLEAN /\ short \in BOOLEAN /\ skipping \in BOOLEAN
BY DEF TypeOK

\* The loop goes on to a member, or ends.
LEMMA ScanKeeps == ASSUME IInv, Scan PROVE IInv'
<1>1. pc = "scan" /\ ~limited /\ ~skipping
  BY DEF IInv, Scan, Limits, Str!SAvail
<1>2. /\ UNCHANGED <<members, ended, fileLen, log, taken, limited, left, short, skipping>>
      /\ UNCHANGED <<method, name, size, result>>
      /\ ret' = (IF taken = fileLen THEN 0 ELSE 1)
      /\ pc' = (IF ret' = 0 THEN "done" ELSE "marker")
  BY <1>1 DEF Scan, Str!SAvail, Str!Nothing, Archive, header
<1>3. Typed' /\ Logged' /\ N' = N /\ Start' = Start /\ Cur' = Cur /\ Cur <= N + 2
  <2>1. pc' \in {"scan", "done"} \union InHeader \union InData \union AfterData
    BY <1>2 DEF InHeader
  <2> QED
    BY <1>2, <2>1, Kept, KindsOf DEF IInv, Typed
<1>4. taken = IF Len(log) <= N THEN Min2(Start[Cur], fileLen) ELSE fileLen
  BY <1>1 DEF IInv, Aligned, Cur, N
<1>5. /\ fileLen \in Nat /\ taken \in Nat /\ N \in Nat /\ Len(log) \in Nat /\ Cur = Len(log) + 1
      /\ Cur <= N + 1 => Start[Cur] \in Nat
  BY Plain DEF IInv
<1>6. CASE taken = fileLen
  <2>1. pc' = "done"
    BY <1>2, <1>6
  <2>2. Len(log) >= N \/ fileLen <= Start[Cur]
    BY <1>4, <1>5, <1>6 DEF Min2
  <2>3. Within' /\ Reading' /\ Fields' /\ Limits' /\ Ahead' /\ Aligned'
    BY <1>1, <1>2, <2>1 DEF Within, Reading, Fields, Limits, Ahead, Aligned,
         InHeader, InData, AfterData, AfterSize, AfterName, AfterMethod
  <2>4. Ending'
    BY <1>2, <1>3, <2>2 DEF Ending
  <2> QED
    BY <1>3, <2>3, <2>4 DEF IInv
<1>7. CASE taken # fileLen
  <2>1. pc' = "marker"
    BY <1>2, <1>7
  <2>2. Cur <= N + 1 /\ Start[Cur] < fileLen /\ taken = Start[Cur]
    BY <1>4, <1>5, <1>7 DEF Min2
  <2>3. Within'
    BY <1>2, <1>3, <2>1, <2>2 DEF Within, InHeader, InData, AfterData, AfterSize, AfterName, AfterMethod
  <2>4. Reading'
    BY <1>2, <1>3, <1>5, <2>1, <2>2 DEF Reading, ReadTo, Min2
  <2>5. Fields' /\ Limits' /\ Ahead' /\ Aligned' /\ Ending'
    BY <1>1, <1>2, <2>1 DEF Fields, Limits, Ahead, Aligned, Ending,
         InHeader, InData, AfterData, AfterSize, AfterName, AfterMethod
  <2> QED
    BY <1>3, <2>3, <2>4, <2>5 DEF IInv
<1> QED
  BY <1>6, <1>7
\* Where a member begins there is a marker.
LEMMA MarkerKeeps == ASSUME IInv, Marker PROVE IInv'
<1>1. pc = "marker" /\ ~limited /\ ~skipping /\ Cur <= N + 1 /\ Start[Cur] < fileLen /\ ReadTo(0)
  BY DEF IInv, Marker, Limits, Within, Reading, Str!SPeek, InHeader
<1>2. /\ fileLen \in Nat /\ taken \in Nat /\ N \in Nat /\ Len(log) \in Nat /\ Cur = Len(log) + 1
      /\ Cur \in 1 .. N + 1 /\ Start[Cur] \in Nat /\ (Cur <= N => Cur \in 1 .. N)
  BY <1>1, Plain DEF IInv
<1>3. taken = Start[Cur] /\ taken # fileLen
  BY <1>1, <1>2 DEF ReadTo, Min2
<1>4. /\ UNCHANGED <<members, ended, fileLen, log, taken, limited, left, short, skipping>>
      /\ UNCHANGED <<method, name, size, result>>
      /\ ret' = Start[Cur] /\ pc' = IF IsMark(ret') THEN "eat" ELSE "done"
  BY <1>1, <1>3 DEF Marker, Str!SPeek, Str!Nothing, Archive, header
<1>5. Typed' /\ Logged' /\ N' = N /\ Start' = Start /\ Cur' = Cur
  <2>1. pc' \in {"scan", "done"} \union InHeader \union InData \union AfterData
    BY <1>4 DEF InHeader
  <2> QED
    BY <1>4, <2>1, Kept, KindsOf DEF IInv, Typed
<1>6. pc' = "done" => Len(log) >= N
  <2>1. Cur <= N => IsMark(Start[Cur])
    BY <1>2, FieldsAre DEF IInv, Typed
  <2> QED
    BY <1>2, <1>4, <2>1
<1>7. pc' \in {"eat", "done"}
  BY <1>4
<1>8. Reading'
  BY <1>1, <1>4, <1>5, <1>7 DEF Reading, ReadTo
<1>9. Within'
  BY <1>1, <1>4, <1>5, <1>7 DEF Within, InHeader, InData, AfterData, AfterSize, AfterName, AfterMethod
<1>10. Fields' /\ Limits' /\ Ahead' /\ Aligned'
  BY <1>1, <1>4, <1>7 DEF Fields, Limits, Ahead, Aligned,
       InHeader, InData, AfterData, AfterSize, AfterName, AfterMethod
<1>11. Ending'
  BY <1>4, <1>5, <1>6 DEF Ending
<1> QED
  BY <1>5, <1>8, <1>9, <1>10, <1>11 DEF IInv
\* A byte of the header is read.
LEMMA HeaderByte ==
    ASSUME IInv, pc \in {"eat", "method", "name", "size", "orig"}, Str!SGet,
           NEW n \in Nat, ReadTo(n), UNCHANGED <<members, ended, log>>,
           pc' \in {"look", "name", "size", "orig", "limit"},
           method' \in {"end", "old", "known", "unknown"}, name' \in Names,
           size' \in Nat, result' \in 0 .. 2
    PROVE  /\ Typed' /\ Logged' /\ Limits' /\ Ahead' /\ Ending' /\ Aligned'
           /\ N' = N /\ Start' = Start /\ Cur' = Cur /\ fileLen' = fileLen /\ members' = members
           /\ taken' = Min2(Start[Cur] + (n + 1), fileLen)
           /\ ret' = IF Start[Cur] + n < fileLen THEN Start[Cur] + n ELSE Str!Eof
           /\ Start[Cur] \in Nat /\ fileLen \in Nat /\ Start[Cur] < fileLen /\ N \in Nat
           /\ Cur \in 1 .. N + 1 /\ (Cur <= N => Cur \in 1 .. N)
           /\ Cur # N + 1 => Cur <= N
<1>1. ~limited /\ Cur <= N + 1 /\ Start[Cur] < fileLen
  BY DEF IInv, Limits, Within, InHeader
<1>2. /\ fileLen \in Nat /\ N \in Nat /\ Cur \in 1 .. N + 1 /\ Start[Cur] \in Nat
      /\ Cur <= N => Cur \in 1 .. N
  BY <1>1, Plain DEF IInv
<1>3. /\ taken' = Min2(Start[Cur] + (n + 1), fileLen) /\ taken' \in 0 .. fileLen
      /\ ret' = IF Start[Cur] + n < fileLen THEN Start[Cur] + n ELSE Str!Eof
      /\ short' \in BOOLEAN /\ UNCHANGED <<fileLen, limited, left, skipping>>
  BY <1>1, <1>2, GetMoves DEF IInv
<1>4. Typed' /\ Logged' /\ N' = N /\ Start' = Start /\ Cur' = Cur
  <2>1. pc' \in {"scan", "done"} \union InHeader \union InData \union AfterData
    BY DEF InHeader
  <2> QED
    BY <1>3, <2>1, Kept, KindsOf DEF IInv, Typed
<1>5. ~skipping
  BY DEF Str!SGet
<1>6. Limits' /\ Ahead' /\ Ending' /\ Aligned'
  BY <1>1, <1>3, <1>5 DEF Limits, Ahead, Ending, Aligned, InHeader, InData, AfterData
<1> QED
  BY <1>1, <1>2, <1>3, <1>4, <1>6

\* The marker is read.
LEMMA EatMarkerKeeps == ASSUME IInv, EatMarker PROVE IInv'
<1>1. /\ pc = "eat" /\ pc' = "look" /\ Str!SGet /\ ReadTo(0) /\ UNCHANGED <<members, ended, log>>
      /\ UNCHANGED <<method, name, size, result>>
  BY DEF IInv, EatMarker, Goto, Reading, Archive, header
<1>2. /\ method' \in {"end", "old", "known", "unknown"} /\ name' \in Names
      /\ size' \in Nat /\ result' \in 0 .. 2
  BY <1>1, KindsOf DEF IInv, Typed
<1>3. /\ Typed' /\ Logged' /\ Limits' /\ Ahead' /\ Ending' /\ Aligned'
      /\ N' = N /\ Start' = Start /\ Cur' = Cur /\ fileLen' = fileLen /\ Cur \in 1 .. N + 1
      /\ taken' = Min2(Start[Cur] + (0 + 1), fileLen) /\ Start[Cur] < fileLen /\ N \in Nat
  BY <1>1, <1>2, HeaderByte
<1>4. Reading'
  BY <1>1, <1>3 DEF Reading, ReadTo
<1>5. Within' /\ Fields'
  BY <1>1, <1>3 DEF Within, Fields, InData, AfterData, AfterSize, AfterName, AfterMethod
<1> QED
  BY <1>3, <1>4, <1>5 DEF IInv

\* Only the end mark has a method that ends the loop.
LEMMA LookAtMethodKeeps == ASSUME IInv, LookAtMethod PROVE IInv'
<1>1. pc = "look" /\ ~limited /\ ~skipping /\ Cur <= N + 1 /\ Start[Cur] < fileLen /\ ReadTo(1)
  BY DEF IInv, LookAtMethod, Limits, Within, Reading, InHeader
<1>2. /\ fileLen \in Nat /\ taken \in Nat /\ N \in Nat /\ Len(log) \in Nat /\ Cur = Len(log) + 1
      /\ Cur \in 1 .. N + 1 /\ Start[Cur] \in Nat /\ (Cur <= N => Cur \in 1 .. N)
  BY <1>1, Plain DEF IInv
<1>3. /\ UNCHANGED <<members, ended, fileLen, log, taken, limited, left, short, skipping>>
      /\ UNCHANGED <<method, name, size, result>>
      /\ ret' = (IF taken = fileLen THEN Str!Eof ELSE taken)
      /\ pc' = IF AsMethod(ret') = "end" THEN "done" ELSE "method"
  BY <1>1 DEF LookAtMethod, Str!SPeek, Str!Nothing, Archive, header
<1>4. Typed' /\ Logged' /\ N' = N /\ Start' = Start /\ Cur' = Cur
  <2>1. pc' \in {"scan", "done"} \union InHeader \union InData \union AfterData
    BY <1>3 DEF InHeader
  <2> QED
    BY <1>3, <2>1, Kept, KindsOf DEF IInv, Typed
<1>5. pc' \in {"method", "done"}
  BY <1>3
<1>6. CASE taken = fileLen
  <2>1. pc' = "method"
    BY <1>3, <1>6, PastTheEnd
  <2>2. fileLen = Start[Cur] + 1
    BY <1>1, <1>2, <1>6 DEF ReadTo, Min2
  <2> QED
    BY <1>1, <1>3, <1>4, <2>1, <2>2
       DEF IInv, Within, Reading, ReadTo, Fields, Limits, Ahead, Ending, Aligned,
           InHeader, InData, AfterData, AfterSize, AfterName, AfterMethod
<1>7. CASE taken # fileLen
  <2>1. taken = Start[Cur] + 1 /\ taken < fileLen
    BY <1>1, <1>2, <1>7 DEF ReadTo, Min2
  <2>2. ASSUME Cur = N + 1
        PROVE  pc' = "done"
    <3>1. ended
      BY <1>2, <2>1, <2>2 DEF IInv, Typed
    <3>2. AsMethod(Start[Cur] + 1) = "end"
      BY <2>2, <3>1, EndMarkIs DEF IInv, Typed
    <3> QED
      BY <1>3, <1>7, <2>1, <3>2
  <2>3. ASSUME Cur <= N
        PROVE  pc' = "method"
    <3>1. AsMethod(Start[Cur] + 1) = members[Cur].method /\ members[Cur] \in Members
      BY <1>2, <2>3, FieldsAre, StartSteps DEF IInv, Typed
    <3>2. members[Cur].method # "end"
      BY <3>1, MemberFields
    <3> QED
      BY <1>3, <1>7, <2>1, <3>1, <3>2
  <2>4. (pc' = "done" => Cur = N + 1) /\ (pc' = "method" => Cur # N + 1) /\ (Cur = N + 1 => Len(log) >= N)
    BY <1>2, <2>2, <2>3
  <2> QED
    BY <1>1, <1>3, <1>4, <1>5, <2>4
       DEF IInv, Within, Reading, ReadTo, Fields, Limits, Ahead, Ending, Aligned,
           InHeader, InData, AfterData, AfterSize, AfterName, AfterMethod
<1> QED
  BY <1>6, <1>7
\* The method read is the member's, or, past the end, unknown.
LEMMA ReadMethodKeeps == ASSUME IInv, ReadMethod PROVE IInv'
<1>1. /\ pc = "method" /\ pc' = "name" /\ Str!SGet /\ ReadTo(1) /\ UNCHANGED <<members, ended, log>>
      /\ method' = AsMethod(ret') /\ UNCHANGED <<name, size, result>>
      /\ Cur = N + 1 => fileLen = Start[Cur] + 1
  BY DEF IInv, ReadMethod, Goto, Reading, Within, Archive
<1>2. /\ fileLen \in Nat /\ N \in Nat /\ Cur \in 1 .. N + 1 /\ Start[Cur] \in Nat
      /\ (Cur <= N => Cur \in 1 .. N) /\ Start[Cur] < fileLen
  BY <1>1, Plain DEF IInv, Within
<1>3. ret' = IF Start[Cur] + 1 < fileLen THEN Start[Cur] + 1 ELSE Str!Eof
  BY <1>1, <1>2, GetMoves DEF IInv, Limits, InHeader
<1>4. method' = IF Start[Cur] + 1 < fileLen THEN members[Cur].method ELSE "unknown"
  <2>1. CASE Start[Cur] + 1 < fileLen
    <3>1. Cur \in 1 .. N
      BY <1>1, <1>2, <2>1
    <3>2. AsMethod(Start[Cur] + 1) = members[Cur].method
      BY <3>1, FieldsAre DEF IInv, Typed
    <3> QED
      BY <1>1, <1>3, <2>1, <3>2
  <2>2. CASE ~(Start[Cur] + 1 < fileLen)
    BY <1>1, <1>3, <2>2, PastTheEnd
  <2> QED
    BY <2>1, <2>2
<1>5. method' \in {"end", "old", "known", "unknown"}
  <2>1. CASE Start[Cur] + 1 < fileLen
    <3>1. Cur \in 1 .. N
      BY <1>1, <1>2, <2>1
    <3>2. members[Cur] \in Members
      BY <3>1, StartSteps DEF IInv, Typed
    <3> QED
      BY <1>4, <2>1, <3>2, MemberFields
  <2>2. CASE ~(Start[Cur] + 1 < fileLen)
    BY <1>4, <2>2
  <2> QED
    BY <2>1, <2>2
<1>6. name' \in Names /\ size' \in Nat /\ result' \in 0 .. 2
  BY <1>1, KindsOf DEF IInv, Typed
<1>7. /\ Typed' /\ Logged' /\ Limits' /\ Ahead' /\ Ending' /\ Aligned'
      /\ N' = N /\ Start' = Start /\ Cur' = Cur /\ fileLen' = fileLen
      /\ taken' = Min2(Start[Cur] + (1 + 1), fileLen)
  BY <1>1, <1>5, <1>6, HeaderByte
<1>8. Reading'
  BY <1>1, <1>7 DEF Reading, ReadTo
<1>9. Within'
  BY <1>1, <1>2, <1>7 DEF Within
<1>10. Fields'
  BY <1>1, <1>4, <1>7 DEF Fields, InData, AfterData, AfterSize, AfterName, AfterMethod
<1> QED
  BY <1>7, <1>8, <1>9, <1>10 DEF IInv

\* The name read is the member's, when it is in the file.
LEMMA ReadNameKeeps == ASSUME IInv, ReadName PROVE IInv'
<1>1. /\ pc = "name" /\ pc' = "size" /\ Str!SGet /\ ReadTo(2) /\ UNCHANGED <<members, ended, log>>
      /\ name' = AsName(ret') /\ UNCHANGED <<method, size, result>>
      /\ Cur = N + 1 => fileLen = Start[Cur] + 1
  BY DEF IInv, ReadName, Goto, Reading, Within, Archive, AfterMethod
<1>2. /\ fileLen \in Nat /\ N \in Nat /\ Cur \in 1 .. N + 1 /\ Start[Cur] \in Nat
      /\ (Cur <= N => Cur \in 1 .. N) /\ Start[Cur] < fileLen
  BY <1>1, Plain DEF IInv, Within
<1>3. ret' = IF Start[Cur] + 2 < fileLen THEN Start[Cur] + 2 ELSE Str!Eof
  BY <1>1, <1>2, GetMoves DEF IInv, Limits, InHeader
<1>4. /\ Start[Cur] + 2 < fileLen => name' = members[Cur].name
      /\ name' \in Names
  <2>1. CASE Start[Cur] + 2 < fileLen
    <3>1. Cur \in 1 .. N
      BY <1>1, <1>2, <2>1
    <3>2. AsName(Start[Cur] + 2) = members[Cur].name /\ members[Cur] \in Members
      BY <3>1, FieldsAre, StartSteps DEF IInv, Typed
    <3> QED
      BY <1>1, <1>3, <2>1, <3>2, MemberFields
  <2>2. CASE ~(Start[Cur] + 2 < fileLen)
    <3>1. name' = "^Z"
      BY <1>1, <1>3, <2>2, PastTheEnd
    <3> QED
      BY <2>2, <3>1 DEF Names
  <2> QED
    BY <2>1, <2>2
<1>5. method' \in {"end", "old", "known", "unknown"} /\ size' \in Nat /\ result' \in 0 .. 2
  BY <1>1, KindsOf DEF IInv, Typed
<1>6. /\ Typed' /\ Logged' /\ Limits' /\ Ahead' /\ Ending' /\ Aligned'
      /\ N' = N /\ Start' = Start /\ Cur' = Cur /\ fileLen' = fileLen
      /\ taken' = Min2(Start[Cur] + (2 + 1), fileLen)
  BY <1>1, <1>4, <1>5, HeaderByte
<1>7. Reading'
  BY <1>1, <1>6 DEF Reading, ReadTo
<1>8. Within'
  BY <1>1, <1>2, <1>6 DEF Within
<1>9. Fields'
  BY <1>1, <1>4, <1>6
     DEF IInv, Fields, InData, AfterData, AfterSize, AfterName, AfterMethod
<1> QED
  BY <1>6, <1>7, <1>8, <1>9 DEF IInv

\* So is the size; an old header ends there.
LEMMA ReadSizeKeeps == ASSUME IInv, ReadSize PROVE IInv'
<1>1. /\ pc = "size" /\ Str!SGet /\ ReadTo(3) /\ UNCHANGED <<members, ended, log>>
      /\ size' = AsSize(ret') /\ UNCHANGED <<method, name, result>>
      /\ pc' = (IF method = "old" THEN "limit" ELSE "orig")
      /\ Cur = N + 1 => fileLen = Start[Cur] + 1
  BY DEF IInv, ReadSize, Reading, Within, Archive, AfterMethod, AfterName
<1>2. /\ fileLen \in Nat /\ N \in Nat /\ Cur \in 1 .. N + 1 /\ Start[Cur] \in Nat
      /\ (Cur <= N => Cur \in 1 .. N) /\ Start[Cur] < fileLen
  BY <1>1, Plain DEF IInv, Within
<1>3. ret' = IF Start[Cur] + 3 < fileLen THEN Start[Cur] + 3 ELSE Str!Eof
  BY <1>1, <1>2, GetMoves DEF IInv, Limits, InHeader
<1>4. /\ Start[Cur] + 3 < fileLen => size' = members[Cur].size
      /\ size' \in Nat
  <2>1. CASE Start[Cur] + 3 < fileLen
    <3>1. Cur \in 1 .. N
      BY <1>1, <1>2, <2>1
    <3>2. AsSize(Start[Cur] + 3) = members[Cur].size /\ members[Cur] \in Members
      BY <3>1, FieldsAre, StartSteps DEF IInv, Typed
    <3> QED
      BY <1>1, <1>3, <2>1, <3>2, MemberFields
  <2>2. CASE ~(Start[Cur] + 3 < fileLen)
    BY <1>1, <1>3, <2>2, PastTheEnd, HugeAssumption
  <2> QED
    BY <2>1, <2>2
<1>5. method' \in {"end", "old", "known", "unknown"} /\ name' \in Names /\ result' \in 0 .. 2
  BY <1>1, KindsOf DEF IInv, Typed
<1>6. pc' \in {"limit", "orig"} /\ (pc' = "limit" => method = "old") /\ (pc' = "orig" => method # "old")
  BY <1>1
<1>7. /\ Typed' /\ Logged' /\ Limits' /\ Ahead' /\ Ending' /\ Aligned'
      /\ N' = N /\ Start' = Start /\ Cur' = Cur /\ fileLen' = fileLen
      /\ taken' = Min2(Start[Cur] + (3 + 1), fileLen)
  BY <1>1, <1>4, <1>5, <1>6, HeaderByte
<1>8. Reading'
  BY <1>1, <1>6, <1>7 DEF Reading, ReadTo, HeaderLen
<1>9. Within'
  BY <1>1, <1>2, <1>6, <1>7 DEF Within
<1>10. Fields'
  BY <1>1, <1>4, <1>6, <1>7
     DEF IInv, Fields, InData, AfterData, AfterSize, AfterName, AfterMethod
<1> QED
  BY <1>7, <1>8, <1>9, <1>10 DEF IInv

\* Every other header has one more field.
LEMMA ReadOrigKeeps == ASSUME IInv, ReadOrig PROVE IInv'
<1>1. /\ pc = "orig" /\ pc' = "limit" /\ Str!SGet /\ ReadTo(4) /\ UNCHANGED <<members, ended, log>>
      /\ UNCHANGED <<method, name, size, result>> /\ method # "old"
      /\ Cur = N + 1 => fileLen = Start[Cur] + 1
  BY DEF IInv, ReadOrig, Goto, Reading, Within, Archive, header, AfterMethod, AfterName, AfterSize
<1>2. /\ method' \in {"end", "old", "known", "unknown"} /\ name' \in Names
      /\ size' \in Nat /\ result' \in 0 .. 2
  BY <1>1, KindsOf DEF IInv, Typed
<1>3. /\ Typed' /\ Logged' /\ Limits' /\ Ahead' /\ Ending' /\ Aligned'
      /\ N' = N /\ Start' = Start /\ Cur' = Cur /\ fileLen' = fileLen /\ Cur \in 1 .. N + 1
      /\ taken' = Min2(Start[Cur] + (4 + 1), fileLen) /\ Start[Cur] < fileLen /\ N \in Nat
  BY <1>1, <1>2, HeaderByte
<1>4. Reading'
  BY <1>1, <1>3 DEF Reading, ReadTo, HeaderLen
<1>5. Within'
  BY <1>1, <1>3 DEF Within
<1>6. Fields'
  BY <1>1, <1>3 DEF IInv, Fields, InData, AfterData, AfterSize, AfterName, AfterMethod
<1> QED
  BY <1>3, <1>4, <1>5, <1>6 DEF IInv

\* The limit is set where the member ends.
LEMMA SetLimitKeeps == ASSUME IInv, SetLimit PROVE IInv'
<1>1. /\ pc = "limit" /\ pc' = "create" /\ ~limited /\ limited' /\ ~skipping
      /\ Cur <= N + 1 /\ Start[Cur] < fileLen /\ (Cur = N + 1 => fileLen = Start[Cur] + 1)
      /\ taken = Min2(Start[Cur] + HeaderLen(method), fileLen)
      /\ left' = size /\ left' \in 0 .. Huge
      /\ UNCHANGED <<members, ended, fileLen, log, taken, short, skipping>>
      /\ UNCHANGED <<method, name, size, result>>
      /\ method = IF Start[Cur] + 1 < fileLen THEN members[Cur].method ELSE "unknown"
      /\ Start[Cur] + 3 < fileLen => size = members[Cur].size
  BY DEF IInv, SetLimit, Goto, Str!SSetLimit, Limits, Within, Reading, ReadTo, Fields, Archive, header,
         InHeader, AfterMethod, AfterName, AfterSize
<1>2. /\ fileLen \in Nat /\ taken \in Nat /\ N \in Nat /\ Cur \in 1 .. N + 1 /\ Start[Cur] \in Nat
      /\ Cur <= N => Cur \in 1 .. N /\ Start[Cur + 1] \in Nat
  BY <1>1, Plain DEF IInv
<1>3. Typed' /\ Logged' /\ N' = N /\ Start' = Start /\ Cur' = Cur
  <2>1. pc' \in {"scan", "done"} \union InHeader \union InData \union AfterData
    BY <1>1 DEF InData
  <2> QED
    BY <1>1, <2>1, Kept, KindsOf DEF IInv, Typed
<1>4. \/ Cur <= N /\ taken + left' = Start[Cur + 1]
      \/ taken = fileLen /\ (Cur <= N => fileLen <= Start[Cur + 1])
  <2>1. CASE Cur = N + 1
    <3>1. HeaderLen(method) = 4 \/ HeaderLen(method) = 5
      BY DEF HeaderLen
    <3> QED
      BY <1>1, <1>2, <2>1, <3>1 DEF Min2
  <2>2. CASE Cur # N + 1
    <3> DEFINE m == members[Cur]
               k == HeaderLen(m.method)
    <3>1. Cur \in 1 .. N /\ Start[Cur + 1] \in Nat /\ Cur <= N
      BY <1>1, <1>2, <2>2
    <3>2. m \in Members /\ Start[Cur + 1] = Start[Cur] + Len(Cells(m))
      BY <3>1, StartSteps DEF IInv, Typed
    <3>3. m.size \in Nat /\ k \in {4, 5} /\ Len(Cells(m)) = k + m.size
      BY <3>2, MemberFields, HeaderOf, CellsOf
    <3> DEFINE z == m.size
               c == Len(Cells(m))
               e == Start[Cur + 1]
    <3> HIDE DEF k, z, c, m
    <3>6. /\ z \in Nat /\ (k = 4 \/ k = 5) /\ e = Start[Cur] + k + z
          /\ Start[Cur] + 3 < fileLen => size = z
      <4>1. e = Start[Cur] + c /\ c = k + z /\ z \in Nat /\ k \in {4, 5}
        BY <3>2, <3>3 DEF z, c
      <4> HIDE DEF e
      <4>2. Start[Cur] + 3 < fileLen => size = z
        BY <1>1 DEF z, m
      <4> QED
        BY <1>2, <4>1, <4>2
    <3> HIDE DEF e
    <3>4. CASE Start[Cur] + 1 < fileLen
      <4>1. taken = Min2(Start[Cur] + k, fileLen)
        BY <1>1, <3>4 DEF k, m
      <4>2. CASE Start[Cur] + k <= fileLen
        <5>1. Start[Cur] + 3 < fileLen /\ taken = Start[Cur] + k
          BY <1>2, <3>6, <4>1, <4>2 DEF Min2
        <5>2. left' = z
          BY <1>1, <3>6, <5>1
        <5>3. taken + left' = e
          BY <1>2, <3>6, <5>1, <5>2
        <5> QED
          BY <3>1, <5>3 DEF e
      <4>3. CASE ~(Start[Cur] + k <= fileLen)
        <5>1. taken = fileLen
          BY <1>2, <3>6, <4>1, <4>3 DEF Min2
        <5>2. fileLen <= e
          BY <1>2, <3>6, <4>3
        <5> QED
          BY <5>1, <5>2 DEF e
      <4> QED
        BY <4>2, <4>3
    <3>5. CASE ~(Start[Cur] + 1 < fileLen)
      <4>1. taken = fileLen
        <5>1. HeaderLen(method) = 4 \/ HeaderLen(method) = 5
          BY DEF HeaderLen
        <5> QED
          BY <1>1, <1>2, <3>5, <5>1 DEF Min2
      <4>2. fileLen <= e
        BY <1>2, <3>5, <3>6
      <4> QED
        BY <4>1, <4>2 DEF e
    <3> QED
      BY <3>4, <3>5
  <2> QED
    BY <2>1, <2>2
<1>5. Ahead'
  BY <1>1, <1>3, <1>4 DEF Ahead, AfterData
<1>6. Fields'
  BY <1>1, <1>3 DEF IInv, Fields, InData, AfterData, AfterSize, AfterName, AfterMethod
<1>7. Within' /\ Reading' /\ Limits' /\ Ending' /\ Aligned'
  BY <1>1, <1>3 DEF Within, Reading, Limits, Ending, Aligned, InHeader
<1> QED
  BY <1>3, <1>5, <1>6, <1>7 DEF IInv
\* A step among those at the data of a member: only the stream may move.
LEMMA DataStep ==
    ASSUME IInv, pc \in InData, pc' \in InData \union {"clear"}, limited' = limited,
           UNCHANGED <<members, ended, fileLen, log, method, name, size>>,
           taken' \in 0 .. fileLen, left' \in 0 .. Huge, short' \in BOOLEAN, skipping' \in BOOLEAN,
           result' \in 0 .. 2, skipping' => pc' = "skip"
    PROVE  /\ Typed' /\ Logged' /\ Within' /\ Reading' /\ Fields' /\ Limits' /\ Ending' /\ Aligned'
           /\ N' = N /\ Start' = Start /\ Cur' = Cur
<1>1. /\ limited /\ Cur <= N + 1 /\ Start[Cur] < fileLen
      /\ Cur = N + 1 => fileLen = Start[Cur] + 1
  BY DEF IInv, Limits, Within, InData, AfterMethod, AfterName, AfterSize
<1>2. Typed' /\ Logged' /\ N' = N /\ Start' = Start /\ Cur' = Cur
  <2>1. pc' \in {"scan", "done"} \union InHeader \union InData \union AfterData
    BY DEF InData, AfterData
  <2> QED
    BY <2>1, Kept, KindsOf DEF IInv, Typed
<1>3. Fields'
  BY <1>2 DEF IInv, Fields, InData, AfterData, AfterSize, AfterName, AfterMethod
<1>4. Within' /\ Reading' /\ Limits' /\ Ending' /\ Aligned'
  BY <1>1, <1>2 DEF Within, Reading, Limits, Ending, Aligned, InHeader, InData
<1> QED
  BY <1>2, <1>3, <1>4

\* Whether the file can be made or not, the data comes next.
LEMMA CreateFileKeeps == ASSUME IInv, CreateFile PROVE IInv'
<1>1. /\ pc = "create" /\ pc' \in {"skip", "decode"} /\ ~skipping /\ result' \in 0 .. 2
      /\ UNCHANGED <<members, ended, fileLen, log, method, name, size>>
      /\ UNCHANGED <<taken, left, limited, short, skipping>>
  BY DEF IInv, CreateFile, Limits, Archive, header, stream
<1>2. /\ Typed' /\ Logged' /\ Within' /\ Reading' /\ Fields' /\ Limits' /\ Ending' /\ Aligned'
      /\ N' = N /\ Start' = Start /\ Cur' = Cur
  BY <1>1, DataStep, KindsOf DEF IInv, Typed, InData
<1>3. Ahead'
  BY <1>1, <1>2 DEF IInv, Ahead, InData, AfterData
<1> QED
  BY <1>2, <1>3 DEF IInv

\* A byte taken under the limit leaves the end of the member where it is.
LEMMA TakenByte ==
    ASSUME IInv, pc \in InData, Str!Advance
    PROVE  /\ taken' \in 0 .. fileLen /\ left' \in 0 .. Huge
           /\ taken' + left' = taken + left /\ taken # fileLen
<1>1. /\ limited /\ taken \in 0 .. fileLen /\ left \in 0 .. Huge /\ fileLen \in Nat /\ Huge \in Nat
  BY HugeAssumption DEF IInv, Limits, Typed, TypeOK, InData
<1>2. taken' = taken + 1 /\ left' = left - 1 /\ left # 0 /\ taken # fileLen
  BY <1>1 DEF Str!Advance, Str!Nothing
<1> QED
  BY <1>1, <1>2

\* A decoder's byte.
LEMMA DecodeByteKeeps == ASSUME IInv, DecodeByte PROVE IInv'
<1>1. /\ pc = "decode" /\ pc' \in {"skip", "decode"} /\ ~skipping /\ result' \in 0 .. 2
      /\ UNCHANGED <<members, ended, fileLen, log, method, name, size>>
      /\ UNCHANGED <<limited, skipping>>
      /\ \/ Str!Advance /\ short' = short
         \/ short' = TRUE /\ UNCHANGED <<taken, left>>
  BY DEF IInv, DecodeByte, Limits, Archive, header, Str!SGet
<1>2. taken' \in 0 .. fileLen /\ left' \in 0 .. Huge /\ short' \in BOOLEAN
  BY <1>1, TakenByte, KindsOf DEF IInv, Typed, InData
<1>3. /\ Typed' /\ Logged' /\ Within' /\ Reading' /\ Fields' /\ Limits' /\ Ending' /\ Aligned'
      /\ N' = N /\ Start' = Start /\ Cur' = Cur
  BY <1>1, <1>2, DataStep, KindsOf DEF IInv, Typed, InData
<1>4. taken' + left' = taken + left /\ (taken = fileLen => taken' = taken)
  BY <1>1, TakenByte DEF InData
<1>5. Ahead'
  BY <1>1, <1>3, <1>4 DEF IInv, Ahead, InData, AfterData
<1> QED
  BY <1>3, <1>5 DEF IInv

\* A decoder may end anywhere.
LEMMA DecodeEndKeeps == ASSUME IInv, DecodeEnd PROVE IInv'
<1>1. /\ pc = "decode" /\ pc' = "skip" /\ ~skipping /\ result' \in 0 .. 2
      /\ UNCHANGED <<members, ended, fileLen, log, method, name, size>>
      /\ UNCHANGED <<taken, left, limited, short, skipping>>
  BY DEF IInv, DecodeEnd, Goto, Limits, Archive, header, stream
<1>2. /\ Typed' /\ Logged' /\ Within' /\ Reading' /\ Fields' /\ Limits' /\ Ending' /\ Aligned'
      /\ N' = N /\ Start' = Start /\ Cur' = Cur
  BY <1>1, DataStep, KindsOf DEF IInv, Typed, InData
<1>3. Ahead'
  BY <1>1, <1>2 DEF IInv, Ahead, InData, AfterData
<1> QED
  BY <1>2, <1>3 DEF IInv

\* What the decoder left is skipped, which ends where the member does.
LEMMA SkipRestKeeps == ASSUME IInv, SkipRest PROVE IInv'
<1>1. /\ pc = "skip" /\ pc' = (IF skipping' THEN "skip" ELSE "clear") /\ limited
      /\ UNCHANGED <<members, ended, fileLen, log, method, name, size, result, limited, short>>
      /\ \/ skipping' = TRUE /\ UNCHANGED <<taken, left>>
         \/ skipping /\ skipping' = skipping /\ Str!Advance
         \/ skipping' = FALSE /\ Str!Nothing /\ UNCHANGED <<taken, left>>
  BY DEF IInv, SkipRest, Limits, Archive, header, Str!SSkip, InData
<1>2. taken' \in 0 .. fileLen /\ left' \in 0 .. Huge /\ short' \in BOOLEAN /\ skipping' \in BOOLEAN
      /\ taken \in 0 .. fileLen /\ left \in 0 .. Huge /\ result' \in 0 .. 2
  BY <1>1, TakenByte, KindsOf DEF IInv, Typed, InData
<1>3. /\ Typed' /\ Logged' /\ Within' /\ Reading' /\ Fields' /\ Limits' /\ Ending' /\ Aligned'
      /\ N' = N /\ Start' = Start /\ Cur' = Cur
  <2>1. pc' \in InData \union {"clear"} /\ (skipping' => pc' = "skip")
    BY <1>1 DEF InData
  <2>2. /\ pc \in InData /\ limited' = limited
        /\ UNCHANGED <<members, ended, fileLen, log, method, name, size>>
    BY <1>1 DEF InData
  <2> QED
    BY <1>2, <2>1, <2>2, DataStep
<1>4. \/ Cur <= N /\ taken + left = Start[Cur + 1]
      \/ taken = fileLen /\ (Cur <= N => fileLen <= Start[Cur + 1])
  BY <1>1 DEF IInv, Ahead, InData
<1>5. CASE skipping'
  <2>1. pc' = "skip" /\ \/ UNCHANGED <<taken, left>>
                        \/ taken' + left' = taken + left /\ taken # fileLen
    BY <1>1, <1>5, TakenByte DEF InData
  <2>2. Ahead'
    BY <1>1, <1>3, <1>4, <2>1 DEF Ahead, AfterData
  <2> QED
    BY <1>3, <2>2 DEF IInv
<1>6. CASE ~skipping'
  <2>1. pc' = "clear" /\ UNCHANGED <<taken, left>> /\ (left = 0 \/ taken = fileLen)
    BY <1>1, <1>6 DEF Str!Nothing
  <2>2. fileLen \in Nat /\ Cur <= N + 1 /\ N \in Nat /\ (Cur <= N => Start[Cur + 1] \in Nat)
    BY <1>1, Plain DEF IInv, Within
  <2>3. taken = IF Cur <= N THEN Min2(Start[Cur + 1], fileLen) ELSE fileLen
    <3>1. CASE taken = fileLen
      BY <1>2, <1>4, <2>2, <3>1 DEF Min2
    <3>2. CASE taken # fileLen
      <4>1. Cur <= N /\ taken = Start[Cur + 1]
        BY <1>2, <1>4, <2>1, <2>2, <3>2
      <4> QED
        BY <1>2, <2>2, <4>1 DEF Min2
    <3> QED
      BY <3>1, <3>2
  <2>4. Ahead'
    BY <1>1, <1>3, <2>1, <2>3 DEF Ahead, InData
  <2> QED
    BY <1>3, <2>4 DEF IInv
<1> QED
  BY <1>5, <1>6

\* The limit goes; the place stays.
LEMMA ClearLimitKeeps == ASSUME IInv, ClearLimit PROVE IInv'
<1>1. /\ pc = "clear" /\ pc' = "close" /\ limited' = FALSE /\ ~skipping
      /\ UNCHANGED <<members, ended, fileLen, log, taken, left, short, skipping>>
      /\ UNCHANGED <<method, name, size, result>>
  BY DEF IInv, ClearLimit, Goto, Archive, header, Str!SClearLimit
<1>2. Typed' /\ Logged' /\ N' = N /\ Start' = Start /\ Cur' = Cur
  <2>1. pc' \in {"scan", "done"} \union InHeader \union InData \union AfterData
    BY <1>1 DEF AfterData
  <2> QED
    BY <1>1, <2>1, Kept, KindsOf DEF IInv, Typed
<1>3. Fields' /\ Ahead'
  BY <1>1, <1>2 DEF IInv, Fields, Ahead, InData, AfterData, AfterSize, AfterName, AfterMethod
<1>4. Within' /\ Reading' /\ Limits' /\ Ending' /\ Aligned'
  BY <1>1, <1>2 DEF IInv, Within, Reading, Limits, Ending, Aligned, InHeader, InData,
                    AfterData, AfterSize, AfterName, AfterMethod
<1> QED
  BY <1>2, <1>3, <1>4 DEF IInv
\* The member is logged, and the scan stands at the next one.
LEMMA CloseKeeps == ASSUME IInv, Close PROVE IInv'
<1>1. /\ pc = "close" /\ pc' = "scan" /\ ~limited /\ ~skipping
      /\ Cur <= N + 1 /\ Start[Cur] < fileLen /\ (Cur = N + 1 => fileLen = Start[Cur] + 1)
      /\ taken = IF Cur <= N THEN Min2(Start[Cur + 1], fileLen) ELSE fileLen
      /\ Start[Cur] + 2 < fileLen => name = members[Cur].name
      /\ UNCHANGED <<members, ended, fileLen, taken, limited, left, short, skipping>>
      /\ UNCHANGED <<method, name, size, result>>
  BY DEF IInv, Close, Goto, Limits, Within, Fields, Ahead, Archive, header, stream,
         InData, AfterData, AfterSize, AfterName, AfterMethod
<1>2. PICK o \in Outcomes : log' = Append(log, <<name, o>>)
  BY DEF Close, Outcome, Outcomes
<1>3. /\ log \in Seq(Names \X Outcomes) /\ TypeOK /\ Archived /\ fileLen \in Nat
      /\ fileLen <= Start[N + 1] + (IF ended THEN 2 ELSE 0)
  BY DEF IInv, Typed
<1>4. <<name, o>> \in Names \X Outcomes /\ <<name, o>>[1] = name
  BY <1>3, KindsOf
<1>5. N \in Nat /\ Len(log) \in Nat /\ Cur = Len(log) + 1 /\ DOMAIN log = 1 .. Len(log)
  BY Plain DEF IInv
<1>6. /\ log' \in Seq(Names \X Outcomes) /\ Len(log') = Cur /\ DOMAIN log' = 1 .. Cur
      /\ log'[Cur] = <<name, o>> /\ \A i \in 1 .. Len(log) : log'[i] = log[i]
  <2> DEFINE e == <<name, o>>
  <2> HIDE DEF e
  <2> QED
    BY <1>2, <1>3, <1>4, <1>5 DEF e
<1>7. N' = N /\ Start' = Start /\ Cur' = Cur + 1
  BY <1>1, <1>6, SameArchive DEF Cur
<1>8. Typed'
  <2>1. Archived' /\ fileLen' \in Nat /\ (fileLen <= Start[N + 1] + (IF ended THEN 2 ELSE 0))'
    BY <1>1, <1>3, <1>7 DEF Archived
  <2>2. TypeOK'
    <3>1. Len(log') <= Len(members') + 1
      BY <1>1, <1>6 DEF N
    <3> QED
      BY <1>1, <1>3, <3>1 DEF TypeOK
  <2> QED
    BY <1>6, <2>1, <2>2 DEF Typed
<1>9. Logged'
  <2> SUFFICES ASSUME NEW i \in 1 .. Cur
               PROVE  /\ i <= N + 1 /\ Start[i] < fileLen
                      /\ i = N + 1 => fileLen = Start[i] + 1
                      /\ i <= N /\ Start[i] + 2 < fileLen => log'[i][1] = members[i].name
    BY <1>1, <1>6, <1>7 DEF Logged
  <2>1. CASE i = Cur
    BY <1>1, <1>4, <1>6, <2>1
  <2>2. CASE i # Cur
    <3>1. i \in 1 .. Len(log)
      BY <1>5, <2>2
    <3> QED
      BY <1>5, <1>6, <3>1 DEF IInv, Logged
  <2> QED
    BY <2>1, <2>2
<1>10. Aligned'
  <2>1. Len(log') + 1 = Cur + 1
    BY <1>6
  <2> QED
    BY <1>1, <1>6, <1>7, <2>1 DEF Aligned, N
<1>11. Within' /\ Reading' /\ Fields' /\ Limits' /\ Ahead' /\ Ending'
  BY <1>1 DEF Within, Reading, Fields, Limits, Ahead, Ending, InHeader, InData,
              AfterData, AfterSize, AfterName, AfterMethod
<1> QED
  BY <1>8, <1>9, <1>10, <1>11 DEF IInv

\* It begins at the first member.
LEMMA InitHolds == Init => IInv
<1> SUFFICES ASSUME Init PROVE IInv
  OBVIOUS
<1>1. /\ members \in Archives /\ ended \in BOOLEAN /\ fileLen \in 0 .. Len(Layout) /\ taken = 0
      /\ limited = FALSE /\ left = 0 /\ short = FALSE /\ skipping = FALSE /\ pc = "scan"
      /\ method = "end" /\ name = "" /\ size = 0 /\ result = 1 /\ log = <<>>
  BY DEF Init
<1>2. Archived
  BY <1>1, ArchivesAssumption DEF Archived
<1>3. /\ N \in Nat /\ N + 1 \in 1 .. N + 1 /\ 1 \in 1 .. N + 1 /\ Start[1] = 0
      /\ Start[N + 1] \in Nat /\ Len(log) = 0 /\ DOMAIN log = {} /\ Cur = 1
  <2>1. N \in Nat /\ Start[1] = 0
    BY <1>2, StartSteps
  <2>2. N + 1 \in 1 .. N + 1 /\ 1 \in 1 .. N + 1
    BY <2>1
  <2>3. Len(log) = 0
    BY <1>1
  <2>4. DOMAIN log = {}
    <3>1. log = <<>>
      BY <1>1
    <3> QED
      BY <3>1, EmptySeq
  <2>5. Cur = 1
    BY <2>3 DEF Cur
  <2> QED
    BY <1>2, <2>1, <2>2, <2>3, <2>4, <2>5, StartType
<1>4. Len(Layout) = Start[N + 1] + (IF ended THEN 2 ELSE 0)
  BY <1>2, LayoutIs
<1>5. fileLen \in Nat /\ fileLen <= Start[N + 1] + (IF ended THEN 2 ELSE 0)
  <2> DEFINE a == Start[N + 1]
             b == Len(Layout)
  <2>1. a \in Nat /\ b = a + (IF ended THEN 2 ELSE 0) /\ fileLen \in 0 .. b
    BY <1>1, <1>3, <1>4
  <2> HIDE DEF a, b
  <2>2. fileLen \in Nat /\ fileLen <= a + (IF ended THEN 2 ELSE 0)
    BY <2>1
  <2> QED
    BY <2>2 DEF a
<1>6. log \in Seq(Names \X Outcomes)
  <2> DEFINE S == Names \X Outcomes
  <2> HIDE DEF S
  <2>1. log = <<>>
    BY <1>1
  <2>2. log \in Seq(S)
    BY <2>1, EmptySeq
  <2> QED
    BY <2>2 DEF S
<1>7. TypeOK
  <2>1. taken = 0 /\ left = 0 /\ size = 0 /\ result = 1 /\ method = "end"
    BY <1>1
  <2>2. limited = FALSE /\ short = FALSE /\ skipping = FALSE
    BY <1>1
  <2>3. taken \in 0 .. fileLen /\ left \in 0 .. Huge
    BY <1>5, <2>1, HugeAssumption
  <2>4. Len(log) <= Len(members) + 1
    <3>1. Len(log) <= N + 1
      BY <1>3
    <3> QED
      BY <3>1 DEF N
  <2>5. {limited, short, skipping} \subseteq BOOLEAN
    BY <2>2
  <2>6. size \in Nat /\ result \in 0 .. 2 /\ method \in {"end", "old", "known", "unknown"}
    BY <2>1
  <2>7. name \in Names
    BY <1>1, Zenon DEF Names
  <2> QED
    BY <1>1, <2>3, <2>4, <2>5, <2>6, <2>7 DEF TypeOK
<1>8. Typed
  BY <1>2, <1>5, <1>6, <1>7 DEF Typed
<1>9. Logged
  BY <1>3 DEF Logged
<1>10. Aligned
  <2> DEFINE i == Len(log) + 1
  <2>1. i = 1
    BY <1>3
  <2> HIDE DEF i
  <2>2. Start[i] = 0 /\ Min2(Start[i], fileLen) = 0 /\ Len(log) <= Len(members)
    BY <1>3, <1>5, <2>1 DEF Min2, N
  <2> QED
    BY <1>1, <2>2 DEF Aligned, i
<1>11. Within /\ Reading /\ Fields /\ Limits /\ Ahead /\ Ending
  BY <1>1 DEF Within, Reading, Fields, Limits, Ahead, Ending, InHeader, InData,
              AfterData, AfterSize, AfterName, AfterMethod
<1> QED
  BY <1>8, <1>9, <1>10, <1>11 DEF IInv

\* Nothing changes when nothing happens.
LEMMA StutterKeeps == ASSUME IInv, UNCHANGED vars PROVE IInv'
<1>1. /\ UNCHANGED <<members, ended, fileLen, log, taken, limited, left, short, skipping>>
      /\ UNCHANGED <<method, name, size, result, pc>>
  BY DEF vars
<1>2. N' = N /\ Start' = Start /\ Cur' = Cur
  BY <1>1, SameArchive DEF Cur
<1>3. Typed'
  BY <1>1, <1>2 DEF IInv, Typed, TypeOK, Archived
<1>4. Within' /\ Reading' /\ Fields' /\ Limits'
  BY <1>1, <1>2 DEF IInv, Within, Reading, ReadTo, Fields, Limits
<1>5. Ahead' /\ Logged' /\ Ending' /\ Aligned'
  BY <1>1, <1>2 DEF IInv, Ahead, Logged, Ending, Aligned
<1> QED
  BY <1>3, <1>4, <1>5 DEF IInv

\* No step breaks the invariant.
LEMMA NextKeeps == ASSUME IInv, [Next]_vars PROVE IInv'
<1>1. CASE Program
  BY <1>1, ScanKeeps, MarkerKeeps, EatMarkerKeeps, LookAtMethodKeeps, ReadMethodKeeps,
     ReadNameKeeps, ReadSizeKeeps, ReadOrigKeeps, SetLimitKeeps, CreateFileKeeps,
     DecodeByteKeeps, DecodeEndKeeps, SkipRestKeeps, ClearLimitKeeps, CloseKeeps DEF Program
<1>2. CASE Finished
  BY <1>2, StutterKeeps DEF Finished
<1>3. CASE UNCHANGED vars
  BY <1>3, StutterKeeps
<1> QED
  BY <1>1, <1>2, <1>3 DEF Next

\* The driver is always where its invariant says, in every archive.
THEOREM DriverInvariant == Spec => []IInv
<1>1. Init => IInv
  BY InitHolds
<1>2. IInv /\ [Next]_vars => IInv'
  BY NextKeeps
<1> QED
  BY <1>1, <1>2, PTL DEF Spec

\* Every state is of the types that TypeOK gives.
THEOREM DriverTypeOK == Spec => []TypeOK
<1>1. IInv => TypeOK
  BY DEF IInv, Typed
<1> QED
  BY <1>1, DriverInvariant, PTL

\* Whatever became of the members before, the scan stands at the next header.
THEOREM AlwaysAligned == Spec => []Aligned
<1>1. IInv => Aligned
  BY DEF IInv
<1> QED
  BY <1>1, DriverInvariant, PTL

\* Every member whose header is in the file has been gone to, under its name.
THEOREM NoMemberIsLost == Spec => []NoMemberLost
<1>1. IInv => NoMemberLost
  <2> SUFFICES ASSUME IInv, pc = "done", NEW i \in DOMAIN members,
                      Start[i] + Len(Header(members[i])) <= fileLen
               PROVE  i <= Len(log) /\ log[i][1] = members[i].name
    BY DEF NoMemberLost
  <2>1. /\ i \in 1 .. N /\ i \in 1 .. N + 1 /\ N \in Nat /\ fileLen \in Nat /\ Len(log) \in Nat
        /\ DOMAIN log = 1 .. Len(log) /\ Cur = Len(log) + 1
        /\ Cur <= N + 1 => Cur \in 1 .. N + 1 /\ Start[Cur] \in Nat
    <3>1. i \in 1 .. N
      BY DEF IInv, Typed, Archived, N
    <3> QED
      BY <3>1, Plain DEF IInv
  <2>2. members[i] \in Members /\ Start[i] \in Nat
    BY <2>1, StartSteps, StartType DEF IInv, Typed
  <2>3. Start[i] + 4 <= fileLen
    <3> DEFINE k == Len(Header(members[i]))
    <3>1. k \in {4, 5}
      BY <2>2, HeaderOf
    <3> HIDE DEF k
    <3>2. Start[i] + k <= fileLen
      BY DEF k
    <3> QED
      BY <2>1, <2>2, <3>1, <3>2
  <2>4. i <= Len(log)
    <3> SUFFICES ASSUME ~(i <= Len(log)) PROVE FALSE
      OBVIOUS
    <3>1. Cur <= i /\ ~(Len(log) >= N) /\ Cur <= N + 1
      BY <2>1
    <3>2. fileLen <= Start[Cur]
      BY <3>1 DEF IInv, Ending
    <3>3. Cur < i => Start[Cur] + Len(Cells(members[Cur])) <= Start[i]
      BY <2>1, <3>1, StartGrows DEF IInv, Typed
    <3>4. Cur \in 1 .. N /\ Len(Cells(members[Cur])) \in Nat
      BY <2>1, <3>1, StartSteps DEF IInv, Typed
    <3> QED
      BY <2>1, <2>2, <2>3, <3>1, <3>2, <3>3, <3>4
  <2>5. i \in DOMAIN log /\ i <= N /\ Start[i] + 2 < fileLen
    BY <2>1, <2>2, <2>3, <2>4
  <2> QED
    BY <2>4, <2>5 DEF IInv, Logged
<1> QED
  BY <1>1, DriverInvariant, PTL
-----------------------------------------------------------------------------
(* What parse_header makes of the same cells.                              *)
Nothing == [names |-> <<>>, raised |-> FALSE]
Raised == [names |-> <<>>, raised |-> TRUE]
ParseFrom(g, o) ==
    IF o = fileLen \/ (o + 1 = fileLen /\ IsMark(o)) THEN Nothing
    ELSE IF ~IsMark(o) THEN Raised
    ELSE IF AsMethod(o + 1) = "end" THEN Nothing
    ELSE IF ~Present(o, HeaderLen(AsMethod(o + 1))) THEN Raised
    ELSE LET rest == g[Min2(o + HeaderLen(AsMethod(o + 1)) + AsSize(o + 3), fileLen)]
         IN  [names |-> <<AsName(o + 2)>> \o rest.names, raised |-> rest.raised]

\* A size is a number wherever it is read.
LEMMA SizeIsNumber ==
    ASSUME Archived, NEW b \in Nat, b < Len(Layout)
    PROVE  AsSize(b) \in Nat
<1> DEFINE n == Start[N + 1]
           c == Layout[b + 1]
<1>1. N \in Nat /\ n \in Nat /\ \A k \in 1 .. N + 1 : Start[k] \in Nat
  BY StartSteps, StartType
<1>2. Len(Layout) = n + (IF ended THEN 2 ELSE 0)
  BY LayoutIs
<1>3. AsSize(b) = IF c[1] = "size" THEN c[2] ELSE Huge
  <2>1. b # Str!Eof
    BY DEF Str!Eof
  <2> QED
    BY <2>1 DEF AsSize, Cell
<1>4. CASE b + 1 \in 1 .. n
  <2>1. PICK i \in 1 .. N : b + 1 \in Start[i] + 1 .. Start[i + 1]
    BY <1>4, MemberFor
  <2> DEFINE m == members[i]
             j == b + 1 - Start[i]
             k == HeaderLen(m.method)
  <2>2. m \in Members /\ Start[i + 1] = Start[i] + Len(Cells(m)) /\ Start[i] \in Nat
    BY <1>1, <2>1, StartSteps
  <2>3. Len(Cells(m)) \in Nat /\ m.size \in Nat /\ k \in {4, 5}
    BY <2>2, CellsOf, MemberFields, HeaderOf
  <2>4. j \in 1 .. Len(Cells(m)) /\ Start[i] + j = b + 1
    <3> DEFINE l == Len(Cells(m))
               s == Start[i]
               t == Start[i + 1]
    <3>1. s \in Nat /\ l \in Nat /\ t = s + l /\ b + 1 \in s + 1 .. t
      BY <2>1, <2>2, <2>3
    <3> HIDE DEF l, s, t
    <3>2. b + 1 - s \in 1 .. l /\ s + (b + 1 - s) = b + 1
      BY <3>1
    <3> QED
      BY <3>2 DEF l, s
  <2>5. c = Cells(m)[j]
    BY <2>4, LayoutIs
  <2>6. CASE j \in 1 .. k
    <3>1. c = Header(m)[j]
      BY <2>2, <2>5, <2>6, CellsOf
    <3>2. j = 1 \/ j = 2 \/ j = 3 \/ j = 4 \/ (j = 5 /\ k = 5)
      BY <2>3, <2>6
    <3>3. k = 5 => m.method # "old"
      BY DEF HeaderLen
    <3>4. \/ c = <<"mark">> \/ c = <<"method", m.method>> \/ c = <<"name", m.name>>
          \/ c = <<"size", m.size>> \/ c = <<"orig">>
      BY <2>2, <3>1, <3>2, <3>3, HeaderOf
    <3>5. c[1] = "size" => c = <<"size", m.size>>
      <4> HIDE DEF c, m
      <4> QED
        BY <3>4
    <3>6. c = <<"size", m.size>> => c[2] = m.size
      OBVIOUS
    <3> QED
      BY <1>3, <2>3, <3>5, <3>6, HugeAssumption
  <2>7. CASE j \notin 1 .. k
    <3>1. j \in k + 1 .. Len(Cells(m))
      <4> HIDE DEF k, j
      <4> QED
        BY <2>3, <2>4, <2>7
    <3>2. c = <<"data">>
      BY <2>2, <2>5, <3>1, CellsOf
    <3>3. c[1] # "size"
      <4> HIDE DEF c
      <4> QED
        BY <3>2
    <3> QED
      BY <1>3, <3>3, HugeAssumption
  <2> QED
    BY <2>6, <2>7
<1>5. CASE b + 1 \notin 1 .. n
  <2> HIDE DEF n
  <2>1. ended /\ (b + 1 = n + 1 \/ b + 1 = n + 2)
    BY <1>1, <1>2, <1>5
  <2>2. c = <<"mark">> \/ c = <<"method", "end">>
    BY <2>1, LayoutIs DEF n
  <2>3. c[1] # "size"
    <3> HIDE DEF c
    <3> QED
      BY <2>2
  <2> QED
    BY <1>3, <2>3, HugeAssumption
<1> QED
  BY <1>4, <1>5

\* Parse is the function its definition describes.
LEMMA ParseRecursion ==
    ASSUME Typed
    PROVE  \A o \in 0 .. fileLen : Parse[o] = ParseFrom(Parse, o)
<1> DEFINE L == fileLen
           Down(g, n) == g = [o \in L - n .. L |-> ParseFrom(g, o)]
           Bad == {n \in Nat : n <= L /\ ~\E g : Down(g, n)}
<1>1. L \in Nat /\ L <= Len(Layout) /\ Archived
  <2>1. Archived /\ fileLen \in Nat /\ fileLen <= Start[N + 1] + (IF ended THEN 2 ELSE 0)
    BY DEF Typed
  <2>2. Len(Layout) = Start[N + 1] + (IF ended THEN 2 ELSE 0)
    BY <2>1, LayoutIs
  <2> QED
    BY <2>1, <2>2
\* Only what lies further on is looked at.
<1>2. ASSUME NEW g, NEW h, NEW o \in 0 .. L,
             \A p \in o + 1 .. L : g[p] = h[p]
      PROVE  ParseFrom(g, o) = ParseFrom(h, o)
  <2> DEFINE k == HeaderLen(AsMethod(o + 1))
             p == Min2(o + k + AsSize(o + 3), L)
  <2>1. CASE o = L \/ ~Present(o, k)
    BY <2>1 DEF ParseFrom
  <2>2. CASE o # L /\ Present(o, k)
    <3>1. k = 4 \/ k = 5
      BY DEF HeaderLen
    <3>2. o + k <= L
      BY <2>2 DEF Present
    <3>3. o + 3 \in Nat /\ o + 3 < Len(Layout)
      <4> HIDE DEF k, L
      <4> DEFINE l == Len(Layout)
      <4>1. l \in Nat
        <5>1. Start[N + 1] \in Nat /\ N \in Nat
          BY <1>1, StartSteps, StartType
        <5> QED
          BY <1>1, <5>1, LayoutIs
      <4> HIDE DEF l
      <4>2. L <= l
        BY <1>1 DEF l
      <4>3. o + 3 \in Nat /\ o + 3 < l
        BY <1>1, <3>1, <3>2, <4>1, <4>2
      <4> QED
        BY <4>3 DEF l
    <3>4. AsSize(o + 3) \in Nat
      BY <1>1, <3>3, SizeIsNumber
    <3>5. p \in o + 1 .. L
      <4> HIDE DEF k, L
      <4> QED
        BY <1>1, <3>1, <3>2, <3>4 DEF Min2
    <3>6. g[p] = h[p]
      BY <1>2, <3>5
    <3> QED
      BY <3>6 DEF ParseFrom
  <2> QED
    BY <2>1, <2>2
<1>3. Bad = {}
  <2> SUFFICES ASSUME Bad # {} PROVE FALSE
    OBVIOUS
  <2>1. PICK n \in Bad : \A k \in Bad : n <= k
    <3>1. Bad \subseteq Nat
      OBVIOUS
    <3> HIDE DEF Bad
    <3> QED
      BY <3>1, LeastOf
  <2>2. n \in Nat /\ n <= L /\ ~\E g : Down(g, n)
    BY <2>1
  <2>3. \E g : \A p \in L - n + 1 .. L : g[p] = ParseFrom(g, p)
    <3>1. CASE n = 0
      <4>1. L - n + 1 .. L = {}
        BY <1>1, <3>1
      <4> QED
        BY <4>1
    <3>2. CASE n # 0
      <4>1. n - 1 \in Nat /\ n - 1 \notin Bad /\ n - 1 <= L
        <5>1. n - 1 \in Nat /\ n - 1 <= L /\ ~(n <= n - 1)
          BY <1>1, <2>2, <3>2
        <5>2. n - 1 \notin Bad
          <6> HIDE DEF Bad
          <6> QED
            BY <2>1, <5>1
        <5> QED
          BY <5>1, <5>2
      <4>2. PICK g : Down(g, n - 1)
        BY <4>1
      <4>3. L - (n - 1) = L - n + 1
        BY <1>1, <2>2
      <4>4. \A p \in L - n + 1 .. L : g[p] = ParseFrom(g, p)
        BY <4>2, <4>3
      <4> QED
        BY <4>4
    <3> QED
      BY <3>1, <3>2
  <2>4. PICK g : \A p \in L - n + 1 .. L : g[p] = ParseFrom(g, p)
    BY <2>3
  <2> DEFINE h == [o \in L - n .. L |-> IF o = L - n THEN ParseFrom(g, o) ELSE g[o]]
  <2>5. \A o \in L - n .. L : (o # L - n => o \in L - n + 1 .. L) /\ o \in 0 .. L
    BY <1>1, <2>2
  <2>6. \A p \in L - n + 1 .. L : p \in L - n .. L /\ p # L - n
    BY <1>1, <2>2
  <2>7. \A p \in L - n + 1 .. L : h[p] = g[p]
    BY <2>6
  <2>8. ASSUME NEW o \in L - n .. L
        PROVE  h[o] = ParseFrom(h, o)
    <3>1. \A p \in o + 1 .. L : p \in L - n + 1 .. L
      BY <1>1, <2>2
    <3>2. ParseFrom(g, o) = ParseFrom(h, o)
      <4>1. o \in 0 .. L /\ \A p \in o + 1 .. L : g[p] = h[p]
        BY <2>5, <2>7, <3>1
      <4> HIDE DEF h
      <4> QED
        BY <1>2, <4>1
    <3>3. h[o] = ParseFrom(g, o)
      BY <2>4, <2>5
    <3> QED
      BY <3>2, <3>3
  <2>9. h = [o \in L - n .. L |-> ParseFrom(h, o)]
    BY <2>8
  <2> QED
    BY <2>2, <2>9
<1>4. PICK g : Down(g, L)
  <2>1. L \in Nat /\ L <= L /\ L \notin Bad
    BY <1>1, <1>3
  <2> QED
    BY <2>1
<1>5. g = [o \in 0 .. fileLen |-> ParseFrom(g, o)]
  <2>1. L - L = 0
    BY <1>1
  <2> QED
    BY <1>4, <2>1
<1>6. \E f : f = [o \in 0 .. fileLen |->
        IF o = fileLen \/ (o + 1 = fileLen /\ IsMark(o)) THEN [names |-> <<>>, raised |-> FALSE]
        ELSE IF ~IsMark(o) THEN [names |-> <<>>, raised |-> TRUE]
        ELSE IF AsMethod(o + 1) = "end" THEN [names |-> <<>>, raised |-> FALSE]
        ELSE IF ~Present(o, HeaderLen(AsMethod(o + 1))) THEN [names |-> <<>>, raised |-> TRUE]
        ELSE LET data == o + HeaderLen(AsMethod(o + 1))
                 rest == f[Min2(data + AsSize(o + 3), fileLen)]
             IN  [names |-> <<AsName(o + 2)>> \o rest.names, raised |-> rest.raised]]
  BY <1>5, Zenon DEF ParseFrom, Nothing, Raised
<1>7. Parse = [o \in 0 .. fileLen |-> ParseFrom(Parse, o)]
  BY <1>6, Zenon DEF Parse, ParseFrom, Nothing, Raised
<1> QED
  BY <1>7
\* The names of the members from the i'th to the k'th.
NamesFrom(i, k) == [j \in 1 .. k + 1 - i |-> members[i + j - 1].name]

\* A member's name goes before those of the members after it.
LEMMA NamesGrow ==
    ASSUME Archived, NEW k \in 0 .. N, NEW i \in 1 .. k
    PROVE  <<members[i].name>> \o NamesFrom(i + 1, k) = NamesFrom(i, k)
<1> DEFINE a == members[i].name
           t == NamesFrom(i + 1, k)
           s == NamesFrom(i, k)
           n == k - i
<1>1. N \in Nat /\ k \in Nat /\ i \in Nat /\ n \in Nat /\ i \in 1 .. N
  BY StartSteps
<1>2. \A j \in 1 .. N : members[j].name \in Names
  BY StartSteps, MemberFields
<1>3. /\ t = [j \in 1 .. n |-> members[i + j].name]
      /\ s = [j \in 1 .. n + 1 |-> members[i + j - 1].name]
  <2>1. k + 1 - (i + 1) = n /\ k + 1 - i = n + 1 /\ \A j \in 1 .. n : i + 1 + j - 1 = i + j
    BY <1>1
  <2> HIDE DEF n
  <2> QED
    BY <2>1 DEF NamesFrom
<1>4. \A j \in 1 .. n : i + j \in 1 .. N
  BY <1>1
<1>5. \A j \in 1 .. n + 1 : i + j - 1 \in 1 .. N
  BY <1>1
<1> HIDE DEF t, s, n
<1>6. t \in Seq(Names) /\ Len(t) = n
  <2>1. t \in [1 .. n -> Names]
    BY <1>2, <1>3, <1>4
  <2> HIDE DEF Names
  <2> QED
    BY <1>1, <2>1
<1>7. s \in Seq(Names) /\ Len(s) = n + 1
  <2>1. \A j \in 1 .. n + 1 : members[i + j - 1].name \in Names
    BY <1>2, <1>5
  <2>2. s \in [1 .. n + 1 -> Names]
    BY <1>3, <2>1
  <2>3. n + 1 \in Nat
    BY <1>1
  <2> HIDE DEF Names
  <2> QED
    BY <2>2, <2>3
<1>8. <<a>> \in Seq(Names) /\ Len(<<a>>) = 1 /\ <<a>>[1] = a
  <2>1. a \in Names
    BY <1>1, <1>2
  <2> HIDE DEF a, Names
  <2> QED
    BY <2>1
<1> DEFINE r == <<a>> \o t
<1> HIDE DEF a, Names
<1>9. /\ r \in Seq(Names) /\ Len(r) = n + 1
      /\ \A j \in 1 .. n + 1 : r[j] = IF j <= 1 THEN <<a>>[j] ELSE t[j - 1]
  <2>1. /\ r \in Seq(Names) /\ Len(r) = 1 + n
        /\ \A j \in 1 .. 1 + n : r[j] = IF j <= 1 THEN <<a>>[j] ELSE t[j - 1]
    BY <1>6, <1>8, ConcatProperties
  <2>2. 1 + n = n + 1
    BY <1>1
  <2> QED
    BY <2>1, <2>2
<1> HIDE DEF r
<1>10. ASSUME NEW j \in 1 .. n + 1
       PROVE  r[j] = s[j]
  <2>1. CASE j = 1
    <3>1. i + j - 1 = i /\ j <= 1
      BY <1>1, <2>1
    <3>2. s[j] = members[i].name
      BY <1>3, <3>1
    <3>3. r[j] = <<a>>[1]
      BY <1>9, <2>1, <3>1
    <3> QED
      BY <1>8, <3>2, <3>3 DEF a
  <2>2. CASE j # 1
    <3>1. j - 1 \in 1 .. n /\ i + (j - 1) = i + j - 1 /\ ~(j <= 1)
      BY <1>1, <2>2
    <3>2. r[j] = t[j - 1]
      BY <1>9, <3>1
    <3>3. t[j - 1] = members[i + (j - 1)].name
      BY <1>3, <3>1
    <3> QED
      BY <1>3, <3>1, <3>2, <3>3
  <2> QED
    BY <2>1, <2>2
<1>11. r = s
  BY <1>7, <1>9, <1>10, SeqEqual
<1> QED
  BY <1>11 DEF r, s, t, a

\* k members, or as many as begin in the file; none is cut inside its header.
WholeUpTo(k) ==
    /\ k \in 0 .. N
    /\ \A i \in 1 .. k : Start[i] + Len(Header(members[i])) <= fileLen
    /\ \/ fileLen <= Start[k + 1]
       \/ k = N /\ ended /\ fileLen = Start[N + 1] + 2

\* What the Python tool finds, when no header is cut: every member there is.
LEMMA ParseFinds ==
    ASSUME Typed, NEW k, WholeUpTo(k)
    PROVE  PyExtract = [names |-> NamesFrom(1, k), raised |-> FALSE]
<1> DEFINE R(i) == Parse[Min2(Start[i], fileLen)]
           Found(i) == [names |-> NamesFrom(i, k), raised |-> FALSE]
           Bad == {n \in Nat : n <= k /\ R(k + 1 - n) # Found(k + 1 - n)}
<1>1. /\ Archived /\ N \in Nat /\ k \in 0 .. N /\ k + 1 \in 1 .. N + 1 /\ fileLen \in Nat
      /\ \A i \in 1 .. N + 1 : Start[i] \in Nat
  <2>1. Archived /\ fileLen \in Nat /\ k \in 0 .. N
    BY DEF Typed, WholeUpTo
  <2>2. N \in Nat
    BY <2>1, StartSteps
  <2> QED
    BY <2>1, <2>2, StartType
<1>2. \A o \in 0 .. fileLen : Parse[o] = ParseFrom(Parse, o)
  BY ParseRecursion
<1>3. R(k + 1) = Found(k + 1)
  <2> DEFINE s == Start[k + 1]
  <2>1. Found(k + 1) = Nothing
    <3>1. k + 1 - (k + 1) = 0
      BY <1>1
    <3>2. NamesFrom(k + 1, k) = <<>>
      BY <3>1 DEF NamesFrom
    <3> QED
      BY <3>2 DEF Nothing
  <2>2. CASE fileLen <= s
    <3>1. Min2(s, fileLen) = fileLen /\ fileLen \in 0 .. fileLen
      BY <1>1, <2>2 DEF Min2
    <3>2. ParseFrom(Parse, fileLen) = Nothing
      BY DEF ParseFrom
    <3> QED
      BY <1>2, <2>1, <3>1, <3>2
  <2>3. CASE ~(fileLen <= s)
    <3>1. k = N /\ ended /\ fileLen = s + 2 /\ s = Start[N + 1]
      BY <2>3 DEF WholeUpTo
    <3>2. IsMark(s) /\ AsMethod(s + 1) = "end"
      BY <1>1, <3>1, EndMarkIs
    <3>3. s \in Nat
      BY <1>1
    <3> HIDE DEF s
    <3>4. Min2(s, fileLen) = s /\ s \in 0 .. fileLen /\ s # fileLen /\ s + 1 # fileLen
      BY <1>1, <3>1, <3>3 DEF Min2
    <3>5. ParseFrom(Parse, s) = Nothing
      BY <3>2, <3>4 DEF ParseFrom
    <3>6. Parse[Min2(s, fileLen)] = Nothing
      BY <1>2, <3>4, <3>5
    <3> QED
      BY <2>1, <3>6 DEF s
  <2> QED
    BY <2>2, <2>3
<1>4. ASSUME NEW i \in 1 .. k, R(i + 1) = Found(i + 1)
      PROVE  R(i) = Found(i)
  <2> DEFINE m == members[i]
             s == Start[i]
             h == HeaderLen(m.method)
  <2>1. i \in 1 .. N /\ i \in 1 .. N + 1 /\ i + 1 \in 1 .. N + 1
    BY <1>1
  <2>2. /\ m \in Members /\ s \in Nat /\ Start[i + 1] = s + Len(Cells(m))
        /\ Start[i + 1] \in Nat
    BY <1>1, <2>1, StartSteps
  <2>3. /\ IsMark(s) /\ AsMethod(s + 1) = m.method /\ AsName(s + 2) = m.name
        /\ AsSize(s + 3) = m.size
    BY <1>1, <2>1, FieldsAre
  <2>4. /\ Len(Cells(m)) = h + m.size /\ Len(Header(m)) = h /\ h \in {4, 5}
        /\ m.method # "end" /\ m.size \in Nat
    <3>1. m.method \in {"old", "known", "unknown"} /\ m.size \in Nat
      BY <2>2, MemberFields
    <3> QED
      BY <2>2, <3>1, CellsOf, HeaderOf
  <2>5. s + h <= fileLen
    BY <2>4 DEF WholeUpTo
  <2> DEFINE e == Start[i + 1]
             z == m.size
             p == Min2(s + h + z, fileLen)
  <2>6. e = s + h + z
    <3> DEFINE c == Len(Cells(m))
    <3>1. e = s + c /\ c = h + z /\ z \in Nat /\ h \in {4, 5} /\ s \in Nat
      BY <2>2, <2>4
    <3> HIDE DEF c, e, z, h, s
    <3> QED
      BY <3>1
  <2>7. s \in 0 .. fileLen /\ Min2(s, fileLen) = s /\ s # fileLen /\ s + 1 # fileLen
    <3>1. s \in Nat /\ h \in {4, 5} /\ s + h <= fileLen
      BY <2>2, <2>4, <2>5
    <3> HIDE DEF s, h
    <3> QED
      BY <1>1, <3>1 DEF Min2
  <2>8. Present(s, HeaderLen(AsMethod(s + 1)))
    BY <2>3, <2>5 DEF Present
  <2>9. ParseFrom(Parse, s) = [names |-> <<m.name>> \o Parse[p].names, raised |-> Parse[p].raised]
    <3> HIDE DEF m, s
    <3> QED
      BY <2>3, <2>4, <2>7, <2>8 DEF ParseFrom
  <2>10. Parse[p] = [names |-> NamesFrom(i + 1, k), raised |-> FALSE]
    BY <1>4, <2>6
  <2>11. <<m.name>> \o NamesFrom(i + 1, k) = NamesFrom(i, k)
    BY <1>1, NamesGrow
  <2>12. ParseFrom(Parse, s) = [names |-> NamesFrom(i, k), raised |-> FALSE]
    <3> DEFINE t == NamesFrom(i + 1, k)
               u == NamesFrom(i, k)
               a == <<m.name>>
    <3>1. Parse[p] = [names |-> t, raised |-> FALSE] /\ a \o t = u
      BY <2>10, <2>11
    <3> HIDE DEF t, u, a, p
    <3>2. Parse[p].names = t /\ Parse[p].raised = FALSE
      BY <3>1
    <3>3. a \o Parse[p].names = u
      BY <3>1, <3>2, Zenon
    <3>4. ParseFrom(Parse, s) = [names |-> u, raised |-> FALSE]
      BY <2>9, <3>2, <3>3, Zenon DEF a
    <3> QED
      BY <3>4 DEF u
  <2>13. Parse[Min2(Start[i], fileLen)] = ParseFrom(Parse, s)
    BY <1>2, <2>7
  <2> QED
    BY <2>12, <2>13
<1> HIDE DEF R, Found
<1>5. Bad = {}
  <2> SUFFICES ASSUME Bad # {} PROVE FALSE
    OBVIOUS
  <2>1. PICK n \in Bad : \A l \in Bad : n <= l
    <3>1. Bad \subseteq Nat
      OBVIOUS
    <3> HIDE DEF Bad
    <3> QED
      BY <3>1, LeastOf
  <2>2. n \in Nat /\ n <= k /\ R(k + 1 - n) # Found(k + 1 - n)
    BY <2>1
  <2>3. n # 0
    <3>1. n = 0 => k + 1 - n = k + 1
      BY <1>1
    <3> QED
      BY <1>3, <2>2, <3>1
  <2>4. n - 1 \in Nat /\ n - 1 <= k /\ ~(n <= n - 1)
    BY <1>1, <2>2, <2>3
  <2>5. n - 1 \notin Bad
    <3> HIDE DEF Bad
    <3> QED
      BY <2>1, <2>4
  <2> DEFINE i == k + 1 - n
  <2>6. i \in 1 .. k /\ k + 1 - (n - 1) = i + 1
    BY <1>1, <2>2, <2>3
  <2>7. R(i + 1) = Found(i + 1)
    BY <2>4, <2>5, <2>6
  <2> QED
    BY <1>4, <2>2, <2>6, <2>7
<1>6. R(1) = Found(1)
  <2>1. k \in Nat /\ k <= k /\ k + 1 - k = 1
    BY <1>1
  <2>2. k \notin Bad
    <3> HIDE DEF Bad
    <3> QED
      BY <1>5
  <2>3. R(k + 1 - k) = Found(k + 1 - k)
    BY <2>1, <2>2
  <2> QED
    BY <2>1, <2>3
<1>7. Min2(Start[1], fileLen) = 0
  BY <1>1, StartSteps DEF Min2
<1> QED
  BY <1>6, <1>7 DEF PyExtract, R, Found

\* The two programs give out the same members in the same order, of every
\* archive that is not cut inside a header.
THEOREM ProgramsAgree == Spec => []WholeArchiveAgrees
<1>1. IInv => WholeArchiveAgrees
  <2> SUFFICES ASSUME IInv, pc = "done", ~CutInHeader
               PROVE  PlmWrites = PyWrites
    BY DEF WholeArchiveAgrees
  <2> DEFINE k == Len(log)
             n == Start[N + 1]
  <2>1. /\ N \in Nat /\ k \in Nat /\ k <= N + 1 /\ DOMAIN log = 1 .. k /\ Cur = k + 1 /\ Archived
        /\ fileLen \in Nat /\ \A i \in 1 .. N + 1 : Start[i] \in Nat
        /\ n \in Nat /\ fileLen <= n + (IF ended THEN 2 ELSE 0) /\ DOMAIN members = 1 .. N
    <3>1. Archived /\ Len(log) <= N + 1 /\ fileLen <= n + (IF ended THEN 2 ELSE 0)
      BY DEF IInv, Typed, TypeOK, N
    <3>2. N \in Nat /\ N + 1 \in 1 .. N + 1 /\ \A i \in 1 .. N + 1 : Start[i] \in Nat
      <4>1. N \in Nat
        BY <3>1, StartSteps
      <4> QED
        BY <3>1, <4>1, StartType
    <3>3. DOMAIN members = 1 .. N
      BY <3>1 DEF Archived, N
    <3> QED
      BY <3>1, <3>2, <3>3, Plain DEF IInv
  <2>2. Len(EndMark) = 2
    BY DEF EndMark
  <2>3. \A i \in 1 .. N : Start[i] < fileLen => Start[i] + Len(Header(members[i])) <= fileLen
    <3> SUFFICES ASSUME NEW i \in 1 .. N, Start[i] < fileLen,
                        ~(Start[i] + Len(Header(members[i])) <= fileLen)
                 PROVE  FALSE
      OBVIOUS
    <3>1. i \in 1 .. Len(members) + 1 /\ i \in DOMAIN members
      BY <2>1 DEF N
    <3>2. Len(Header(members[i])) \in {4, 5}
      BY <2>1, HeaderOf, StartSteps
    <3>3. Start[i] \in Nat
      BY <2>1, <3>1 DEF N
    <3>4. fileLen < Start[i] + Len(Header(members[i]))
      <4> DEFINE h == Len(Header(members[i]))
      <4> HIDE DEF h
      <4>1. h \in {4, 5} /\ ~(Start[i] + h <= fileLen)
        BY <3>2 DEF h
      <4>2. fileLen < Start[i] + h
        BY <2>1, <3>3, <4>1
      <4> QED
        BY <4>2 DEF h
    <3> QED
      BY <3>1, <3>4 DEF CutInHeader
  <2>4. n < fileLen => ended /\ fileLen = n + 2
    <3> SUFFICES ASSUME n < fileLen, ~(ended /\ fileLen = n + 2) PROVE FALSE
      OBVIOUS
    <3>1. fileLen < n + 2
      <4> HIDE DEF n
      <4> QED
        BY <2>1
    <3>2. N + 1 \in 1 .. Len(members) + 1 /\ N + 1 \notin DOMAIN members
      BY <2>1 DEF N
    <3> QED
      BY <2>2, <3>1, <3>2 DEF CutInHeader
  <2>5. k <= N
    <3> SUFFICES ASSUME k = N + 1 PROVE FALSE
      <4>1. k # N + 1 => k <= N
        <5>1. N \in Nat /\ k \in Nat /\ k <= N + 1
          BY <2>1
        <5> HIDE DEF k
        <5> QED
          BY <5>1
      <4> QED
        BY <4>1
    <3>1. k \in DOMAIN log
      BY <2>1
    <3>2. fileLen = n + 1
      BY <3>1 DEF IInv, Logged
    <3> HIDE DEF n
    <3> QED
      BY <2>1, <2>4, <3>2
  <2>6. \A i \in 1 .. k : /\ i \in 1 .. N /\ Start[i] + Len(Header(members[i])) <= fileLen
                          /\ log[i][1] = members[i].name
    <3> SUFFICES ASSUME NEW i \in 1 .. k
                 PROVE  /\ i \in 1 .. N /\ Start[i] + Len(Header(members[i])) <= fileLen
                        /\ log[i][1] = members[i].name
      OBVIOUS
    <3>1. i \in 1 .. N /\ i \in DOMAIN log /\ i <= N /\ i \in 1 .. N + 1
      BY <2>1, <2>5
    <3>2. Start[i] < fileLen
      BY <3>1 DEF IInv, Logged
    <3>3. Start[i] + Len(Header(members[i])) <= fileLen
      BY <2>3, <3>1, <3>2
    <3>4. Start[i] + 2 < fileLen
      <4> DEFINE h == Len(Header(members[i]))
      <4>1. h \in {4, 5}
        BY <2>1, <3>1, HeaderOf, StartSteps
      <4>2. Start[i] + h <= fileLen /\ Start[i] \in Nat
        BY <2>1, <3>1, <3>3
      <4> HIDE DEF h
      <4> QED
        BY <2>1, <4>1, <4>2
    <3> QED
      BY <3>1, <3>3, <3>4 DEF IInv, Logged
  <2>7. WholeUpTo(k)
    <3>1. k \in 0 .. N
      BY <2>1, <2>5
    <3>2. fileLen <= Start[k + 1] \/ (k = N /\ ended /\ fileLen = n + 2)
      <4>1. k >= N \/ fileLen <= Start[k + 1]
        BY <2>1 DEF IInv, Ending
      <4>2. CASE k = N
        <5>1. fileLen <= n \/ n < fileLen
          <6> HIDE DEF n
          <6> QED
            BY <2>1
        <5> QED
          BY <2>4, <4>2, <5>1
      <4>3. CASE k # N
        <5>1. N \in Nat /\ k \in Nat /\ k <= N
          BY <2>1, <2>5
        <5>2. ~(k >= N)
          <6> HIDE DEF k
          <6> QED
            BY <4>3, <5>1
        <5> QED
          BY <4>1, <5>2
      <4> QED
        BY <4>2, <4>3
    <3> QED
      BY <2>6, <3>1, <3>2 DEF WholeUpTo
  <2>8. PyExtract = [names |-> NamesFrom(1, k), raised |-> FALSE]
    BY <2>7, ParseFinds DEF IInv
  <2>9. PyWrites = NamesFrom(1, k)
    <3> DEFINE s == NamesFrom(1, k)
    <3> HIDE DEF s
    <3>1. PyExtract = [names |-> s, raised |-> FALSE]
      BY <2>8 DEF s
    <3>2. PyWrites = s
      BY <3>1 DEF PyWrites
    <3> QED
      BY <3>2 DEF s
  <2>10. NamesFrom(1, k) = [i \in 1 .. k |-> members[i].name]
    <3>1. k + 1 - 1 = k /\ \A i \in 1 .. k : 1 + i - 1 = i
      BY <2>1
    <3> HIDE DEF k
    <3> QED
      BY <3>1 DEF NamesFrom
  <2>11. PlmWrites = [i \in 1 .. k |-> log[i][1]]
    BY <2>1 DEF PlmWrites
  <2> QED
    BY <2>6, <2>9, <2>10, <2>11
<1> QED
  BY <1>1, DriverInvariant, PTL
==============================================================================
