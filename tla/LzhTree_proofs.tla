---------------------------- MODULE LzhTree_proofs ----------------------------
(***************************************************************************)
(* The tree of CrLZH stays a Huffman tree in order of weight, through      *)
(* every update and every rebuild, for any number of codes and any limit   *)
(* of the root's weight.                                                   *)
(***************************************************************************)
EXTENDS LzhTree, FiniteSetTheorems, TLAPS

Codes == T .. T + NChar - 1

\* The units of weight of some nodes, one by one.
Units(f, S) == {x \in S \X (1 .. Sentinel) : x[2] <= f[x[1]]}
Weight(f, S) == Cardinality(Units(f, S))

Positive == \A i \in 0 .. T : freq[i] >= 1

\* Every link but the root's own is a son of its father.
Fathered == \A k \in Links \ {R} : k \in Kids(prnt[k])

\* A tree in the making: below n, each code and the first of each pair that has
\* been connected is the son of one node.
Pairs(n) == {2 * m : m \in 0 .. n - NChar - 1}
Tail(n) == 2 * (n - NChar) .. n - 1
Connected(s, n) ==
    /\ \A i \in 0 .. n - 1 : s[i] \in Codes \/ (s[i] \in Pairs(n) /\ s[i] + 1 < i)
    /\ \A v \in Codes \union Pairs(n) : \E i \in 0 .. n - 1 : s[i] = v
    /\ \A i, k \in 0 .. n - 1 : s[i] = s[k] => i = k
Summed(f, s, n) == \A i \in 0 .. n - 1 : s[i] < T => f[i] = f[s[i]] + f[s[i] + 1]

Building == phase = "connect" =>
              /\ j >= NChar /\ prnt[R] = 0
              /\ Connected(son, j) /\ Summed(freq, son, j)
              /\ 2 * Weight(freq, Tail(j)) <= MaxFreq + NChar

Climbing == phase = "climb" => /\ c \in Nodes /\ freq[R] < MaxFreq
                               /\ IsLeaf(c) => son[c] = sym
Descending == phase = "descend" => c \in Codes \/ c + 1 < R

IInv == /\ TypeOK /\ Positive /\ Ordered /\ Linked
        /\ WholeTree => Fathered
        /\ Building /\ Climbing /\ Descending
-----------------------------------------------------------------------------
(* Numbers.                                                                *)
LEMMA Sizes ==
    /\ NChar \in Nat /\ NChar >= 2 /\ MaxFreq \in Nat /\ MaxFreq > NChar
    /\ T \in Nat /\ T = 2 * NChar - 1 /\ R \in Nat /\ T = R + 1
    /\ Sentinel \in Nat /\ Sentinel = 2 * MaxFreq - 1
BY CodesAssumption, FreqAssumption DEF T, R, Sentinel

\* A set of numbers that is not empty has a least one.
LEMMA LeastOf ==
    ASSUME NEW S, S \subseteq Nat, S # {}
    PROVE  \E m \in S : \A n \in S : m <= n
<1>1. PICK m \in S : \A n \in S : ~(<<n, m>> \in OpToRel(<, Nat))
  BY NatLessThanWellFounded, WFMin, Zenon
<1>2. \A n \in S : ~(n < m)
  BY <1>1 DEF OpToRel
<1> QED
  BY <1>2

LEMMA MinIs ==
    ASSUME NEW S, S \subseteq Nat, S # {}
    PROVE  Min(S) \in S /\ \A n \in S : Min(S) <= n
<1>1. \E m \in S : \A n \in S : m <= n
  BY LeastOf
<1> QED
  BY <1>1 DEF Min

LEMMA MaxIs ==
    ASSUME NEW S, S \subseteq Nat, S # {}, NEW b \in Nat, \A n \in S : n <= b
    PROVE  Max(S) \in S /\ \A n \in S : n <= Max(S)
<1> DEFINE Below == {k \in Nat : b - k \in S}
<1>1. Below \subseteq Nat /\ Below # {}
  <2>1. PICK n : n \in S
    OBVIOUS
  <2>2. b - n \in Nat /\ b - (b - n) = n
    BY <2>1
  <2>3. b - n \in Below
    BY <2>1, <2>2
  <2> QED
    BY <2>3
<1>2. PICK k \in Below : \A n \in Below : k <= n
  <2> HIDE DEF Below
  <2> QED
    BY <1>1, LeastOf
<1>3. b - k \in S /\ k \in Nat
  BY <1>2
<1>4. ASSUME NEW n \in S PROVE n <= b - k
  <2>1. b - n \in Nat /\ b - (b - n) = n
    BY <1>4
  <2>2. b - n \in Below
    BY <1>4, <2>1
  <2>3. k <= b - n
    BY <1>2, <2>2
  <2> QED
    BY <1>3, <2>1, <2>3
<1>5. \E m \in S : \A n \in S : m >= n
  BY <1>3, <1>4
<1>6. Max(S) \in S /\ \A n \in S : Max(S) >= n
  BY <1>5 DEF Max
<1> QED
  BY <1>6

\* Numbers that do not fall from one to the next do not fall at all.
LEMMA NeverFalls ==
    ASSUME NEW f, NEW n \in Nat, \A i \in 0 .. n : f[i] \in Nat,
           \A i \in 0 .. n - 1 : f[i] <= f[i + 1]
    PROVE  \A a, b \in 0 .. n : a <= b => f[a] <= f[b]
<1> SUFFICES ASSUME NEW a \in 0 .. n
             PROVE  \A b \in 0 .. n : a <= b => f[a] <= f[b]
  OBVIOUS
<1> DEFINE Bad == {b \in 0 .. n : a <= b /\ ~(f[a] <= f[b])}
<1>1. Bad = {}
  <2> SUFFICES ASSUME Bad # {} PROVE FALSE
    OBVIOUS
  <2>1. Bad \subseteq Nat
    OBVIOUS
  <2>2. PICK b \in Bad : \A m \in Bad : b <= m
    <3> HIDE DEF Bad
    <3> QED
      BY <2>1, LeastOf
  <2>3. b \in 0 .. n /\ a <= b /\ ~(f[a] <= f[b])
    BY <2>2
  <2>4. b # a /\ b - 1 \in 0 .. n /\ b - 1 \in 0 .. n - 1 /\ a <= b - 1 /\ b - 1 + 1 = b
    BY <2>3
  <2>5. b - 1 \notin Bad
    <3>1. b \in Nat /\ ~(b <= b - 1)
      BY <2>3
    <3> HIDE DEF Bad
    <3> QED
      BY <2>2, <3>1
  <2>6. f[a] <= f[b - 1]
    BY <2>4, <2>5
  <2>7. f[b - 1] <= f[b] /\ f[b - 1] \in Nat /\ f[b] \in Nat /\ f[a] \in Nat
    BY <2>3, <2>4
  <2> QED
    BY <2>3, <2>6, <2>7
<1> QED
  BY <1>1
-----------------------------------------------------------------------------
(* A tree that is not being rebuilt.                                       *)
Standing == /\ TypeOK /\ Positive /\ Fathered
            /\ \A i \in 0 .. R - 1 : freq[i] <= freq[i + 1]
            /\ \A i \in Nodes : \A k \in Kids(i) : prnt[k] = i
            /\ \A i \in Nodes : IsLeaf(i) \/ son[i] + 1 < i
            /\ prnt[R] = 0 /\ IsLeaf(0)

LEMMA Stands ==
    ASSUME IInv, WholeTree
    PROVE  Standing /\ Weighed
<1>1. T - 2 = R - 1
  BY Sizes
<1> QED
  BY <1>1 DEF IInv, Linked, Ordered, Standing

\* What the types say of a node, and of a link.
LEMMA NodeIs ==
    ASSUME TypeOK, NEW i \in Nodes
    PROVE  /\ son[i] \in Links /\ son[i] \in Nat /\ freq[i] \in Nat /\ i \in Nat /\ i <= R
           /\ i + 1 \in 0 .. T /\ i \in 0 .. T /\ freq[i + 1] \in Nat
           /\ IsLeaf(i) <=> son[i] \in Codes
           /\ Kids(i) = IF IsLeaf(i) THEN {son[i]} ELSE {son[i], son[i] + 1}
<1>1. i \in Nat /\ i <= R /\ i \in 0 .. T /\ i + 1 \in 0 .. T
  BY Sizes DEF Nodes
<1>2. son[i] \in Links
  BY DEF TypeOK
<1>3. freq[i] \in Nat /\ freq[i + 1] \in Nat
  <2>1. \A x \in 0 .. T : freq[x] \in 0 .. Sentinel
    BY DEF TypeOK
  <2> QED
    BY <1>1, <2>1
<1>4. son[i] \in Nat /\ (son[i] >= T <=> son[i] \in Codes)
  BY <1>2, Sizes DEF Links, Codes
<1> QED
  BY <1>1, <1>2, <1>3, <1>4 DEF IsLeaf, Kids

\* A link has one father, whose son it is, and the root has none.
LEMMA OneFather ==
    ASSUME Standing, NEW i \in Nodes, NEW k \in Kids(i)
    PROVE  /\ prnt[k] = i /\ k \in Links /\ k # R
           /\ k < T <=> ~IsLeaf(i)
           /\ k < T => k \in Nodes /\ k < i
<1>1. TypeOK /\ prnt[k] = i /\ (IsLeaf(i) \/ son[i] + 1 < i)
  BY DEF Standing
<1>2. /\ son[i] \in Links /\ son[i] \in Nat /\ i \in Nat /\ i <= R
      /\ IsLeaf(i) => k = son[i]
      /\ ~IsLeaf(i) => k = son[i] \/ k = son[i] + 1
      /\ IsLeaf(i) <=> son[i] >= T
  BY <1>1, NodeIs DEF Kids, IsLeaf
<1> QED
  BY <1>1, <1>2, Sizes DEF Links, Nodes

LEMMA FatherOf ==
    ASSUME Standing, NEW k \in Links, k # R
    PROVE  prnt[k] \in Nodes /\ k \in Kids(prnt[k])
BY DEF Standing, TypeOK, Fathered

LEMMA InOrder ==
    ASSUME Standing, NEW a \in Nodes, NEW b \in Nodes, a <= b
    PROVE  freq[a] <= freq[b]
<1>1. \A i \in 0 .. R : freq[i] \in Nat
  BY Sizes DEF Standing, TypeOK
<1>2. \A i \in 0 .. R - 1 : freq[i] <= freq[i + 1]
  BY DEF Standing
<1>3. \A x, y \in 0 .. R : x <= y => freq[x] <= freq[y]
  BY <1>1, <1>2, Sizes, NeverFalls
<1> QED
  BY <1>3 DEF Nodes

\* A turn of update$tree's loop: l is the last node as light as c, and what c was
\* goes there, one heavier.
Turned(l) ==
    /\ l \in Nodes /\ c <= l /\ freq[l] = freq[c] /\ freq[l] + 1 <= freq[l + 1]
    /\ freq' = [freq EXCEPT ![l] = freq[l] + 1]
    /\ son' = [son EXCEPT ![c] = son[l], ![l] = son[c]]
    /\ prnt' = [k \in Links |-> IF k \in Kids(l) THEN c
                                ELSE IF k \in Kids(c) THEN l ELSE prnt[k]]
    /\ c' = prnt'[l] /\ phase' = IF c' = 0 THEN "idle" ELSE "climb"
    /\ UNCHANGED <<j, sym, spent>>

LEMMA ClimbTurns ==
    ASSUME Standing, Climb, c \in Nodes, freq[R] < MaxFreq
    PROVE  \E l \in Nodes : Turned(l)
<1> DEFINE k == freq[c] + 1
           L == {x \in c + 1 .. R : k <= freq[x + 1]}
<1>1. /\ TypeOK /\ c \in Nat /\ c <= R /\ freq[c] \in Nat /\ freq[c + 1] \in Nat
      /\ \A x \in Nodes : freq[x] \in Nat /\ freq[x + 1] \in Nat
  BY NodeIs DEF Standing
<1>2. freq[c] <= freq[R] /\ R \in Nodes /\ freq[R] \in Nat /\ k <= freq[T]
  <2>1. R \in Nodes
    BY Sizes DEF Nodes
  <2>2. freq[c] <= freq[R]
    BY <1>1, <2>1, InOrder
  <2>3. freq[T] = Sentinel
    BY <1>1 DEF TypeOK
  <2> QED
    BY <1>1, <2>1, <2>2, <2>3, Sizes
<1>3. CASE k <= freq[c + 1]
  <2>1. /\ freq' = [freq EXCEPT ![c] = freq[c] + 1] /\ UNCHANGED <<son, prnt>>
        /\ c' = prnt'[c] /\ phase' = (IF c' = 0 THEN "idle" ELSE "climb")
        /\ UNCHANGED <<j, sym, spent>>
    <3>1. ~(k > freq[c + 1])
      BY <1>1, <1>3
    <3> QED
      BY <3>1 DEF Climb
  <2>2. son' = [son EXCEPT ![c] = son[c], ![c] = son[c]]
    BY <1>1, <2>1 DEF TypeOK
  <2>3. prnt' = [i \in Links |-> IF i \in Kids(c) THEN c
                                 ELSE IF i \in Kids(c) THEN c ELSE prnt[i]]
    <3>1. prnt = [i \in Links |-> prnt[i]]
      BY <1>1 DEF TypeOK
    <3>2. \A i \in Kids(c) : prnt[i] = c
      BY DEF Standing
    <3> QED
      BY <2>1, <3>1, <3>2
  <2>4. c <= c /\ freq[c] = freq[c] /\ freq[c] + 1 <= freq[c + 1]
    BY <1>1, <1>3
  <2>5. Turned(c)
    BY <2>1, <2>2, <2>3, <2>4, Zenon DEF Turned
  <2> QED
    BY <2>5
<1>4. CASE k > freq[c + 1]
  <2>1. L \subseteq Nat /\ L # {}
    <3>1. c # R
      BY <1>1, <1>2, <1>4, Sizes
    <3>2. R \in c + 1 .. R /\ R + 1 = T
      BY <1>1, <3>1, Sizes
    <3>3. R \in L
      BY <1>2, <3>2
    <3>4. L \subseteq Nat
      <4>1. \A x \in c + 1 .. R : x \in Nat
        BY <1>1
      <4> QED
        BY <4>1
    <3> QED
      BY <3>3, <3>4
  <2>2. PICK l : l = Min(L)
    OBVIOUS
  <2>3. l \in L /\ \A x \in L : l <= x
    <3> HIDE DEF L
    <3> QED
      BY <2>1, <2>2, MinIs
  <2>4. /\ l \in Nodes /\ l \in Nat /\ c + 1 <= l /\ l <= R /\ k <= freq[l + 1]
        /\ l # c
    BY <1>1, <2>3, Sizes DEF Nodes
  <2>5. freq[l] < k
    <3>1. CASE l = c + 1
      BY <1>1, <1>4, <3>1
    <3>2. CASE l # c + 1
      <4>1. l - 1 \in c + 1 .. R /\ l - 1 + 1 = l /\ ~(l <= l - 1)
        BY <1>1, <2>4, <3>2, Sizes
      <4>2. l - 1 \notin L
        BY <2>3, <4>1
      <4> QED
        BY <1>1, <2>4, <4>1, <4>2
    <3> QED
      BY <3>1, <3>2
  <2>6. freq[c] <= freq[l]
    BY <1>1, <2>4, InOrder
  <2>7. freq[l] = freq[c]
    BY <1>1, <2>4, <2>5, <2>6
  <2>8. Swap(l) /\ c' = prnt'[l] /\ phase' = (IF c' = 0 THEN "idle" ELSE "climb")
        /\ UNCHANGED <<j, sym, spent>>
    BY <1>4, <2>2, <2>4 DEF Climb
  <2>9. freq' = [freq EXCEPT ![l] = freq[l] + 1]
    <3>1. freq' = [freq EXCEPT ![c] = freq[l], ![l] = freq[c] + 1]
      BY <2>8 DEF Swap
    <3>2. freq \in [0 .. T -> 0 .. Sentinel] /\ c \in 0 .. T /\ l \in 0 .. T
      BY <1>1, <2>4, Sizes DEF TypeOK
    <3> QED
      BY <2>7, <3>1, <3>2
  <2>10. c <= l /\ freq[l] + 1 <= freq[l + 1]
    BY <1>1, <2>4, <2>7
  <2>11. Turned(l)
    BY <2>4, <2>7, <2>8, <2>9, <2>10, Zenon DEF Turned, Swap
  <2> QED
    BY <2>4, <2>11
<1> QED
  BY <1>1, <1>3, <1>4
-----------------------------------------------------------------------------
(* The turn exchanges c and l.                                             *)
Swapped(i, l) == IF i = c THEN l ELSE IF i = l THEN c ELSE i

LEMMA SwappedIs ==
    ASSUME Standing, NEW l \in Nodes, Turned(l), c \in Nodes, NEW i \in Nodes
    PROVE  /\ Swapped(i, l) \in Nodes /\ freq[Swapped(i, l)] = freq[i]
           /\ son'[i] = son[Swapped(i, l)]
           /\ freq'[i] = freq[i] + (IF i = l THEN 1 ELSE 0)
           /\ IsLeaf(i)' <=> IsLeaf(Swapped(i, l))
           /\ Kids(i)' = Kids(Swapped(i, l))
<1>1. Swapped(i, l) \in Nodes /\ freq[Swapped(i, l)] = freq[i]
  BY DEF Swapped, Turned
<1>2. son'[i] = son[Swapped(i, l)]
  BY DEF Swapped, Turned, Standing, TypeOK
<1>3. freq'[i] = freq[i] + (IF i = l THEN 1 ELSE 0)
  <2>1. i \in 0 .. T /\ l \in 0 .. T /\ freq[i] \in Nat /\ freq \in [0 .. T -> 0 .. Sentinel]
    BY NodeIs DEF Standing, TypeOK
  <2>2. freq' = [freq EXCEPT ![l] = freq[l] + 1]
    BY DEF Turned
  <2> QED
    BY <2>1, <2>2
<1>4. IsLeaf(i)' <=> IsLeaf(Swapped(i, l))
  BY <1>2, Zenon DEF IsLeaf
<1>5. Kids(i)' = Kids(Swapped(i, l))
  BY <1>2, <1>4, Zenon DEF Kids
<1> QED
  BY <1>1, <1>2, <1>3, <1>4, <1>5

LEMMA TurnTypes ==
    ASSUME Standing, NEW l \in Nodes, Turned(l), c \in Nodes, freq[R] < MaxFreq
    PROVE  /\ TypeOK' /\ Positive'
           /\ \A i \in 0 .. R - 1 : freq'[i] <= freq'[i + 1]
<1>1. /\ TypeOK /\ freq \in [0 .. T -> 0 .. Sentinel] /\ l \in 0 .. T /\ l # T /\ l \in Nat
      /\ freq[l] \in Nat /\ freq[l + 1] \in 0 .. Sentinel /\ freq[l] + 1 <= freq[l + 1]
  <2>1. TypeOK /\ freq \in [0 .. T -> 0 .. Sentinel] /\ freq[l] + 1 <= freq[l + 1]
    BY DEF Standing, TypeOK, Turned
  <2>2. l \in 0 .. T /\ l # T /\ l \in Nat /\ l + 1 \in 0 .. T
    BY Sizes DEF Nodes
  <2>3. freq[l] \in 0 .. Sentinel /\ freq[l + 1] \in 0 .. Sentinel
    BY <2>1, <2>2
  <2> QED
    BY <2>1, <2>2, <2>3
<1>2. freq' = [freq EXCEPT ![l] = freq[l] + 1]
  BY DEF Turned
<1>3. freq[l] + 1 \in 0 .. Sentinel /\ freq[l] + 1 \in Nat
  BY <1>1, Sizes
<1>4. freq' \in [0 .. T -> 0 .. Sentinel]
  BY <1>1, <1>2, <1>3
<1>5. \A i \in 0 .. T : freq'[i] = IF i = l THEN freq[l] + 1 ELSE freq[i]
  BY <1>1, <1>2
<1>6. freq'[R] <= MaxFreq /\ freq'[T] = Sentinel
  <2>1. R \in 0 .. T /\ T \in 0 .. T /\ freq[R] + 1 <= MaxFreq /\ freq[R] <= MaxFreq
    BY <1>1, Sizes
  <2>2. freq[T] = Sentinel
    BY DEF Standing, TypeOK
  <2> QED
    BY <1>1, <1>5, <2>1, <2>2
<1>7. son' \in [Nodes -> Links] /\ prnt' \in [Links -> Nodes]
  BY DEF Turned, Standing, TypeOK
<1>8. c' \in Links
  BY <1>7, Sizes DEF Turned, Nodes, Links
<1>9. /\ phase' \in {"idle", "descend", "connect", "climb"}
      /\ j' \in 0 .. T /\ sym' \in T .. T + NChar - 1 /\ spent' \in BOOLEAN
  BY DEF Turned, Standing, TypeOK
<1>10. TypeOK'
  BY <1>4, <1>6, <1>7, <1>8, <1>9 DEF TypeOK
<1>11. Positive'
  <2>1. \A i \in 0 .. T : freq[i] >= 1
    BY DEF Standing, Positive
  <2>2. \A i \in 0 .. T : freq'[i] >= 1
    BY <1>1, <1>5, <2>1
  <2> QED
    BY <2>2 DEF Positive
<1>12. ASSUME NEW i \in 0 .. R - 1
       PROVE  freq'[i] <= freq'[i + 1]
  <2>1. /\ i \in 0 .. T /\ i + 1 \in 0 .. T /\ i + 1 # i /\ freq[i] \in Nat /\ freq[i + 1] \in Nat
        /\ freq[i] <= freq[i + 1]
    <3>1. i \in 0 .. T /\ i + 1 \in 0 .. T /\ i + 1 # i
      BY Sizes
    <3>2. freq[i] <= freq[i + 1]
      BY DEF Standing
    <3>3. \A x \in 0 .. T : freq[x] \in Nat
      BY <1>1
    <3> QED
      BY <3>1, <3>2, <3>3
  <2>2. CASE i = l
    BY <1>1, <1>5, <2>1, <2>2
  <2>3. CASE i + 1 = l
    BY <1>1, <1>5, <2>1, <2>3
  <2>4. CASE i # l /\ i + 1 # l
    BY <1>5, <2>1, <2>4
  <2> QED
    BY <2>2, <2>3, <2>4
<1> QED
  BY <1>10, <1>11, <1>12

\* Whoever is a son of a node is not one of another.
LEMMA TurnLinks ==
    ASSUME Standing, NEW l \in Nodes, Turned(l), c \in Nodes
    PROVE  /\ \A i \in Nodes : \A k \in Kids(i)' : prnt'[k] = i
           /\ Fathered' /\ prnt'[R] = 0
<1>1. prnt' = [k \in Links |-> IF k \in Kids(l) THEN c
                               ELSE IF k \in Kids(c) THEN l ELSE prnt[k]]
  BY DEF Turned
<1>2. \A i \in Nodes : \A k \in Kids(i) : prnt[k] = i /\ k \in Links /\ k # R
  BY OneFather
<1>3. \A i \in Nodes : Kids(i)' = Kids(Swapped(i, l)) /\ Swapped(i, l) \in Nodes
  BY SwappedIs
<1>4. ASSUME NEW i \in Nodes, NEW k \in Kids(i)'
      PROVE  prnt'[k] = i
  <2>1. k \in Kids(Swapped(i, l)) /\ Swapped(i, l) \in Nodes
    BY <1>3
  <2>2. prnt[k] = Swapped(i, l) /\ k \in Links
    BY <1>2, <2>1
  <2>3. /\ k \in Kids(l) <=> Swapped(i, l) = l
        /\ k \in Kids(c) <=> Swapped(i, l) = c
    BY <1>2, <2>1, <2>2
  <2>4. prnt'[k] = IF k \in Kids(l) THEN c ELSE IF k \in Kids(c) THEN l ELSE prnt[k]
    BY <1>1, <2>2
  <2> QED
    BY <2>2, <2>3, <2>4 DEF Swapped
<1>6. ASSUME NEW k \in Links \ {R}, NEW p, p = prnt'[k]
      PROVE  k \in Kids(p)'
  <2>1. prnt[k] \in Nodes /\ k \in Kids(prnt[k])
    BY FatherOf
  <2>2. /\ k \in Kids(l) <=> prnt[k] = l
        /\ k \in Kids(c) <=> prnt[k] = c
    BY <1>2, <2>1
  <2>3. p = IF prnt[k] = l THEN c ELSE IF prnt[k] = c THEN l ELSE prnt[k]
    BY <1>1, <1>6, <2>2
  <2>4. p \in Nodes /\ Swapped(p, l) = prnt[k]
    BY <2>1, <2>3 DEF Swapped
  <2> QED
    BY <1>3, <2>1, <2>4
<1>7. Fathered'
  <2>1. \A k \in Links \ {R} : k \in (IF son'[prnt'[k]] >= T THEN {son'[prnt'[k]]}
                                      ELSE {son'[prnt'[k]], son'[prnt'[k]] + 1})
    BY <1>6 DEF Kids, IsLeaf
  <2> QED
    BY <2>1 DEF Fathered, Kids, IsLeaf
<1>8. prnt'[R] = 0
  <2>1. R \in Links /\ R \notin Kids(l) /\ R \notin Kids(c) /\ prnt[R] = 0
    BY <1>2, Sizes DEF Links, Standing
  <2> QED
    BY <1>1, <2>1
<1> QED
  BY <1>4, <1>7, <1>8

\* The sons of l are lighter than c, so they lie below it.
LEMMA TurnBelow ==
    ASSUME Standing, Weighed, NEW l \in Nodes, Turned(l), c \in Nodes
    PROVE  \A i \in Nodes : IsLeaf(i)' \/ son'[i] + 1 < i
<1> SUFFICES ASSUME NEW i \in Nodes, ~IsLeaf(i)'
             PROVE  son'[i] + 1 < i
  OBVIOUS
<1>1. /\ son'[i] = son[Swapped(i, l)] /\ ~IsLeaf(Swapped(i, l)) /\ Swapped(i, l) \in Nodes
  BY SwappedIs
<1>2. /\ c \in Nat /\ l \in Nat /\ i \in Nat /\ c <= l /\ freq[l] = freq[c] /\ freq[c] \in Nat
      /\ son[Swapped(i, l)] \in Nat /\ son[Swapped(i, l)] + 1 < Swapped(i, l)
  BY <1>1, NodeIs DEF Turned, Standing
<1>3. CASE i = c /\ l # c
  <2>1. Swapped(i, l) = l
    BY <1>3 DEF Swapped
  <2>2. freq[l] = freq[son[l]] + freq[son[l] + 1]
    <3>1. freq[l] = freq[son[l]] + freq[son[l] + 1]
                      - (IF phase = "climb" /\ l = c THEN 1 ELSE 0)
      BY <1>1, <2>1 DEF Weighed
    <3>2. son[l] \in Nodes /\ son[l] + 1 \in Nodes
      BY <1>2, <2>1, Sizes DEF Nodes
    <3>3. freq[son[l]] \in Nat /\ freq[son[l] + 1] \in Nat
      BY <3>2, NodeIs DEF Standing
    <3> QED
      BY <1>3, <3>1, <3>3
  <2>3. son[l] \in Nodes /\ son[l] + 1 \in Nodes /\ son[l] \in 0 .. T /\ son[l] + 1 \in Nat
    BY <1>2, <2>1, Sizes DEF Nodes
  <2>4. freq[son[l]] \in Nat /\ freq[son[l] + 1] \in Nat /\ freq[son[l]] >= 1
    BY <2>3, NodeIs DEF Standing, Positive
  <2>5. ASSUME c <= son[l] + 1 PROVE FALSE
    <3>1. freq[c] <= freq[son[l] + 1]
      BY <2>3, <2>5, InOrder
    <3> QED
      BY <1>2, <2>2, <2>4, <3>1
  <2> QED
    BY <1>1, <1>2, <1>3, <2>1, <2>3, <2>5
<1>4. CASE i = l
  <2>1. Swapped(i, l) = c
    BY <1>4 DEF Swapped
  <2> QED
    BY <1>1, <1>2, <1>4, <2>1
<1>5. CASE i # c /\ i # l
  <2>1. Swapped(i, l) = i
    BY <1>5 DEF Swapped
  <2> QED
    BY <1>1, <1>2, <2>1
<1> QED
  BY <1>3, <1>4, <1>5
LEMMA TurnStands ==
    ASSUME Standing, Weighed, NEW l \in Nodes, Turned(l), c \in Nodes, freq[R] < MaxFreq
    PROVE  Standing'
<1>1. /\ TypeOK' /\ Positive' /\ Fathered' /\ prnt'[R] = 0
      /\ \A i \in 0 .. R - 1 : freq'[i] <= freq'[i + 1]
  BY TurnTypes, TurnLinks
<1>2. \A i \in Nodes : \A k \in Kids(i)' : prnt'[k] = i
  BY TurnLinks
<1>3. \A i \in Nodes : IsLeaf(i)' \/ son'[i] + 1 < i
  BY TurnBelow
<1>4. IsLeaf(0)'
  <2>1. 0 \in Nodes /\ \A x \in Links : x \in Nat
    BY Sizes DEF Nodes, Links
  <2>2. son'[0] \in Nat
    BY <1>1, <2>1 DEF TypeOK
  <2> QED
    BY <1>3, <2>1, <2>2
<1> QED
  BY <1>1, <1>2, <1>3, <1>4 DEF Standing

\* The node that gained is l, and its father is the next to be counted in.
LEMMA TurnWeighs ==
    ASSUME Standing, Weighed, phase = "climb", NEW l \in Nodes, Turned(l), c \in Nodes,
           freq[R] < MaxFreq
    PROVE  Weighed'
<1> SUFFICES ASSUME NEW i \in Nodes, ~IsLeaf(i)'
             PROVE  freq'[i] = freq'[son'[i]] + freq'[son'[i] + 1]
                                 - (IF phase' = "climb" /\ i = c' THEN 1 ELSE 0)
  BY DEF Weighed, IsLeaf
<1>1. PICK s : s = son'[i]
  OBVIOUS
<1>2. /\ s = son[Swapped(i, l)] /\ ~IsLeaf(Swapped(i, l)) /\ Swapped(i, l) \in Nodes
      /\ freq[Swapped(i, l)] = freq[i]
      /\ freq'[i] = freq[i] + (IF i = l THEN 1 ELSE 0)
  BY <1>1, SwappedIs
<1>3. s \in Nat /\ s + 1 < i /\ i \in Nat /\ i # 0 /\ s \in Nodes /\ s + 1 \in Nodes
  <2>1. s \in Nat /\ i \in Nat /\ i <= R
    BY <1>2, NodeIs DEF Standing
  <2>2. s + 1 < i
    BY <1>1, TurnBelow
  <2> QED
    BY <2>1, <2>2, Sizes DEF Nodes
<1>4. freq[s] \in Nat /\ freq[s + 1] \in Nat /\ freq[i] \in Nat
  BY <1>3, NodeIs DEF Standing
<1>5. freq[i] = freq[s] + freq[s + 1] - (IF Swapped(i, l) = c THEN 1 ELSE 0)
  BY <1>2 DEF Weighed
<1>6. Swapped(i, l) = c <=> i = l
  BY DEF Swapped
<1>7. freq'[i] = freq[s] + freq[s + 1]
  BY <1>2, <1>4, <1>5, <1>6
<1>8. /\ freq'[s] = freq[s] + (IF s = l THEN 1 ELSE 0)
      /\ freq'[s + 1] = freq[s + 1] + (IF s + 1 = l THEN 1 ELSE 0)
  BY <1>3, SwappedIs
<1>9. (s = l \/ s + 1 = l) <=> (phase' = "climb" /\ i = c')
  <2>1. Kids(i)' = {s, s + 1}
    BY <1>1 DEF Kids
  <2>2. \A k \in Kids(i)' : prnt'[k] = i
    BY TurnLinks
  <2>3. c' = prnt'[l] /\ phase' = (IF c' = 0 THEN "idle" ELSE "climb")
    BY DEF Turned
  <2>4. ASSUME s = l \/ s + 1 = l
        PROVE  phase' = "climb" /\ i = c'
    BY <1>3, <2>1, <2>2, <2>3, <2>4
  <2>5. ASSUME phase' = "climb", i = c'
        PROVE  s = l \/ s + 1 = l
    <3>1. prnt'[R] = 0 /\ Fathered'
      BY TurnLinks
    <3>2. l \in Links /\ l # R
      BY <1>3, <2>3, <2>5, <3>1, Sizes DEF Nodes, Links
    <3>3. PICK p : p = prnt'[l]
      OBVIOUS
    <3>4. l \in Kids(p)'
      BY <3>1, <3>2, <3>3 DEF Fathered, Kids, IsLeaf
    <3>5. p = i
      BY <2>3, <2>5, <3>3
    <3> QED
      BY <2>1, <3>4, <3>5
  <2> QED
    BY <2>4, <2>5
<1>10. /\ freq'[s] + freq'[s + 1] = freq[s] + freq[s + 1]
                                   + (IF s = l \/ s + 1 = l THEN 1 ELSE 0)
       /\ freq'[s] \in Nat /\ freq'[s + 1] \in Nat
  BY <1>3, <1>4, <1>8
<1>11. CASE s = l \/ s + 1 = l
  <2>1. freq'[s] + freq'[s + 1] = freq[s] + freq[s + 1] + 1
    BY <1>10, <1>11
  <2>2. freq'[i] = freq'[s] + freq'[s + 1] - 1
    BY <1>4, <1>7, <1>10, <2>1
  <2> QED
    BY <1>1, <1>9, <1>11, <2>2
<1>12. CASE ~(s = l \/ s + 1 = l)
  <2>1. freq'[i] = freq'[s] + freq'[s + 1] - 0
    BY <1>4, <1>7, <1>10, <1>12
  <2> QED
    BY <1>1, <1>9, <1>12, <2>1
<1> QED
  BY <1>11, <1>12

\* What a standing tree contributes to the invariant.
LEMMA Kept ==
    ASSUME Standing, Weighed, WholeTree, Climbing, Descending
    PROVE  IInv
<1>1. Ordered
  <2>1. T - 2 = R - 1
    BY Sizes
  <2> QED
    BY <2>1 DEF Ordered, Standing
<1>2. Linked /\ Building
  BY DEF Linked, Building, Standing, WholeTree
<1> QED
  BY <1>1, <1>2 DEF IInv, Standing

LEMMA ClimbKeeps ==
    ASSUME IInv, Climb
    PROVE  IInv'
<1>1. /\ phase = "climb" /\ WholeTree /\ Standing /\ Weighed
      /\ c \in Nodes /\ freq[R] < MaxFreq
  BY Stands DEF Climb, WholeTree, IInv, Climbing
<1>2. PICK l \in Nodes : Turned(l)
  BY <1>1, ClimbTurns
<1>3. Standing' /\ Weighed'
  BY <1>1, <1>2, TurnStands, TurnWeighs
<1>4. phase' = (IF c' = 0 THEN "idle" ELSE "climb") /\ c' = prnt'[l]
  BY <1>2 DEF Turned
<1>5. WholeTree' /\ Descending'
  BY <1>4 DEF WholeTree, Descending
<1>6. Climbing'
  <2> SUFFICES ASSUME phase' = "climb"
               PROVE  c' \in Nodes /\ freq'[R] < MaxFreq /\ (IsLeaf(c)' => son'[c'] = sym')
    BY DEF Climbing
  <2>1. prnt'[R] = 0 /\ l # R /\ l \in Links /\ R \in Nodes
    BY <1>3, <1>4, Sizes DEF Standing, Nodes, Links
  <2>2. PICK p : p = c'
    OBVIOUS
  <2>3. p \in Nodes
    BY <1>3, <1>4, <2>1, <2>2 DEF Standing, TypeOK
  <2>4. freq'[R] < MaxFreq
    <3>1. freq'[R] = freq[R] + (IF R = l THEN 1 ELSE 0) /\ freq[R] \in Nat
      BY <1>1, <1>2, <2>1, SwappedIs, NodeIs DEF Standing
    <3> QED
      BY <1>1, <2>1, <3>1
  <2>5. l \in Kids(p)'
    BY <1>3, <1>4, <2>1, <2>2 DEF Standing, Fathered, Kids, IsLeaf
  <2>6. ~IsLeaf(p)'
    <3> SUFFICES ASSUME IsLeaf(p)' PROVE FALSE
      OBVIOUS
    <3>1. Kids(p)' = {son'[p]} /\ son'[p] >= T
      BY DEF Kids, IsLeaf
    <3>2. l >= T
      BY <2>5, <3>1
    <3> QED
      BY <3>2, Sizes DEF Nodes
  <2> QED
    BY <2>2, <2>3, <2>4, <2>6 DEF IsLeaf
<1> QED
  <2>1. (Standing /\ Weighed /\ WholeTree /\ Climbing /\ Descending)'
    BY <1>3, <1>5, <1>6
  <2> QED
    BY <2>1, Kept, PTL
\* Only the code that is decoded is counted, and where it is a leaf.
LEMMA ClimbCounts ==
    ASSUME IInv, Climb, NEW k \in Codes
    PROVE  LeafFreq(k)' = LeafFreq(k) + (IF k = sym /\ prnt[k] = c THEN 1 ELSE 0)
<1>1. /\ phase = "climb" /\ WholeTree /\ Standing
      /\ c \in Nodes /\ freq[R] < MaxFreq /\ (IsLeaf(c) => son[c] = sym)
  BY Stands DEF Climb, WholeTree, IInv, Climbing
<1>2. PICK l \in Nodes : Turned(l)
  BY <1>1, ClimbTurns
<1>3. k \in Links /\ k # R /\ k >= T
  BY Sizes DEF Codes, Links
<1>4. prnt[k] \in Nodes /\ k \in Kids(prnt[k])
  BY <1>1, <1>3, FatherOf
<1>5. Kids(prnt[k]) = {son[prnt[k]]} /\ IsLeaf(prnt[k]) /\ son[prnt[k]] = k
  <2>1. ~(k < T)
    BY <1>3, Sizes DEF Links
  <2>2. IsLeaf(prnt[k])
    BY <1>1, <1>4, <2>1, OneFather
  <2> QED
    BY <1>4, <2>2 DEF Kids
<1>6. \A i \in Nodes : k \in Kids(i) => prnt[k] = i
  BY <1>1, OneFather
<1>7. /\ k \in Kids(l) <=> prnt[k] = l
      /\ k \in Kids(c) <=> prnt[k] = c
  BY <1>1, <1>4, <1>6
<1>8. /\ prnt'[k] = IF prnt[k] = l THEN c ELSE IF prnt[k] = c THEN l ELSE prnt[k]
      /\ freq[l] = freq[c]
  BY <1>2, <1>3, <1>7 DEF Turned
<1>9. PICK p : p = prnt'[k]
  OBVIOUS
<1>10. p \in Nodes /\ LeafFreq(k)' = freq'[p]
  BY <1>1, <1>4, <1>8, <1>9 DEF LeafFreq
<1>11. freq'[p] = freq[p] + (IF p = l THEN 1 ELSE 0) /\ freq[p] \in Nat
  BY <1>1, <1>2, <1>10, SwappedIs, NodeIs DEF Standing
<1>12. prnt[k] = c <=> (k = sym /\ prnt[k] = c)
  BY <1>1, <1>5
<1>13. freq[p] = freq[prnt[k]] /\ (p = l <=> prnt[k] = c)
  BY <1>8, <1>9
<1>14. freq'[p] = freq[prnt[k]] + (IF prnt[k] = c THEN 1 ELSE 0)
  BY <1>11, <1>13
<1> QED
  BY <1>10, <1>12, <1>14, Zenon DEF LeafFreq

\* Going down the tree changes nothing of it.
LEMMA DecodeKeeps ==
    ASSUME IInv, Decode
    PROVE  IInv'
<1>1. phase = "idle" /\ WholeTree /\ Standing /\ Weighed /\ TypeOK
  BY Stands DEF Decode, WholeTree, IInv
<1>2. R \in Nodes /\ son[R] \in Links /\ (IsLeaf(R) => son[R] \in Codes)
      /\ (IsLeaf(R) \/ son[R] + 1 < R)
  <2>1. R \in Nodes
    BY Sizes DEF Nodes
  <2> QED
    BY <1>1, <2>1, NodeIs DEF Standing
<1>3. phase' = "descend" /\ c' = son[R] /\ UNCHANGED <<tree, j, sym, spent>>
  BY DEF Decode
<1>4. TypeOK'
  BY <1>1, <1>2, <1>3 DEF TypeOK, tree
<1>5. Standing'
  BY <1>1, <1>3, <1>4 DEF Standing, Positive, Fathered, Kids, IsLeaf, tree
<1>6. Weighed'
  BY <1>1, <1>3 DEF Weighed, IsLeaf, tree
<1>7. WholeTree' /\ Climbing' /\ Descending'
  BY <1>2, <1>3 DEF WholeTree, Climbing, Descending
<1> QED
  <2>1. (Standing /\ Weighed /\ WholeTree /\ Climbing /\ Descending)'
    BY <1>5, <1>6, <1>7
  <2> QED
    BY <2>1, Kept, PTL

LEMMA DescendKeeps ==
    ASSUME IInv, Descend
    PROVE  IInv'
<1>1. phase = "descend" /\ WholeTree /\ Standing /\ Weighed /\ TypeOK /\ c < T
      /\ (c \in Codes \/ c + 1 < R) /\ c \in Links
  BY Stands DEF Descend, WholeTree, IInv, Descending, TypeOK
<1>2. PICK i : i \in {c, c + 1} /\ c' = son[i]
  BY <1>1, Sizes DEF Descend, Links
<1>3. i \in Nodes /\ i < R /\ i \in Nat
  BY <1>1, <1>2, Sizes DEF Nodes, Links, Codes
<1>4. c' \in Links /\ (c' \in Codes \/ c' + 1 < R)
  <2>1. son[i] \in Links /\ son[i] \in Nat /\ (IsLeaf(i) => son[i] \in Codes)
        /\ (IsLeaf(i) \/ son[i] + 1 < i)
    BY <1>1, <1>3, NodeIs DEF Standing
  <2> QED
    BY <1>2, <1>3, <2>1, Sizes
<1>5. phase' = "descend" /\ UNCHANGED <<tree, j, sym, spent>>
  BY <1>1 DEF Descend
<1>6. TypeOK'
  BY <1>1, <1>4, <1>5 DEF TypeOK, tree
<1>7. Standing'
  BY <1>1, <1>5, <1>6 DEF Standing, Positive, Fathered, Kids, IsLeaf, tree
<1>8. Weighed'
  BY <1>1, <1>5 DEF Weighed, IsLeaf, tree
<1>9. WholeTree' /\ Climbing' /\ Descending'
  BY <1>4, <1>5 DEF WholeTree, Climbing, Descending
<1> QED
  <2>1. (Standing /\ Weighed /\ WholeTree /\ Climbing /\ Descending)'
    BY <1>7, <1>8, <1>9
  <2> QED
    BY <2>1, Kept, PTL

LEMMA InputEndsKeeps ==
    ASSUME IInv, InputEnds
    PROVE  IInv'
<1>1. /\ WholeTree /\ Standing /\ Weighed /\ TypeOK
      /\ Descending /\ phase \in {"idle", "descend"}
  BY Stands DEF InputEnds, WholeTree, IInv
<1>2. spent' = TRUE /\ UNCHANGED <<tree, phase, c, j, sym>>
  BY DEF InputEnds
<1>3. TypeOK'
  BY <1>1, <1>2 DEF TypeOK, tree
<1>4. Standing'
  BY <1>1, <1>2, <1>3 DEF Standing, Positive, Fathered, Kids, IsLeaf, tree
<1>5. Weighed'
  BY <1>1, <1>2 DEF Weighed, IsLeaf, tree
<1>6. WholeTree' /\ Climbing' /\ Descending'
  BY <1>1, <1>2 DEF WholeTree, Climbing, Descending
<1> QED
  <2>1. (Standing /\ Weighed /\ WholeTree /\ Climbing /\ Descending)'
    BY <1>4, <1>5, <1>6
  <2> QED
    BY <2>1, Kept, PTL

LEMMA UpdateKeeps ==
    ASSUME IInv, Update
    PROVE  IInv'
<1>1. /\ phase = "descend" /\ WholeTree /\ Standing /\ Weighed /\ TypeOK
      /\ c \in Links /\ freq[R] # MaxFreq /\ freq[R] <= MaxFreq /\ ~(c < T)
  <2>1. /\ phase = "descend" /\ c >= T /\ freq[R] # MaxFreq
        /\ TypeOK /\ c \in Links /\ freq[R] <= MaxFreq
    BY DEF Update, IInv, TypeOK
  <2>2. WholeTree
    BY <2>1 DEF WholeTree
  <2>3. Standing /\ Weighed
    BY <2>2, Stands
  <2>4. ~(c < T)
    BY <2>1, Sizes DEF Links
  <2> QED
    BY <2>1, <2>2, <2>3, <2>4
<1>2. c \in Codes /\ c # R
  BY <1>1, Sizes DEF Links, Codes
<1>3. prnt[c] \in Nodes /\ c \in Kids(prnt[c])
  BY <1>1, <1>2, FatherOf
<1>4. IsLeaf(prnt[c]) /\ son[prnt[c]] = c
  <2>1. IsLeaf(prnt[c])
    BY <1>1, <1>3, OneFather
  <2> QED
    BY <1>3, <2>1 DEF Kids
<1>5. /\ phase' = "climb" /\ c' = prnt[c] /\ sym' = c
      /\ UNCHANGED <<tree, j, spent>>
  BY DEF Update
<1>6. freq[R] < MaxFreq
  <2>1. R \in Nodes
    BY Sizes DEF Nodes
  <2>2. freq[R] \in Nat
    BY <1>1, <2>1, NodeIs
  <2> QED
    BY <1>1, <2>2, Sizes
<1>7. TypeOK'
  <2>1. c' \in Links /\ sym' \in T .. T + NChar - 1
    BY <1>2, <1>3, <1>5, Sizes DEF Nodes, Links, Codes
  <2> QED
    BY <1>1, <1>5, <2>1 DEF TypeOK, tree
<1>8. Standing'
  BY <1>1, <1>5, <1>7 DEF Standing, Positive, Fathered, Kids, IsLeaf, tree
<1>9. Weighed'
  <2> SUFFICES ASSUME NEW i \in Nodes, ~IsLeaf(i)
               PROVE  i # prnt[c] /\ freq[i] = freq[son[i]] + freq[son[i] + 1] - 0
    BY <1>5 DEF Weighed, IsLeaf, tree
  <2> QED
    BY <1>1, <1>4 DEF Weighed
<1>10. WholeTree' /\ Climbing' /\ Descending'
  BY <1>3, <1>4, <1>5, <1>6 DEF WholeTree, Climbing, Descending, IsLeaf, tree
<1> QED
  <2>1. (Standing /\ Weighed /\ WholeTree /\ Climbing /\ Descending)'
    BY <1>8, <1>9, <1>10
  <2> QED
    BY <2>1, Kept, PTL
-----------------------------------------------------------------------------
(* Weights, counted unit by unit.                                          *)
LEMMA InjCard ==
    ASSUME NEW A, NEW B, NEW f \in [A -> B], IsFiniteSet(B),
           \A x, y \in A : f[x] = f[y] => x = y
    PROVE  /\ IsFiniteSet(A) /\ Cardinality(A) \in Nat /\ Cardinality(B) \in Nat
           /\ Cardinality(A) <= Cardinality(B)
<1>1. f \in Injection(A, B)
  BY DEF Injection, IsInjective
<1> QED
  BY <1>1, FS_Injection, FS_CardinalityType

LEMMA UnitsFinite ==
    ASSUME NEW f, NEW S, S \subseteq 0 .. T
    PROVE  IsFiniteSet(Units(f, S)) /\ Weight(f, S) \in Nat
<1>1. IsFiniteSet(0 .. T) /\ IsFiniteSet(1 .. Sentinel)
  BY Sizes, FS_Interval
<1>2. IsFiniteSet((0 .. T) \X (1 .. Sentinel))
  BY <1>1, FS_Product
<1>3. Units(f, S) \in SUBSET ((0 .. T) \X (1 .. Sentinel))
  BY DEF Units
<1>4. IsFiniteSet(Units(f, S))
  BY <1>2, <1>3, FS_Subset
<1> QED
  BY <1>4, FS_CardinalityType DEF Weight

LEMMA UnitIs ==
    ASSUME NEW f, NEW S, NEW i, NEW u
    PROVE  <<i, u>> \in Units(f, S) <=> i \in S /\ u \in 1 .. Sentinel /\ u <= f[i]
BY DEF Units

LEMMA UnitsOf ==
    ASSUME NEW f, NEW S, NEW x \in Units(f, S)
    PROVE  /\ x = <<x[1], x[2]>> /\ x[1] \in S /\ x[2] \in 1 .. Sentinel /\ x[2] <= f[x[1]]
BY DEF Units

LEMMA UpTo ==
    ASSUME NEW n \in Nat
    PROVE  IsFiniteSet(1 .. n) /\ Cardinality(1 .. n) = n
<1>1. Cardinality(1 .. n) = IF 1 > n THEN 0 ELSE n - 1 + 1
  BY FS_Interval
<1> QED
  BY <1>1, FS_Interval

LEMMA WeightOfOne ==
    ASSUME NEW f, NEW i \in 0 .. T, f[i] \in 0 .. Sentinel
    PROVE  Weight(f, {i}) = f[i]
<1>1. IsFiniteSet(Units(f, {i})) /\ Weight(f, {i}) \in Nat
  BY UnitsFinite
<1>2. f[i] \in Nat /\ IsFiniteSet(1 .. f[i]) /\ Cardinality(1 .. f[i]) = f[i]
  <2>1. f[i] \in Nat
    BY Sizes
  <2> QED
    BY <2>1, UpTo
<1>3. f[i] <= Weight(f, {i})
  <2> DEFINE m == [u \in 1 .. f[i] |-> <<i, u>>]
  <2>1. m \in [1 .. f[i] -> Units(f, {i})]
    BY Sizes, UnitIs
  <2>2. \A u, v \in 1 .. f[i] : m[u] = m[v] => u = v
    OBVIOUS
  <2> HIDE DEF m
  <2>3. Cardinality(1 .. f[i]) <= Cardinality(Units(f, {i}))
    BY <1>1, <2>1, <2>2, InjCard
  <2> QED
    BY <1>2, <2>3 DEF Weight
<1>4. Weight(f, {i}) <= f[i]
  <2> DEFINE m == [x \in Units(f, {i}) |-> x[2]]
  <2>1. m \in [Units(f, {i}) -> 1 .. f[i]]
    BY Sizes, UnitsOf
  <2>2. \A x, y \in Units(f, {i}) : m[x] = m[y] => x = y
    BY UnitsOf
  <2> HIDE DEF m
  <2>3. Cardinality(Units(f, {i})) <= Cardinality(1 .. f[i])
    BY <1>2, <2>1, <2>2, InjCard
  <2> QED
    BY <1>2, <2>3 DEF Weight
<1> QED
  BY <1>1, <1>2, <1>3, <1>4

LEMMA WeightOfBoth ==
    ASSUME NEW f, NEW A, NEW B, A \subseteq 0 .. T, B \subseteq 0 .. T, A \cap B = {}
    PROVE  Weight(f, A \union B) = Weight(f, A) + Weight(f, B)
<1>1. /\ IsFiniteSet(Units(f, A)) /\ IsFiniteSet(Units(f, B))
      /\ Weight(f, A) \in Nat /\ Weight(f, B) \in Nat
  BY UnitsFinite
<1>2. Units(f, A \union B) = Units(f, A) \union Units(f, B)
  BY DEF Units
<1>3. Units(f, A) \cap Units(f, B) = {}
  BY UnitsOf
<1>4. Cardinality({}) = 0
  BY FS_EmptySet
<1> QED
  BY <1>1, <1>2, <1>3, <1>4, FS_Union DEF Weight

\* Node `at' is made of the units of p, then those of p + 1; v is the weight of p.
NodeOf(i, u, p, at, v) ==
    IF i < at THEN i ELSE IF i > at THEN i - 1 ELSE IF u <= v THEN p ELSE p + 1
UnitOf(i, u, at, v) == IF i = at /\ ~(u <= v) THEN u - v ELSE u

\* Two nodes of a tail become one, somewhere behind them, and the nodes behind
\* that move up: nothing is added to the weight.
LEMMA TailShrinks ==
    ASSUME NEW f, NEW g, NEW n \in NChar .. T - 1, NEW at, NEW p, p = 2 * (n - NChar),
           at \in p + 2 .. n, \A i \in 0 .. n - 1 : f[i] \in 0 .. Sentinel,
           g[at] = f[p] + f[p + 1],
           \A i \in p + 2 .. at - 1 : g[i] = f[i],
           \A i \in at + 1 .. n : g[i] = f[i - 1]
    PROVE  /\ Weight(g, Tail(n + 1)) <= Weight(f, Tail(n))
           /\ f[p] + f[p + 1] <= Weight(f, Tail(n))
<1>1. /\ Tail(n) = p .. n - 1 /\ Tail(n + 1) = p + 2 .. n /\ p \in Nat /\ n \in Nat /\ at \in Nat
      /\ p + 1 <= n - 1 /\ n < T /\ p + 2 <= at /\ at <= n
  BY Sizes DEF Tail
<1>2. Tail(n) \subseteq 0 .. T /\ p \in Tail(n) /\ p + 1 \in Tail(n)
      /\ p \in 0 .. n - 1 /\ p + 1 \in 0 .. n - 1
  BY <1>1, Sizes
<1>3. IsFiniteSet(Units(f, Tail(n)))
  BY <1>2, UnitsFinite
<1>4. f[p] \in Nat /\ f[p + 1] \in Nat /\ f[p] <= Sentinel /\ f[p + 1] <= Sentinel
  BY <1>2, Sizes
<1>5. ASSUME NEW u \in Nat, 1 <= u, u <= f[p] + f[p + 1]
      PROVE  IF u <= f[p] THEN <<p, u>> \in Units(f, Tail(n))
                          ELSE <<p + 1, u - f[p]>> \in Units(f, Tail(n))
  <2>1. CASE u <= f[p]
    BY <1>2, <1>4, <1>5, <2>1, UnitIs, Sizes
  <2>2. CASE ~(u <= f[p])
    <3>1. u - f[p] \in 1 .. Sentinel /\ u - f[p] <= f[p + 1]
      BY <1>4, <1>5, <2>2, Sizes
    <3> QED
      BY <1>2, <2>2, <3>1, UnitIs
  <2> QED
    BY <2>1, <2>2
<1>6. Weight(g, Tail(n + 1)) <= Weight(f, Tail(n))
  <2> DEFINE Node(i, u) == NodeOf(i, u, p, at, f[p])
             Unit(i, u) == UnitOf(i, u, at, f[p])
             m == [x \in Units(g, Tail(n + 1)) |-> <<Node(x[1], x[2]), Unit(x[1], x[2])>>]
  <2>1. \A x \in Units(g, Tail(n + 1)) :
          /\ x = <<x[1], x[2]>> /\ x[1] \in p + 2 .. n /\ x[1] \in Nat /\ p + 2 <= x[1]
          /\ x[2] \in 1 .. Sentinel /\ x[2] <= g[x[1]] /\ x[2] \in Nat /\ 1 <= x[2]
    <3> SUFFICES ASSUME NEW x \in Units(g, Tail(n + 1))
                 PROVE  /\ x = <<x[1], x[2]>> /\ x[1] \in p + 2 .. n /\ x[1] \in Nat
                        /\ p + 2 <= x[1] /\ x[2] \in 1 .. Sentinel /\ x[2] <= g[x[1]]
                        /\ x[2] \in Nat /\ 1 <= x[2]
      OBVIOUS
    <3>1. /\ x = <<x[1], x[2]>> /\ x[1] \in p + 2 .. n /\ x[2] \in 1 .. Sentinel
          /\ x[2] <= g[x[1]]
      BY <1>1, UnitsOf
    <3>2. \A i \in p + 2 .. n : i \in Nat /\ p + 2 <= i
      BY <1>1
    <3>3. \A u \in 1 .. Sentinel : u \in Nat /\ 1 <= u
      BY Sizes
    <3> QED
      BY <3>1, <3>2, <3>3
  <2>2. ASSUME NEW x \in Units(g, Tail(n + 1))
        PROVE  m[x] \in Units(f, Tail(n))
    <3>1. CASE x[1] < at
      <4>1. x[1] \in p + 2 .. at - 1 /\ x[1] \in Tail(n)
        BY <1>1, <2>1, <3>1
      <4>2. <<x[1], x[2]>> \in Units(f, Tail(n))
        BY <2>1, <4>1, UnitIs
      <4>3. NodeOf(x[1], x[2], p, at, f[p]) = x[1] /\ UnitOf(x[1], x[2], at, f[p]) = x[2]
        BY <1>1, <2>1, <3>1 DEF NodeOf, UnitOf
      <4> QED
        BY <3>1, <4>2, <4>3
    <3>2. CASE x[1] > at
      <4>1. x[1] \in at + 1 .. n /\ x[1] - 1 \in Tail(n) /\ ~(x[1] < at)
        BY <1>1, <2>1, <3>2
      <4>2. <<x[1] - 1, x[2]>> \in Units(f, Tail(n))
        BY <2>1, <4>1, UnitIs
      <4> QED
        BY <1>1, <2>1, <3>2, <4>1, <4>2 DEF NodeOf, UnitOf
    <3>3. CASE x[1] = at
      <4>1. x[2] <= f[p] + f[p + 1] /\ ~(x[1] < at) /\ ~(x[1] > at)
        BY <1>1, <2>1, <3>3
      <4>2. IF x[2] <= f[p] THEN <<p, x[2]>> \in Units(f, Tail(n))
                            ELSE <<p + 1, x[2] - f[p]>> \in Units(f, Tail(n))
        BY <1>5, <2>1, <4>1
      <4> QED
        BY <3>3, <4>1, <4>2 DEF NodeOf, UnitOf
    <3> QED
      BY <1>1, <2>1, <3>1, <3>2, <3>3
  <2>3. ASSUME NEW x \in Units(g, Tail(n + 1)), NEW y \in Units(g, Tail(n + 1)), m[x] = m[y]
        PROVE  x = y
    <3>1. PICK xi, xu, yi, yu :
            /\ xi = x[1] /\ xu = x[2] /\ yi = y[1] /\ yu = y[2]
      OBVIOUS
    <3>2. /\ xi \in Nat /\ xu \in Nat /\ yi \in Nat /\ yu \in Nat
          /\ p + 2 <= xi /\ p + 2 <= yi /\ x = <<xi, xu>> /\ y = <<yi, yu>>
          /\ 1 <= xu /\ 1 <= yu
      BY <2>1, <3>1
    <3>3. m[x] = <<Node(xi, xu), Unit(xi, xu)>> /\ m[y] = <<Node(yi, yu), Unit(yi, yu)>>
      BY <3>1
    <3> HIDE DEF m
    <3>4. Node(xi, xu) = Node(yi, yu) /\ Unit(xi, xu) = Unit(yi, yu)
      <4>1. PICK a, b, a1, b1 : /\ a = Node(xi, xu) /\ b = Unit(xi, xu)
                               /\ a1 = Node(yi, yu) /\ b1 = Unit(yi, yu)
        OBVIOUS
      <4> HIDE DEF Node, Unit
      <4>2. <<a, b>> = <<a1, b1>>
        BY <2>3, <3>3, <4>1, Zenon
      <4> QED
        BY <4>1, <4>2
    <3>5. xi = yi /\ xu = yu
      <4>1. PICK v : v = f[p]
        OBVIOUS
      <4>2. v \in Nat
        BY <1>4, <4>1
      <4>3. /\ NodeOf(xi, xu, p, at, v) = NodeOf(yi, yu, p, at, v)
            /\ UnitOf(xi, xu, at, v) = UnitOf(yi, yu, at, v)
        BY <3>4, <4>1
      <4>4. /\ xi \in Nat /\ xu \in Nat /\ yi \in Nat /\ yu \in Nat
            /\ p + 2 <= xi /\ p + 2 <= yi /\ 1 <= xu /\ 1 <= yu
            /\ p \in Nat /\ at \in Nat /\ p + 2 <= at
        BY <1>1, <3>2
      <4>5. CASE xi < at
        BY <4>2, <4>3, <4>4, <4>5 DEF NodeOf, UnitOf
      <4>6. CASE xi > at
        BY <4>2, <4>3, <4>4, <4>6 DEF NodeOf, UnitOf
      <4>7. CASE xi = at
        BY <4>2, <4>3, <4>4, <4>7 DEF NodeOf, UnitOf
      <4> QED
        BY <4>4, <4>5, <4>6, <4>7
    <3> QED
      BY <3>2, <3>5
  <2>4. m \in [Units(g, Tail(n + 1)) -> Units(f, Tail(n))]
    BY <2>2
  <2>5. \A x, y \in Units(g, Tail(n + 1)) : m[x] = m[y] => x = y
    BY <2>3
  <2> HIDE DEF m
  <2> QED
    BY <1>3, <2>4, <2>5, InjCard DEF Weight
<1>7. f[p] + f[p + 1] <= Weight(f, Tail(n))
  <2> DEFINE s == f[p] + f[p + 1]
             m == [u \in 1 .. s |-> IF u <= f[p] THEN <<p, u>> ELSE <<p + 1, u - f[p]>>]
  <2>1. s \in Nat /\ IsFiniteSet(1 .. s) /\ Cardinality(1 .. s) = s
    <3>1. s \in Nat
      BY <1>4
    <3> HIDE DEF s
    <3> QED
      BY <3>1, UpTo
  <2>2. m \in [1 .. s -> Units(f, Tail(n))]
    <3> SUFFICES ASSUME NEW u \in 1 .. s PROVE m[u] \in Units(f, Tail(n))
      OBVIOUS
    <3>1. u \in Nat /\ 1 <= u /\ u <= s
      BY <2>1
    <3> QED
      BY <1>5, <3>1
  <2>3. \A u, v \in 1 .. s : m[u] = m[v] => u = v
    <3> SUFFICES ASSUME NEW u \in 1 .. s, NEW v \in 1 .. s, m[u] = m[v] PROVE u = v
      OBVIOUS
    <3>1. (IF u <= f[p] THEN <<p, u>> ELSE <<p + 1, u - f[p]>>)
            = (IF v <= f[p] THEN <<p, v>> ELSE <<p + 1, v - f[p]>>)
      OBVIOUS
    <3> HIDE DEF m
    <3> QED
      BY <1>1, <1>4, <2>1, <3>1
  <2> HIDE DEF m, s
  <2>4. Cardinality(1 .. s) <= Cardinality(Units(f, Tail(n)))
    BY <1>3, <2>2, <2>3, InjCard
  <2>5. s <= Weight(f, Tail(n))
    BY <2>1, <2>4 DEF Weight
  <2> QED
    BY <2>5 DEF s
<1> QED
  BY <1>6, <1>7
-----------------------------------------------------------------------------
(* The rebuilding.                                                         *)
LEMMA Builds ==
    ASSUME IInv, phase = "connect"
    PROVE  /\ TypeOK /\ Positive /\ j \in NChar .. T /\ j \in Nat /\ NChar <= j /\ j <= T
           /\ prnt[R] = 0 /\ Connected(son, j) /\ Summed(freq, son, j)
           /\ 2 * Weight(freq, Tail(j)) <= MaxFreq + NChar
           /\ \A i \in 0 .. j - 2 : freq[i] <= freq[i + 1]
<1>1. /\ TypeOK /\ Positive /\ j \in 0 .. T /\ j >= NChar
      /\ prnt[R] = 0 /\ Connected(son, j) /\ Summed(freq, son, j)
      /\ 2 * Weight(freq, Tail(j)) <= MaxFreq + NChar
  BY DEF IInv, Building, TypeOK
<1>2. \A i \in 0 .. j - 2 : freq[i] <= freq[i + 1]
  BY DEF IInv, Ordered, WholeTree
<1>3. j \in NChar .. T /\ j \in Nat /\ NChar <= j /\ j <= T
  BY <1>1, Sizes
<1> QED
  BY <1>1, <1>2, <1>3

\* In a tree that is connected up to the root, each link but the root's own has
\* one father.
LEMMA OneOver ==
    ASSUME TypeOK, Connected(son, T), NEW k \in Links, k # R
    PROVE  \E i \in Nodes : Over(k) = {i} /\ (k \in Codes => IsLeaf(i) /\ son[i] = k)
<1>1. T - 1 = R /\ Nodes = 0 .. T - 1
  BY Sizes DEF Nodes
<1>2. ASSUME NEW i \in Nodes
      PROVE  /\ i \in Nat /\ i <= R
             /\ \/ son[i] \in Codes /\ IsLeaf(i) /\ Kids(i) = {son[i]}
                \/ /\ son[i] \in Pairs(T) /\ ~IsLeaf(i) /\ Kids(i) = {son[i], son[i] + 1}
                   /\ son[i] \in Nat /\ son[i] + 1 < i
  <2>1. i \in Nat /\ i <= R /\ son[i] \in Nat
    BY NodeIs
  <2>2. son[i] \in Codes \/ (son[i] \in Pairs(T) /\ son[i] + 1 < i)
    BY <1>1 DEF Connected
  <2>3. IsLeaf(i) <=> son[i] \in Codes
    BY NodeIs
  <2>4. son[i] \in Pairs(T) /\ son[i] + 1 < i => ~(son[i] >= T)
    BY <2>1, Sizes
  <2> QED
    BY <2>1, <2>2, <2>3, <2>4 DEF Kids, IsLeaf
<1>3. CASE k \in Codes
  <2>1. PICK i \in Nodes : son[i] = k
    BY <1>1, <1>3 DEF Connected
  <2>2. \A v \in Pairs(T) : v \notin Codes
    <3>1. \A v \in Codes : ~(v < T)
      BY Sizes DEF Codes
    <3>2. \A v \in Pairs(T) : v < T
      BY Sizes DEF Pairs
    <3> QED
      BY <3>1, <3>2
  <2>3. IsLeaf(i) /\ Kids(i) = {k}
    BY <1>2, <1>3, <2>1, <2>2
  <2>4. ASSUME NEW m \in Nodes, k \in Kids(m) PROVE m = i
    <3>1. CASE son[m] \in Codes /\ Kids(m) = {son[m]}
      <4>1. son[m] = son[i]
        BY <2>1, <2>4, <3>1
      <4> QED
        BY <1>1, <4>1 DEF Connected
    <3>2. CASE Kids(m) = {son[m], son[m] + 1} /\ son[m] \in Nat /\ son[m] + 1 < m
      <4>1. k < T
        BY <1>2, <2>4, <3>2, Sizes
      <4> QED
        BY <1>3, <4>1, Sizes DEF Codes
    <3> QED
      BY <1>2, <3>1, <3>2
  <2> QED
    BY <2>1, <2>3, <2>4 DEF Over
<1>4. CASE k \notin Codes
  <2>1. k \in Nat /\ k < R
    BY <1>4, Sizes DEF Links, Codes
  <2>2. PICK a \in Nat : k = 2 * a \/ k = 2 * a + 1
    <3>1. k \div 2 \in Nat /\ (k = 2 * (k \div 2) \/ k = 2 * (k \div 2) + 1)
      BY <2>1
    <3> QED
      BY <3>1
  <2>3. 2 * a \in Pairs(T)
    <3>1. a \in 0 .. T - NChar - 1
      BY <2>1, <2>2, Sizes
    <3> QED
      BY <3>1 DEF Pairs
  <2>4. PICK i \in Nodes : son[i] = 2 * a
    BY <1>1, <2>3 DEF Connected
  <2>5. k \in Kids(i)
    <3>1. 2 * a < T
      BY <2>1, <2>2, Sizes
    <3>2. ~(2 * a >= T)
      BY <2>2, <3>1, Sizes
    <3> QED
      BY <2>2, <2>4, <3>2 DEF Kids, IsLeaf
  <2>6. ASSUME NEW m \in Nodes, k \in Kids(m) PROVE m = i
    <3>1. CASE son[m] \in Codes /\ Kids(m) = {son[m]}
      BY <1>4, <2>6, <3>1
    <3>2. CASE son[m] \in Pairs(T) /\ Kids(m) = {son[m], son[m] + 1}
      <4>1. PICK b \in 0 .. T - NChar - 1 : son[m] = 2 * b
        BY <3>2 DEF Pairs
      <4>2. b \in Nat /\ (k = 2 * b \/ k = 2 * b + 1)
        BY <2>6, <3>2, <4>1, Sizes
      <4>3. a = b
        BY <2>2, <4>2
      <4> QED
        BY <1>1, <2>4, <4>1, <4>3 DEF Connected
    <3> QED
      BY <1>2, <3>1, <3>2
  <2> QED
    BY <1>4, <2>4, <2>5, <2>6 DEF Over
<1> QED
  BY <1>3, <1>4

LEMMA ReconnectKeeps ==
    ASSUME IInv, Reconnect
    PROVE  IInv'
<1>1. /\ phase = "connect" /\ j = T /\ phase' = "climb" /\ c' = prnt'[sym]
      /\ prnt' = [k \in Links |-> IF Over(k) = {} THEN prnt[k] ELSE Max(Over(k))]
      /\ UNCHANGED <<freq, son, j, sym, spent>>
  BY DEF Reconnect
<1>2. /\ TypeOK /\ Positive /\ prnt[R] = 0 /\ Connected(son, T) /\ Summed(freq, son, T)
      /\ 2 * Weight(freq, Tail(T)) <= MaxFreq + NChar
      /\ \A i \in 0 .. T - 2 : freq[i] <= freq[i + 1]
  BY <1>1, Builds
<1>3. T - 1 = R /\ T - 2 = R - 1 /\ Nodes = 0 .. T - 1
  BY Sizes DEF Nodes
<1>4. ASSUME NEW k \in Links, k # R
      PROVE  /\ prnt'[k] \in Nodes /\ \A i \in Nodes : k \in Kids(i) <=> i = prnt'[k]
             /\ k \in Codes => IsLeaf(prnt'[k]) /\ son[prnt'[k]] = k
  <2>1. PICK i \in Nodes : Over(k) = {i} /\ (k \in Codes => IsLeaf(i) /\ son[i] = k)
    BY <1>2, <1>4, OneOver
  <2>2. Max({i}) = i
    <3>1. {i} \subseteq Nat /\ {i} # {} /\ i \in Nat /\ \A n \in {i} : n <= i
      BY Sizes DEF Nodes
    <3>2. Max({i}) \in {i}
      BY <3>1, MaxIs
    <3> QED
      BY <3>2
  <2>3. prnt'[k] = i
    BY <1>1, <2>1, <2>2
  <2> QED
    BY <2>1, <2>3 DEF Over
<1>5. ASSUME NEW i \in Nodes
      PROVE  /\ IsLeaf(i) \/ son[i] + 1 < i
             /\ son[i] \in Nat /\ \A k \in Kids(i) : k \in Links /\ k # R
  <2>1. son[i] \in Links /\ son[i] \in Nat /\ i \in Nat /\ i <= R
        /\ (IsLeaf(i) <=> son[i] \in Codes)
        /\ Kids(i) = IF IsLeaf(i) THEN {son[i]} ELSE {son[i], son[i] + 1}
    BY <1>2, NodeIs
  <2>2. son[i] \in Codes \/ son[i] + 1 < i
    BY <1>2, <1>3 DEF Connected
  <2>3. IsLeaf(i) => son[i] # R
    BY <2>1, Sizes DEF Codes
  <2>4. ~IsLeaf(i) => /\ son[i] + 1 < i /\ son[i] + 1 \in Links
                      /\ son[i] # R /\ son[i] + 1 # R
    BY <2>1, <2>2, Sizes DEF Links
  <2> QED
    BY <2>1, <2>3, <2>4
<1>6. prnt'[R] = 0
  <2>1. R \in Links /\ Over(R) = {}
    BY <1>5, Sizes DEF Links, Over
  <2> QED
    BY <1>1, <1>2, <2>1
<1>7. prnt' \in [Links -> Nodes]
  <2>1. 0 \in Nodes
    BY Sizes DEF Nodes
  <2>2. \A k \in Links : prnt'[k] \in Nodes
    BY <1>4, <1>6, <2>1
  <2> QED
    BY <1>1, <2>2
<1>8. sym \in Codes /\ sym \in Links /\ sym # R
  BY <1>2, Sizes DEF TypeOK, Codes, Links
<1>9. c' \in Nodes /\ IsLeaf(c') /\ son[c'] = sym
  BY <1>1, <1>4, <1>8
<1>10. TypeOK'
  <2>1. c' \in Links
    BY <1>9, Sizes DEF Nodes, Links
  <2> QED
    BY <1>1, <1>2, <1>7, <2>1 DEF TypeOK
<1>11. Standing'
  <2>1. \A i \in Nodes : \A k \in Kids(i) : prnt'[k] = i
    BY <1>4, <1>5
  <2>2. \A k \in Links \ {R} : k \in Kids(prnt'[k])
    BY <1>4
  <2>3. Fathered'
    BY <1>1, <2>2 DEF Fathered, Kids, IsLeaf
  <2>4. IsLeaf(0)
    <3>1. 0 \in Nodes
      BY Sizes DEF Nodes
    <3> QED
      BY <1>5, <3>1
  <2>5. /\ Positive' /\ IsLeaf(0)' /\ \A i \in Nodes : IsLeaf(i)' \/ son'[i] + 1 < i
        /\ \A i \in 0 .. R - 1 : freq'[i] <= freq'[i + 1]
    BY <1>1, <1>2, <1>3, <1>5, <2>4 DEF Positive, IsLeaf
  <2>6. \A i \in Nodes : \A k \in Kids(i)' : prnt'[k] = i
    BY <1>1, <2>1 DEF Kids, IsLeaf
  <2> QED
    BY <1>6, <1>10, <2>3, <2>5, <2>6 DEF Standing
<1>12. Weighed'
  <2> SUFFICES ASSUME NEW i \in Nodes, ~IsLeaf(i)
               PROVE  i # c' /\ freq[i] = freq[son[i]] + freq[son[i] + 1] - 0
    BY <1>1 DEF Weighed, IsLeaf
  <2>1. i # c'
    BY <1>9
  <2>2. son[i] < T /\ i \in 0 .. T - 1 /\ son[i] \in Nodes /\ son[i] + 1 \in Nodes
    BY <1>3, <1>5, Sizes DEF Nodes
  <2>3. freq[i] = freq[son[i]] + freq[son[i] + 1]
    BY <1>2, <2>2 DEF Summed
  <2>4. freq[son[i]] \in Nat /\ freq[son[i] + 1] \in Nat
    BY <1>2, <2>2, NodeIs
  <2> QED
    BY <2>1, <2>3, <2>4
<1>13. freq[R] < MaxFreq
  <2>1. Tail(T) = {R} /\ R \in 0 .. T
    BY Sizes DEF Tail
  <2>2. freq[R] \in 0 .. Sentinel
    BY <1>2, <2>1 DEF TypeOK
  <2>3. Weight(freq, Tail(T)) = freq[R]
    BY <2>1, <2>2, WeightOfOne
  <2> QED
    BY <1>2, <2>2, <2>3, Sizes
<1>14. WholeTree' /\ Climbing' /\ Descending'
  BY <1>1, <1>9, <1>13 DEF WholeTree, Climbing, Descending, IsLeaf
<1> QED
  <2>1. (Standing /\ Weighed /\ WholeTree /\ Climbing /\ Descending)'
    BY <1>11, <1>12, <1>14
  <2> QED
    BY <2>1, Kept, PTL
\* Where the second loop puts a pair's node: behind the pair, and in order.
LEMMA PlaceIs ==
    ASSUME IInv, phase = "connect", j < T
    PROVE  /\ Place \in Nat /\ Pair + 2 <= Place /\ Place <= j
           /\ Pair \in Nat /\ Pair = 2 * (j - NChar) /\ Pair + 1 <= j - 1
           /\ PairFreq \in Nat
           /\ \A i \in 0 .. Place - 1 : freq[i] <= PairFreq
           /\ \A i \in Place .. j - 1 : PairFreq <= freq[i]
<1> DEFINE K == {0} \union {k \in 0 .. j - 1 : freq[k] <= PairFreq}
<1>1. /\ TypeOK /\ Positive /\ j \in Nat /\ NChar <= j
      /\ \A i \in 0 .. j - 2 : freq[i] <= freq[i + 1]
  BY Builds
<1>2. Pair \in Nat /\ Pair = 2 * (j - NChar) /\ Pair + 1 <= j - 1
  BY <1>1, Sizes DEF Pair
<1>3. \A i \in 0 .. T : freq[i] \in Nat /\ freq[i] >= 1
  BY <1>1, Sizes DEF TypeOK, Positive
<1>4. Pair \in 0 .. T /\ Pair + 1 \in 0 .. T /\ Pair + 1 \in 0 .. j - 1
  BY <1>1, <1>2, Sizes
<1>5. PairFreq \in Nat /\ freq[Pair + 1] <= PairFreq
  BY <1>3, <1>4 DEF PairFreq
<1>6. K \subseteq Nat /\ K # {} /\ \A k \in K : k <= j - 1
  <2>1. \A k \in 0 .. j - 1 : k \in Nat /\ k <= j - 1
    BY <1>1
  <2>2. 0 \in Nat /\ 0 <= j - 1
    BY <1>1, Sizes
  <2> QED
    BY <2>1, <2>2
<1>7. PICK m : m = Max(K)
  OBVIOUS
<1>8. m \in K /\ (\A k \in K : k <= m) /\ Place = 1 + m
  <2>1. j - 1 \in Nat
    BY <1>1, Sizes
  <2>2. Place = 1 + Max(K)
    BY DEF Place
  <2> HIDE DEF K
  <2> QED
    BY <1>6, <1>7, <2>1, <2>2, MaxIs
<1>9. Pair + 1 \in K
  BY <1>4, <1>5
<1>10. m \in Nat /\ Pair + 1 <= m /\ m <= j - 1
  BY <1>6, <1>8, <1>9
<1>11. freq[m] <= PairFreq
  <2>1. m # 0
    BY <1>2, <1>10
  <2> QED
    BY <1>8, <2>1
<1>12. \A a, b \in 0 .. j - 1 : a <= b => freq[a] <= freq[b]
  <2>1. j - 1 \in Nat /\ \A i \in 0 .. j - 1 : freq[i] \in Nat
    BY <1>1, <1>3, Sizes
  <2>2. \A i \in 0 .. (j - 1) - 1 : freq[i] <= freq[i + 1]
    BY <1>1
  <2> QED
    BY <2>1, <2>2, NeverFalls
<1>13. ASSUME NEW i \in 0 .. Place - 1 PROVE freq[i] <= PairFreq
  <2>1. i \in 0 .. j - 1 /\ m \in 0 .. j - 1 /\ i <= m /\ i \in 0 .. T /\ m \in 0 .. T
    BY <1>1, <1>8, <1>10, Sizes
  <2>2. freq[i] <= freq[m] /\ freq[i] \in Nat /\ freq[m] \in Nat
    BY <1>3, <1>12, <2>1
  <2> QED
    BY <1>5, <1>11, <2>2
<1>14. ASSUME NEW i \in Place .. j - 1 PROVE PairFreq <= freq[i]
  <2>1. i \in 0 .. j - 1 /\ i \in 0 .. T /\ ~(i <= m)
    BY <1>1, <1>8, <1>10, Sizes
  <2>2. i \notin K
    BY <1>8, <2>1
  <2>3. ~(freq[i] <= PairFreq) /\ freq[i] \in Nat
    BY <1>3, <2>1, <2>2
  <2> QED
    BY <1>5, <2>3
<1>15. Place \in Nat /\ Pair + 2 <= Place /\ Place <= j
  <2> HIDE DEF K
  <2> QED
    BY <1>1, <1>2, <1>8, <1>10
<1> QED
  BY <1>2, <1>5, <1>13, <1>14, <1>15

\* The lists of nodes with the pair's node put in.
LEMMA ShiftedIs ==
    ASSUME NEW f, NEW D, NEW at \in Nat, NEW x, NEW n \in Nat, f \in [0 .. D -> Nat], D \in Nat,
           n <= D, at <= n, NEW g,
           g = [i \in DOMAIN f |-> IF i = at THEN x
                                   ELSE IF at < i /\ i <= n THEN f[i - 1] ELSE f[i]]
    PROVE  /\ g[at] = x
           /\ \A i \in 0 .. at - 1 : g[i] = f[i]
           /\ \A i \in at + 1 .. n : g[i] = f[i - 1]
           /\ \A i \in n + 1 .. D : g[i] = f[i]
<1>1. DOMAIN f = 0 .. D
  OBVIOUS
<1>2. \A i \in 0 .. D : g[i] = IF i = at THEN x
                               ELSE IF at < i /\ i <= n THEN f[i - 1] ELSE f[i]
  BY <1>1
<1> QED
  BY <1>2

Connecting(f, s, at) ==
    /\ f[at] = PairFreq /\ s[at] = Pair
    /\ \A i \in 0 .. at - 1 : f[i] = freq[i] /\ s[i] = son[i]
    /\ \A i \in at + 1 .. j : f[i] = freq[i - 1] /\ s[i] = son[i - 1]
    /\ \A i \in j + 1 .. T : f[i] = freq[i]
    /\ \A i \in j + 1 .. R : s[i] = son[i]

LEMMA ConnectShifts ==
    ASSUME IInv, Connect, NEW at, at = Place
    PROVE  Connecting(freq', son', at)
<1>1. phase = "connect" /\ j < T /\ TypeOK /\ j \in Nat
  BY Builds DEF Connect
<1>2. Place \in Nat /\ Place <= j
  BY <1>1, PlaceIs
<1>3. freq \in [0 .. T -> Nat] /\ son \in [0 .. R -> Nat] /\ j <= R
  <2>1. \A x \in 0 .. Sentinel : x \in Nat
    BY Sizes
  <2>2. \A x \in Links : x \in Nat
    BY Sizes DEF Links
  <2> QED
    <3>1. freq \in [0 .. T -> 0 .. Sentinel] /\ son \in [0 .. R -> Links]
      BY <1>1 DEF TypeOK, Nodes
    <3>2. j <= R
      BY <1>1, Sizes
    <3>3. freq \in [0 .. T -> Nat]
      BY <2>1, <3>1
    <3>4. son \in [0 .. R -> Nat]
      BY <2>2, <3>1
    <3> QED
      BY <3>2, <3>3, <3>4
<1>4. /\ freq' = [i \in DOMAIN freq |-> IF i = Place THEN PairFreq
                    ELSE IF Place < i /\ i <= j THEN freq[i - 1] ELSE freq[i]]
      /\ son' = [i \in DOMAIN son |-> IF i = Place THEN Pair
                    ELSE IF Place < i /\ i <= j THEN son[i - 1] ELSE son[i]]
  BY DEF Connect, Shifted
<1>5. /\ freq'[Place] = PairFreq
      /\ \A i \in 0 .. Place - 1 : freq'[i] = freq[i]
      /\ \A i \in Place + 1 .. j : freq'[i] = freq[i - 1]
      /\ \A i \in j + 1 .. T : freq'[i] = freq[i]
  BY <1>1, <1>2, <1>3, <1>4, Sizes, ShiftedIs
<1>6. /\ son'[Place] = Pair
      /\ \A i \in 0 .. Place - 1 : son'[i] = son[i]
      /\ \A i \in Place + 1 .. j : son'[i] = son[i - 1]
      /\ \A i \in j + 1 .. R : son'[i] = son[i]
  BY <1>1, <1>2, <1>3, <1>4, Sizes, ShiftedIs
<1> QED
  BY <1>5, <1>6 DEF Connecting
LEMMA ConnectsOneMore ==
    ASSUME IInv, phase = "connect", j < T, NEW at, at = Place, NEW f, NEW s,
           Connecting(f, s, at)
    PROVE  /\ Connected(s, j + 1) /\ Summed(f, s, j + 1)
           /\ 2 * Weight(f, Tail(j + 1)) <= MaxFreq + NChar /\ PairFreq < MaxFreq
           /\ \A i \in 0 .. j - 1 : f[i] <= f[i + 1]
<1>1. /\ TypeOK /\ j \in Nat /\ NChar <= j /\ j \in NChar .. T
      /\ Connected(son, j) /\ Summed(freq, son, j)
      /\ 2 * Weight(freq, Tail(j)) <= MaxFreq + NChar
      /\ \A i \in 0 .. j - 2 : freq[i] <= freq[i + 1]
  BY Builds
<1>2. PICK p : p = Pair
  OBVIOUS
<1>3. /\ at \in Nat /\ p + 2 <= at /\ at <= j /\ p \in Nat /\ p = 2 * (j - NChar)
      /\ p + 1 <= j - 1 /\ PairFreq \in Nat
      /\ \A i \in 0 .. at - 1 : freq[i] <= PairFreq
      /\ \A i \in at .. j - 1 : PairFreq <= freq[i]
      /\ PairFreq = freq[p] + freq[p + 1]
  BY <1>2, PlaceIs DEF PairFreq
<1>4. /\ f[at] = PairFreq /\ s[at] = p
      /\ \A i \in 0 .. at - 1 : f[i] = freq[i] /\ s[i] = son[i]
      /\ \A i \in at + 1 .. j : f[i] = freq[i - 1] /\ s[i] = son[i - 1]
  BY <1>2 DEF Connecting
<1>5. \A i \in 0 .. T : freq[i] \in 0 .. Sentinel /\ freq[i] \in Nat
  BY <1>1, Sizes DEF TypeOK
<1>6. Weight(f, Tail(j + 1)) <= Weight(freq, Tail(j)) /\ PairFreq <= Weight(freq, Tail(j))
  <2>1. j \in NChar .. T - 1 /\ at \in p + 2 .. j
    BY <1>1, <1>3, Sizes
  <2>2. /\ \A i \in 0 .. j - 1 : freq[i] \in 0 .. Sentinel
        /\ \A i \in p + 2 .. at - 1 : f[i] = freq[i]
    <3>1. \A i \in 0 .. j - 1 : i \in 0 .. T
      BY <1>1, Sizes
    <3>2. \A i \in p + 2 .. at - 1 : i \in 0 .. at - 1
      BY <1>3
    <3> QED
      BY <1>4, <1>5, <3>1, <3>2
  <2> QED
    BY <1>3, <1>4, <2>1, <2>2, TailShrinks
<1>7. 2 * Weight(f, Tail(j + 1)) <= MaxFreq + NChar /\ PairFreq < MaxFreq
  <2>1. Tail(j) \subseteq 0 .. T /\ Tail(j + 1) \subseteq 0 .. T
    BY <1>1, Sizes DEF Tail
  <2>2. Weight(freq, Tail(j)) \in Nat /\ Weight(f, Tail(j + 1)) \in Nat
    BY <2>1, UnitsFinite
  <2> QED
    BY <1>1, <1>3, <1>6, <2>2, Sizes
<1>8. ASSUME NEW i \in 0 .. j - 1
      PROVE  f[i] <= f[i + 1]
  <2>1. i \in Nat /\ i <= j - 1 /\ i + 1 \in Nat
    BY <1>1
  <2>2. CASE i + 1 < at
    <3>1. i \in 0 .. at - 1 /\ i + 1 \in 0 .. at - 1 /\ i \in 0 .. j - 2
      BY <1>1, <1>3, <2>1, <2>2
    <3> QED
      BY <1>1, <1>4, <3>1
  <2>3. CASE i + 1 = at
    <3>1. i \in 0 .. at - 1
      BY <1>3, <2>1, <2>3
    <3> QED
      BY <1>3, <1>4, <2>3, <3>1
  <2>4. CASE i = at
    <3>1. i + 1 \in at + 1 .. j /\ i \in at .. j - 1 /\ i + 1 - 1 = i
      BY <1>1, <1>3, <2>1, <2>4
    <3> QED
      BY <1>3, <1>4, <2>4, <3>1
  <2>5. CASE at < i
    <3>1. i \in at + 1 .. j /\ i + 1 \in at + 1 .. j /\ i - 1 \in 0 .. j - 2 /\ i + 1 - 1 = i - 1 + 1
      BY <1>1, <1>3, <2>1, <2>5
    <3> QED
      BY <1>1, <1>4, <3>1
  <2> QED
    BY <1>3, <2>1, <2>2, <2>3, <2>4, <2>5
\* Which node a node was.
<1> DEFINE q(i) == IF i < at THEN i ELSE i - 1
<1>9. ASSUME NEW i \in 0 .. j, i # at
      PROVE  /\ q(i) \in 0 .. j - 1 /\ q(i) <= i /\ q(i) \in Nat
             /\ s[i] = son[q(i)] /\ f[i] = freq[q(i)]
  <2>1. i \in Nat /\ i <= j
    BY <1>1
  <2>2. CASE i < at
    <3>1. i \in 0 .. at - 1 /\ q(i) = i /\ i \in 0 .. j - 1
      BY <1>1, <1>3, <2>1, <2>2
    <3> QED
      BY <1>4, <2>1, <3>1
  <2>3. CASE at < i
    <3>1. i \in at + 1 .. j /\ q(i) = i - 1 /\ i - 1 \in 0 .. j - 1 /\ i - 1 \in Nat
      BY <1>1, <1>3, <2>1, <2>3
    <3> QED
      BY <1>4, <2>1, <3>1
  <2> QED
    BY <1>3, <1>9, <2>1, <2>2, <2>3
<1>10. \A v \in Codes \union Pairs(j) : v # p
  <2>1. \A v \in Codes : v # p
    BY <1>1, <1>3, Sizes DEF Codes
  <2>2. \A v \in Pairs(j) : v # p
    BY <1>1, <1>3, Sizes DEF Pairs
  <2> QED
    BY <2>1, <2>2
<1>11. Pairs(j + 1) = Pairs(j) \union {p}
  <2>1. 0 .. (j + 1) - NChar - 1 = (0 .. j - NChar - 1) \union {j - NChar}
    BY <1>1, Sizes
  <2>2. Pairs(j + 1) = {2 * m : m \in (0 .. j - NChar - 1) \union {j - NChar}}
    BY <2>1, Zenon DEF Pairs
  <2>3. 2 * (j - NChar) = p
    BY <1>3
  <2> QED
    BY <2>2, <2>3 DEF Pairs
<1>12. ASSUME NEW i \in 0 .. j, i # at
       PROVE  s[i] \in Codes \/ (s[i] \in Pairs(j) /\ s[i] + 1 < i)
  <2>1. s[i] \in Codes \/ (s[i] \in Pairs(j) /\ s[i] + 1 < q(i))
    BY <1>1, <1>9, <1>12 DEF Connected
  <2>2. \A v \in Pairs(j) : v \in Nat
    BY <1>1, Sizes DEF Pairs
  <2> HIDE DEF q
  <2> QED
    BY <1>9, <1>12, <2>1, <2>2
<1>13. ASSUME NEW v \in Codes \union Pairs(j)
       PROVE  \E i \in 0 .. j : i # at /\ s[i] = v
  <2>1. PICK i \in 0 .. j - 1 : son[i] = v
    BY <1>1 DEF Connected
  <2>2. i \in Nat /\ i <= j - 1
    BY <1>1
  <2>3. CASE i < at
    <3>1. i \in 0 .. at - 1 /\ i \in 0 .. j /\ i # at
      BY <1>1, <1>3, <2>2, <2>3
    <3> QED
      BY <1>4, <2>1, <3>1
  <2>4. CASE at <= i
    <3>1. i + 1 \in at + 1 .. j /\ i + 1 \in 0 .. j /\ i + 1 # at /\ i + 1 - 1 = i
      BY <1>1, <1>3, <2>2, <2>4
    <3> QED
      BY <1>4, <2>1, <3>1
  <2> QED
    BY <1>3, <2>2, <2>3, <2>4
<1>14. ASSUME NEW i \in 0 .. j, NEW k \in 0 .. j, i # at, k # at, s[i] = s[k]
       PROVE  i = k
  <2>1. q(i) = q(k)
    <3>1. q(i) \in 0 .. j - 1 /\ q(k) \in 0 .. j - 1 /\ son[q(i)] = son[q(k)]
      BY <1>9, <1>14
    <3> HIDE DEF q
    <3> QED
      BY <1>1, <3>1 DEF Connected
  <2>2. i \in Nat /\ k \in Nat
    BY <1>1
  <2> QED
    BY <1>3, <1>14, <2>1, <2>2
<1> HIDE DEF q
<1>15. Connected(s, j + 1)
  <2>1. 0 .. (j + 1) - 1 = 0 .. j /\ at \in 0 .. j
    BY <1>1, <1>3
  <2>2. \A i \in 0 .. j : s[i] \in Codes \/ (s[i] \in Pairs(j + 1) /\ s[i] + 1 < i)
    <3> SUFFICES ASSUME NEW i \in 0 .. j
                 PROVE  s[i] \in Codes \/ (s[i] \in Pairs(j + 1) /\ s[i] + 1 < i)
      OBVIOUS
    <3>1. p + 1 < at
      BY <1>3
    <3> QED
      BY <1>4, <1>11, <1>12, <3>1
  <2>3. \A v \in Codes \union Pairs(j + 1) : \E i \in 0 .. j : s[i] = v
    BY <1>4, <1>11, <1>13, <2>1
  <2>4. \A i, k \in 0 .. j : s[i] = s[k] => i = k
    <3> SUFFICES ASSUME NEW i \in 0 .. j, NEW k \in 0 .. j, s[i] = s[k]
                 PROVE  i = k
      OBVIOUS
    <3>1. \A m \in 0 .. j : m # at => s[m] # p
      BY <1>10, <1>12
    <3> QED
      BY <1>4, <1>14, <3>1
  <2> QED
    BY <2>1, <2>2, <2>3, <2>4, Zenon DEF Connected
<1>16. Summed(f, s, j + 1)
  <2> SUFFICES ASSUME NEW i \in 0 .. j, s[i] < T
               PROVE  f[i] = f[s[i]] + f[s[i] + 1]
    <3>1. 0 .. (j + 1) - 1 = 0 .. j
      BY <1>1
    <3> QED
      BY <3>1, Zenon DEF Summed
  <2>1. CASE i = at
    <3>1. p \in 0 .. at - 1 /\ p + 1 \in 0 .. at - 1
      BY <1>3
    <3> QED
      BY <1>3, <1>4, <2>1, <3>1
  <2>2. CASE i # at
    <3>1. s[i] \in Pairs(j)
      <4>1. \A v \in Codes : ~(v < T)
        BY Sizes DEF Codes
      <4> QED
        BY <1>12, <2>2, <4>1
    <3>2. s[i] \in 0 .. at - 1 /\ s[i] + 1 \in 0 .. at - 1
      BY <1>1, <1>3, <3>1, Sizes DEF Pairs
    <3>3. q(i) \in 0 .. j - 1 /\ s[i] = son[q(i)] /\ f[i] = freq[q(i)]
      BY <1>9, <2>2
    <3>4. freq[q(i)] = freq[s[i]] + freq[s[i] + 1]
      BY <1>1, <3>3 DEF Summed
    <3> QED
      BY <1>4, <3>2, <3>3, <3>4
  <2> QED
    BY <2>1, <2>2
<1> QED
  BY <1>7, <1>8, <1>15, <1>16

LEMMA ConnectKeeps ==
    ASSUME IInv, Connect
    PROVE  IInv'
<1>1. /\ phase = "connect" /\ j < T /\ phase' = "connect" /\ j' = j + 1
      /\ UNCHANGED <<prnt, c, sym, spent>>
  BY DEF Connect
<1>2. /\ TypeOK /\ Positive /\ j \in Nat /\ NChar <= j /\ prnt[R] = 0
  BY <1>1, Builds
<1>3. PICK at, f, s : at = Place /\ f = freq' /\ s = son'
  OBVIOUS
<1>4. Connecting(f, s, at)
  BY <1>3, ConnectShifts
<1>5. /\ Connected(s, j + 1) /\ Summed(f, s, j + 1)
      /\ 2 * Weight(f, Tail(j + 1)) <= MaxFreq + NChar /\ PairFreq < MaxFreq
      /\ \A i \in 0 .. j - 1 : f[i] <= f[i + 1]
  BY <1>1, <1>3, <1>4, ConnectsOneMore
<1>6. /\ at \in Nat /\ Pair + 2 <= at /\ at <= j /\ Pair = 2 * (j - NChar) /\ PairFreq \in Nat
      /\ Pair \in Nat /\ Pair + 1 <= j - 1
  BY <1>1, <1>3, PlaceIs
<1>7. /\ \A i \in 0 .. T : freq[i] \in 0 .. Sentinel /\ freq[i] >= 1 /\ freq[i] \in Nat
      /\ \A i \in Nodes : son[i] \in Links
  BY <1>2, Sizes DEF TypeOK, Positive
<1>8. ASSUME NEW i \in 0 .. T
      PROVE  f[i] \in 0 .. Sentinel /\ f[i] >= 1
  <2>1. i \in 0 .. at - 1 \/ i = at \/ i \in at + 1 .. j \/ i \in j + 1 .. T
    BY <1>2, <1>6, Sizes
  <2>2. CASE i \in 0 .. at - 1 \/ i \in j + 1 .. T
    BY <1>4, <1>7, <2>2 DEF Connecting
  <2>3. CASE i = at
    <3>1. Pair \in 0 .. T /\ Pair + 1 \in 0 .. T
      BY <1>1, <1>2, <1>6, Sizes
    <3>2. PairFreq >= 1
      BY <1>7, <3>1 DEF PairFreq
    <3> QED
      BY <1>4, <1>5, <1>6, <2>3, <3>2, Sizes DEF Connecting
  <2>4. CASE i \in at + 1 .. j
    <3>1. i - 1 \in 0 .. T
      BY <1>1, <1>2, <1>6, <2>4, Sizes
    <3> QED
      BY <1>4, <1>7, <2>4, <3>1 DEF Connecting
  <2> QED
    BY <2>1, <2>2, <2>3, <2>4
<1>9. ASSUME NEW i \in Nodes
      PROVE  s[i] \in Links
  <2>1. i \in 0 .. at - 1 \/ i = at \/ i \in at + 1 .. j \/ i \in j + 1 .. R
    BY <1>2, <1>6, Sizes DEF Nodes
  <2>2. CASE i \in 0 .. at - 1 \/ i \in j + 1 .. R
    BY <1>4, <1>7, <2>2 DEF Connecting
  <2>3. CASE i = at
    <3>1. Pair \in Links
      BY <1>1, <1>2, <1>6, Sizes DEF Links
    <3> QED
      BY <1>4, <2>3, <3>1 DEF Connecting
  <2>4. CASE i \in at + 1 .. j
    <3>1. i - 1 \in Nodes
      BY <1>1, <1>2, <1>6, <2>4, Sizes DEF Nodes
    <3> QED
      BY <1>4, <1>7, <2>4, <3>1 DEF Connecting
  <2> QED
    BY <2>1, <2>2, <2>3, <2>4
<1>10. freq' \in [0 .. T -> 0 .. Sentinel] /\ son' \in [Nodes -> Links]
  <2>1. freq' = [i \in DOMAIN freq |-> freq'[i]] /\ son' = [i \in DOMAIN son |-> son'[i]]
    BY DEF Connect, Shifted
  <2>2. DOMAIN freq = 0 .. T /\ DOMAIN son = Nodes
    BY <1>2 DEF TypeOK
  <2>3. freq' = [i \in 0 .. T |-> freq'[i]] /\ son' = [i \in Nodes |-> son'[i]]
    BY <2>1, <2>2, Zenon
  <2> QED
    BY <1>3, <1>8, <1>9, <2>3
<1>11. freq'[R] <= MaxFreq /\ freq'[T] = Sentinel
  <2>1. freq[R] <= MaxFreq /\ freq[T] = Sentinel
    BY <1>2 DEF TypeOK
  <2>2. T \in j + 1 .. T
    BY <1>1, <1>2, Sizes
  <2>3. CASE j < R
    <3>1. R \in j + 1 .. T
      BY <1>2, <2>3, Sizes
    <3> QED
      BY <1>3, <1>4, <2>1, <2>2, <3>1 DEF Connecting
  <2>4. CASE j = R
    <3>1. at = R
      BY <1>2, <1>6, <2>4, Sizes
    <3>2. freq'[R] = PairFreq
      BY <1>3, <1>4, <3>1 DEF Connecting
    <3> QED
      BY <1>3, <1>4, <1>5, <1>6, <2>1, <2>2, <3>2, Sizes DEF Connecting
  <2> QED
    BY <1>1, <1>2, <2>3, <2>4, Sizes
<1>12. TypeOK'
  <2>1. j' \in 0 .. T
    BY <1>1, <1>2, Sizes
  <2> QED
    BY <1>1, <1>2, <1>10, <1>11, <2>1 DEF TypeOK
<1>13. Positive' /\ Ordered'
  <2>1. Positive'
    BY <1>3, <1>8 DEF Positive
  <2>2. ~WholeTree' /\ j' - 2 = j - 1
    BY <1>1, <1>2 DEF WholeTree
  <2> QED
    BY <1>3, <1>5, <2>1, <2>2 DEF Ordered
<1>14. Building'
  <2>1. j' >= NChar /\ prnt'[R] = 0
    BY <1>1, <1>2, Sizes
  <2>2. Connected(son', j') /\ Summed(freq', son', j')
        /\ 2 * Weight(freq', Tail(j')) <= MaxFreq + NChar
    BY <1>1, <1>3, <1>5, Zenon
  <2> QED
    BY <2>1, <2>2 DEF Building
<1>15. Linked' /\ (WholeTree' => Fathered') /\ Climbing' /\ Descending'
  BY <1>1 DEF Linked, WholeTree, Climbing, Descending
<1> QED
  BY <1>12, <1>13, <1>14, <1>15 DEF IInv
-----------------------------------------------------------------------------
(* The leaves, in the order the first loop of reconst finds them.          *)
LEMMA LeavesAre ==
    ASSUME Standing
    PROVE  /\ Leaves \subseteq Nodes /\ IsFiniteSet(Leaves) /\ Cardinality(Leaves) = NChar
           /\ \A i \in Leaves : son[i] \in Codes
           /\ \A k \in Codes : \E i \in Leaves : son[i] = k
           /\ \A a, b \in Leaves : son[a] = son[b] => a = b
<1>1. Leaves \subseteq Nodes /\ \A i \in Leaves : son[i] \in Codes
  BY NodeIs DEF Leaves, Standing
<1>2. \A a, b \in Leaves : son[a] = son[b] => a = b
  <2>1. \A a \in Leaves : a \in Nodes /\ son[a] \in Kids(a)
    BY DEF Leaves, Kids
  <2> QED
    BY <2>1 DEF Standing
<1>3. ASSUME NEW k \in Codes PROVE \E i \in Leaves : son[i] = k
  <2>1. k \in Links /\ k # R /\ ~(k < T)
    BY Sizes DEF Codes, Links
  <2>2. prnt[k] \in Nodes /\ k \in Kids(prnt[k])
    BY <2>1, FatherOf
  <2>3. IsLeaf(prnt[k])
    BY <2>1, <2>2, OneFather
  <2> QED
    BY <2>2, <2>3 DEF Leaves, Kids
<1>4. IsFiniteSet(Nodes) /\ IsFiniteSet(Codes) /\ Cardinality(Codes) = NChar
  <2>1. IsFiniteSet(0 .. R)
    BY Sizes, FS_Interval
  <2>2. /\ IsFiniteSet(T .. T + NChar - 1)
        /\ Cardinality(T .. T + NChar - 1)
             = IF T > T + NChar - 1 THEN 0 ELSE T + NChar - 1 - T + 1
    BY Sizes, FS_Interval
  <2>3. Cardinality(T .. T + NChar - 1) = NChar
    BY <2>2, Sizes
  <2> QED
    BY <2>1, <2>2, <2>3 DEF Nodes, Codes
<1>5. IsFiniteSet(Leaves)
  BY <1>1, <1>4, FS_Subset
<1>6. Cardinality(Leaves) = NChar
  <2> DEFINE m == [i \in Leaves |-> son[i]]
  <2>1. m \in Bijection(Leaves, Codes)
    BY <1>1, <1>2, <1>3 DEF Bijection, Injection, Surjection, IsInjective
  <2>2. ExistsBijection(Leaves, Codes)
    BY <2>1 DEF ExistsBijection
  <2> QED
    BY <1>4, <1>5, <2>2, FS_Bijection
<1> QED
  BY <1>1, <1>2, <1>3, <1>5, <1>6

Rank(i) == Cardinality({x \in Leaves : x < i})

LEMMA Ranks ==
    ASSUME Standing
    PROVE  /\ \A i \in Leaves : Rank(i) \in 0 .. NChar - 1
           /\ \A a, b \in Leaves : a < b => Rank(a) < Rank(b)
<1>1. Leaves \subseteq Nodes /\ IsFiniteSet(Leaves) /\ Cardinality(Leaves) = NChar
  BY LeavesAre
<1>2. \A i \in Leaves : i \in Nat
  BY <1>1, Sizes DEF Nodes
<1>3. ASSUME NEW i \in Leaves
      PROVE  /\ IsFiniteSet({x \in Leaves : x < i}) /\ Rank(i) \in Nat
             /\ Cardinality({x \in Leaves : x < i} \union {i}) = Rank(i) + 1
  <2>1. IsFiniteSet({x \in Leaves : x < i})
    BY <1>1, FS_Subset
  <2>2. i \notin {x \in Leaves : x < i}
    BY <1>2
  <2> QED
    BY <2>1, <2>2, FS_CardinalityType, FS_AddElement DEF Rank
<1>4. ASSUME NEW i \in Leaves PROVE Rank(i) \in 0 .. NChar - 1
  <2>1. {x \in Leaves : x < i} \union {i} \in SUBSET Leaves
    OBVIOUS
  <2>2. Cardinality({x \in Leaves : x < i} \union {i}) <= NChar
    BY <1>1, <2>1, FS_Subset
  <2>3. Rank(i) + 1 <= NChar /\ Rank(i) \in Nat
    BY <1>3, <2>2
  <2> QED
    BY <2>3, Sizes
<1>5. ASSUME NEW a \in Leaves, NEW b \in Leaves, a < b
      PROVE  Rank(a) < Rank(b)
  <2>1. {x \in Leaves : x < a} \union {a} \in SUBSET {x \in Leaves : x < b}
    BY <1>2, <1>5
  <2>2. Cardinality({x \in Leaves : x < a} \union {a}) <= Rank(b)
    BY <1>3, <2>1, FS_Subset DEF Rank
  <2>3. Rank(a) + 1 <= Rank(b) /\ Rank(a) \in Nat /\ Rank(b) \in Nat
    BY <1>3, <2>2
  <2> QED
    BY <2>3
<1> QED
  BY <1>4, <1>5

LEMMA NthLeafIs ==
    ASSUME Standing
    PROVE  /\ \A n \in 0 .. NChar - 1 : NthLeaf(n) \in Leaves
           /\ \A i \in Leaves : \E n \in 0 .. NChar - 1 : NthLeaf(n) = i
           /\ \A n, m \in 0 .. NChar - 1 : n < m => NthLeaf(n) < NthLeaf(m)
           /\ \A n, m \in 0 .. NChar - 1 : NthLeaf(n) = NthLeaf(m) => n = m
<1>1. Leaves \subseteq Nodes /\ IsFiniteSet(Leaves) /\ Cardinality(Leaves) = NChar
  BY LeavesAre
<1>2. /\ \A i \in Leaves : i \in Nat /\ Rank(i) \in 0 .. NChar - 1 /\ Rank(i) \in Nat
      /\ \A a, b \in Leaves : a < b => Rank(a) < Rank(b)
  BY <1>1, Ranks, Sizes DEF Nodes
<1>3. \A a, b \in Leaves : Rank(a) = Rank(b) => a = b
  BY <1>2
<1>4. IsFiniteSet(0 .. NChar - 1) /\ Cardinality(0 .. NChar - 1) = NChar
  <2>1. Cardinality(0 .. NChar - 1) = IF 0 > NChar - 1 THEN 0 ELSE NChar - 1 - 0 + 1
    BY Sizes, FS_Interval
  <2> QED
    BY <2>1, Sizes, FS_Interval
<1>5. ASSUME NEW n \in 0 .. NChar - 1
      PROVE  \E i \in Leaves : Rank(i) = n
  <2> DEFINE m == [i \in Leaves |-> Rank(i)]
  <2>1. m \in Injection(Leaves, 0 .. NChar - 1)
    BY <1>2, <1>3 DEF Injection, IsInjective
  <2>2. m \in Surjection(Leaves, 0 .. NChar - 1)
    <3> HIDE DEF m
    <3> QED
      BY <1>1, <1>4, <2>1, FS_Injection
  <2> QED
    BY <2>2 DEF Surjection
<1>6. ASSUME NEW n \in 0 .. NChar - 1
      PROVE  NthLeaf(n) \in Leaves /\ Rank(NthLeaf(n)) = n
  BY <1>5 DEF NthLeaf, Rank
<1>7. ASSUME NEW i \in Leaves PROVE \E n \in 0 .. NChar - 1 : NthLeaf(n) = i
  <2>1. Rank(i) \in 0 .. NChar - 1
    BY <1>2
  <2> QED
    BY <1>3, <1>6, <2>1
<1>8. ASSUME NEW n \in 0 .. NChar - 1, NEW m \in 0 .. NChar - 1, n < m
      PROVE  NthLeaf(n) < NthLeaf(m)
  <2>1. /\ NthLeaf(n) \in Leaves /\ Rank(NthLeaf(n)) = n
        /\ NthLeaf(m) \in Leaves /\ Rank(NthLeaf(m)) = m
    BY <1>6
  <2>2. PICK a, b : a = NthLeaf(n) /\ b = NthLeaf(m)
    OBVIOUS
  <2>3. a \in Leaves /\ b \in Leaves /\ Rank(a) = n /\ Rank(b) = m /\ n \in Nat /\ m \in Nat
    BY <2>1, <2>2, Sizes
  <2>4. a < b
    <3>1. a \in Nat /\ b \in Nat /\ a # b
      BY <1>2, <1>8, <2>3
    <3>2. ~(b < a)
      BY <1>2, <1>8, <2>3
    <3> QED
      BY <3>1, <3>2
  <2> QED
    BY <2>2, <2>4
<1> QED
  BY <1>6, <1>7, <1>8
\* The leaves weigh no more than the root: each inner node weighs what its two
\* sons weigh, and every node but the root is a son.
LEMMA LeavesWeigh ==
    ASSUME Standing, Weighed, phase # "climb"
    PROVE  Weight(freq, Leaves) <= freq[R]
<1> DEFINE Below == 0 .. R - 1
           Inner == {i \in Nodes : ~IsLeaf(i)}
           Rest == {i \in Inner : i # R}
<1>1. Nodes \subseteq 0 .. T /\ R \in Nodes /\ R \in 0 .. T /\ TypeOK
  BY Sizes DEF Nodes, Standing
<1>2. ~IsLeaf(R)
  <2> SUFFICES ASSUME IsLeaf(R) PROVE FALSE
    OBVIOUS
  <2>1. R - 1 \in Links /\ R - 1 # R /\ R - 1 < T
    BY Sizes DEF Links
  <2>2. prnt[R - 1] \in Nodes /\ R - 1 \in Kids(prnt[R - 1])
    BY <2>1, FatherOf
  <2>3. R - 1 < prnt[R - 1] /\ ~IsLeaf(prnt[R - 1])
    BY <2>1, <2>2, OneFather
  <2>4. prnt[R - 1] = R
    BY <2>2, <2>3, Sizes DEF Nodes
  <2> QED
    BY <2>3, <2>4
<1>3. /\ Below = Leaves \union Rest /\ Leaves \cap Rest = {}
      /\ Inner = Rest \union {R} /\ Rest \cap {R} = {}
      /\ Below \subseteq 0 .. T /\ Inner \subseteq 0 .. T /\ Rest \subseteq 0 .. T
      /\ Leaves \subseteq 0 .. T /\ {R} \subseteq 0 .. T
  <2>1. Nodes = Below \union {R} /\ R \notin Below
    BY Sizes DEF Nodes
  <2> HIDE DEF Below
  <2> QED
    BY <1>1, <1>2, <2>1 DEF Leaves
<1>4. /\ Weight(freq, Below) = Weight(freq, Leaves) + Weight(freq, Rest)
      /\ Weight(freq, Inner) = Weight(freq, Rest) + freq[R]
  <2>1. freq[R] \in 0 .. Sentinel
    BY <1>1 DEF TypeOK
  <2>2. Weight(freq, {R}) = freq[R]
    BY <1>1, <2>1, WeightOfOne
  <2> HIDE DEF Below, Inner, Rest
  <2> QED
    <3>1. Weight(freq, Leaves \union Rest) = Weight(freq, Leaves) + Weight(freq, Rest)
      BY <1>3, WeightOfBoth
    <3>2. Weight(freq, Rest \union {R}) = Weight(freq, Rest) + Weight(freq, {R})
      BY <1>3, WeightOfBoth
    <3> QED
      BY <1>3, <2>2, <3>1, <3>2
<1>5. ASSUME NEW i \in Inner
      PROVE  /\ i \in Nodes /\ i \in 0 .. T /\ son[i] \in Nodes /\ son[i] + 1 \in Nodes /\ son[i] \in Nat
             /\ Kids(i) = {son[i], son[i] + 1} /\ freq[i] = freq[son[i]] + freq[son[i] + 1]
             /\ freq[son[i]] \in Nat /\ freq[son[i] + 1] \in Nat /\ freq[i] \in Nat /\ freq[i] <= Sentinel
             /\ freq[son[i]] <= freq[i] /\ freq[son[i] + 1] <= freq[i]
  <2>1. /\ i \in Nodes /\ i \in Nat /\ i <= R /\ ~IsLeaf(i) /\ son[i] \in Nat /\ son[i] + 1 < i
    BY NodeIs DEF Standing
  <2>2. son[i] \in Nodes /\ son[i] + 1 \in Nodes /\ i \in 0 .. T
    BY <2>1, Sizes DEF Nodes
  <2>3. freq[i] = freq[son[i]] + freq[son[i] + 1] - 0
    BY <2>1 DEF Weighed
  <2>4. freq[son[i]] \in Nat /\ freq[son[i] + 1] \in Nat /\ freq[i] \in Nat
    BY <1>1, <2>1, <2>2, NodeIs
  <2>5. freq[i] <= Sentinel
    <3>1. freq[i] \in 0 .. Sentinel
      BY <1>1, <2>2 DEF TypeOK
    <3> QED
      BY <3>1, Sizes
  <2>6. Kids(i) = {son[i], son[i] + 1}
    BY <2>1 DEF Kids
  <2> QED
    BY <2>1, <2>2, <2>3, <2>4, <2>5, <2>6
<1>6. ASSUME NEW k \in Below
      PROVE  /\ prnt[k] \in Inner /\ (k = son[prnt[k]] \/ k = son[prnt[k]] + 1)
             /\ k \in Nat /\ k \in Nodes
  <2>1. k \in Links /\ k # R /\ k < T /\ k \in Nat /\ k \in Nodes
    BY Sizes DEF Links, Nodes
  <2>2. prnt[k] \in Nodes /\ k \in Kids(prnt[k])
    BY <2>1, FatherOf
  <2>3. ~IsLeaf(prnt[k])
    BY <2>1, <2>2, OneFather
  <2>4. prnt[k] \in Inner
    BY <2>2, <2>3
  <2> QED
    BY <1>5, <2>1, <2>2, <2>4
<1> DEFINE Up(k, u) == IF k = son[prnt[k]] THEN u ELSE freq[son[prnt[k]]] + u
           m == [x \in Units(freq, Below) |-> <<prnt[x[1]], Up(x[1], x[2])>>]
<1>7. \A x \in Units(freq, Below) :
        /\ x = <<x[1], x[2]>> /\ x[1] \in Below /\ x[2] \in Nat /\ 1 <= x[2] /\ x[2] <= freq[x[1]]
  <2>1. \A u \in 1 .. Sentinel : u \in Nat /\ 1 <= u
    BY Sizes
  <2> HIDE DEF Below
  <2> QED
    BY <2>1, UnitsOf
<1>8. ASSUME NEW x \in Units(freq, Below)
      PROVE  m[x] \in Units(freq, Inner)
  <2>1. PICK k, u, i, s : k = x[1] /\ u = x[2] /\ i = prnt[k] /\ s = son[i]
    OBVIOUS
  <2>2. /\ k \in Below /\ u \in Nat /\ 1 <= u /\ u <= freq[k] /\ i \in Inner
        /\ (k = s \/ k = s + 1)
    BY <1>6, <1>7, <2>1
  <2>3. /\ freq[i] = freq[s] + freq[s + 1] /\ freq[s] \in Nat /\ freq[s + 1] \in Nat
        /\ freq[i] \in Nat /\ freq[i] <= Sentinel
    BY <1>5, <2>1, <2>2
  <2>4. PICK w : w = Up(k, u)
    OBVIOUS
  <2>5. w = IF k = s THEN u ELSE freq[s] + u
    BY <2>1, <2>4
  <2>6. w \in 1 .. Sentinel /\ w <= freq[i]
    <3>1. CASE k = s
      BY <2>2, <2>3, <2>5, <3>1, Sizes
    <3>2. CASE k # s
      <4>1. k = s + 1 /\ w = freq[s] + u /\ u <= freq[s + 1]
        BY <2>2, <2>5, <3>2
      <4> QED
        BY <2>2, <2>3, <4>1, Sizes
    <3> QED
      BY <3>1, <3>2
  <2>7. <<i, w>> \in Units(freq, Inner)
    <3> HIDE DEF Inner
    <3> QED
      BY <2>2, <2>6, UnitIs
  <2> QED
    BY <2>1, <2>4, <2>7
<1>9. ASSUME NEW x \in Units(freq, Below), NEW y \in Units(freq, Below), m[x] = m[y]
      PROVE  x = y
  <2>1. PICK k, u, l, v : k = x[1] /\ u = x[2] /\ l = y[1] /\ v = y[2]
    OBVIOUS
  <2>2. /\ k \in Below /\ u \in Nat /\ 1 <= u /\ u <= freq[k] /\ x = <<k, u>>
        /\ l \in Below /\ v \in Nat /\ 1 <= v /\ v <= freq[l] /\ y = <<l, v>>
    BY <1>7, <2>1
  <2>3. PICK i, ii, w, ww : i = prnt[k] /\ ii = prnt[l] /\ w = Up(k, u) /\ ww = Up(l, v)
    OBVIOUS
  <2>4. <<i, w>> = <<ii, ww>>
    BY <1>9, <2>1, <2>3
  <2>5. i = ii /\ w = ww
    BY <2>4
  <2>6. PICK s : s = son[i]
    OBVIOUS
  <2>7. /\ (k = s \/ k = s + 1) /\ (l = s \/ l = s + 1) /\ i \in Inner /\ s \in Nat
        /\ w = (IF k = s THEN u ELSE freq[s] + u) /\ w = (IF l = s THEN v ELSE freq[s] + v)
    BY <1>5, <1>6, <2>2, <2>3, <2>5, <2>6
  <2>8. freq[s] \in Nat
    BY <1>5, <2>6, <2>7
  <2>9. k = l /\ u = v
    <3>1. CASE k = s /\ l = s
      BY <2>7, <3>1
    <3>2. CASE k = s /\ l # s
      <4>1. w = u /\ w = freq[s] + v /\ u <= freq[s]
        BY <2>2, <2>7, <3>2
      <4> QED
        BY <2>2, <2>8, <4>1
    <3>3. CASE k # s /\ l = s
      <4>1. w = v /\ w = freq[s] + u /\ v <= freq[s]
        BY <2>2, <2>7, <3>3
      <4> QED
        BY <2>2, <2>8, <4>1
    <3>4. CASE k # s /\ l # s
      <4>1. k = l /\ w = freq[s] + u /\ w = freq[s] + v
        BY <2>7, <3>4
      <4> QED
        BY <2>2, <2>8, <4>1
    <3> QED
      BY <3>1, <3>2, <3>3, <3>4
  <2> QED
    BY <2>2, <2>9
<1>10. /\ IsFiniteSet(Units(freq, Inner))
       /\ Weight(freq, Leaves) \in Nat /\ Weight(freq, Rest) \in Nat
  <2> HIDE DEF Below, Inner, Rest
  <2> QED
    BY <1>3, UnitsFinite
<1>11. Weight(freq, Below) <= Weight(freq, Inner)
  <2>1. m \in [Units(freq, Below) -> Units(freq, Inner)]
    BY <1>8
  <2>2. \A x, y \in Units(freq, Below) : m[x] = m[y] => x = y
    BY <1>9
  <2> HIDE DEF m, Below, Inner
  <2> QED
    BY <1>10, <2>1, <2>2, InjCard DEF Weight
<1>12. freq[R] \in Nat
  BY <1>1, NodeIs
<1> HIDE DEF Below, Inner, Rest
<1> QED
  BY <1>4, <1>10, <1>11, <1>12
\* Half of each leaf's weight, rounded up: twice that is at most a unit more for
\* each of the codes.
LEMMA HalvesWeigh ==
    ASSUME Standing, NEW g,
           \A n \in 0 .. NChar - 1 : g[n] = (freq[NthLeaf(n)] + 1) \div 2
    PROVE  2 * Weight(g, 0 .. NChar - 1) <= Weight(freq, Leaves) + NChar
<1> DEFINE N == 0 .. NChar - 1
           U == Units(g, N)
           Odd == N \X {0}
           V(b, u) == 2 * (u - 1) + b + 1
           m == [y \in {0, 1} \X U |->
                   IF V(y[1], y[2][2]) <= freq[NthLeaf(y[2][1])]
                   THEN <<NthLeaf(y[2][1]), V(y[1], y[2][2])>> ELSE <<y[2][1], 0>>]
<1>1. /\ N \subseteq 0 .. T /\ Leaves \subseteq 0 .. T /\ IsFiniteSet(N) /\ Cardinality(N) = NChar
  <2>1. N \subseteq 0 .. T /\ IsFiniteSet(N)
    BY Sizes, FS_Interval
  <2>2. Cardinality(0 .. NChar - 1) = IF 0 > NChar - 1 THEN 0 ELSE NChar - 1 - 0 + 1
    BY Sizes, FS_Interval
  <2>3. Leaves \subseteq 0 .. T
    BY LeavesAre, Sizes DEF Nodes
  <2> QED
    BY <2>1, <2>2, <2>3, Sizes
<1>2. /\ IsFiniteSet(U) /\ Weight(g, N) \in Nat
      /\ IsFiniteSet(Units(freq, Leaves)) /\ Weight(freq, Leaves) \in Nat
  <2> HIDE DEF N
  <2> QED
    BY <1>1, UnitsFinite
<1>3. IsFiniteSet({0, 1} \X U) /\ Cardinality({0, 1} \X U) = 2 * Weight(g, N)
  <2>1. IsFiniteSet({0, 1}) /\ Cardinality({0, 1}) = 2
    <3>1. IsFiniteSet({0}) /\ Cardinality({0}) = 1 /\ 1 \notin {0}
      BY FS_Singleton
    <3>2. IsFiniteSet({0} \union {1}) /\ Cardinality({0} \union {1}) = 1 + 1
      BY <3>1, FS_AddElement
    <3>3. {0} \union {1} = {0, 1}
      OBVIOUS
    <3>4. Cardinality({0} \union {1}) = 2
      BY <3>2
    <3> QED
      BY <3>2, <3>3, <3>4, Zenon
  <2>2. Weight(g, N) = Cardinality(U)
    BY DEF Weight
  <2> HIDE DEF U
  <2> QED
    BY <1>2, <2>1, <2>2, FS_Product
<1>4. IsFiniteSet(Odd) /\ Cardinality(Odd) = NChar
  <2>1. IsFiniteSet({0}) /\ Cardinality({0}) = 1
    BY FS_Singleton
  <2> HIDE DEF N
  <2>2. IsFiniteSet(N \X {0}) /\ Cardinality(N \X {0}) = Cardinality(N) * 1
    BY <1>1, <2>1, FS_Product
  <2> QED
    BY <1>1, <2>2, Sizes
<1>5. /\ IsFiniteSet(Units(freq, Leaves) \union Odd)
      /\ Cardinality(Units(freq, Leaves) \union Odd) <= Weight(freq, Leaves) + NChar
  <2> HIDE DEF Odd
  <2>1. /\ IsFiniteSet(Units(freq, Leaves) \union Odd)
        /\ Cardinality(Units(freq, Leaves) \union Odd)
             = Weight(freq, Leaves) + NChar - Cardinality(Units(freq, Leaves) \cap Odd)
    BY <1>2, <1>4, FS_Union DEF Weight
  <2>2. Cardinality(Units(freq, Leaves) \cap Odd) \in Nat
    BY <1>2, FS_Intersection, FS_CardinalityType
  <2> QED
    BY <1>2, <2>1, <2>2, Sizes
<1>6. ASSUME NEW n \in N
      PROVE  /\ NthLeaf(n) \in Leaves /\ freq[NthLeaf(n)] \in Nat /\ freq[NthLeaf(n)] <= Sentinel
             /\ g[n] \in Nat /\ 2 * g[n] <= freq[NthLeaf(n)] + 1
  <2>1. NthLeaf(n) \in Leaves
    BY NthLeafIs
  <2>2. PICK x : x = freq[NthLeaf(n)]
    OBVIOUS
  <2>3. x \in 0 .. Sentinel
    BY <1>1, <2>1, <2>2 DEF Standing, TypeOK
  <2>4. x \in Nat /\ x <= Sentinel
    BY <2>3, Sizes
  <2>5. g[n] = (x + 1) \div 2
    BY <2>2
  <2>6. g[n] \in Nat /\ 2 * g[n] <= x + 1
    BY <2>4, <2>5
  <2> QED
    BY <2>1, <2>2, <2>4, <2>6
<1>7. ASSUME NEW y \in {0, 1} \X U
      PROVE  /\ y = <<y[1], <<y[2][1], y[2][2]>>>> /\ y[1] \in {0, 1} /\ y[2][1] \in N
             /\ y[2][2] \in Nat /\ 1 <= y[2][2] /\ y[2][2] <= g[y[2][1]]
  <2>1. y = <<y[1], y[2]>> /\ y[1] \in {0, 1} /\ y[2] \in U
    OBVIOUS
  <2>2. /\ y[2] = <<y[2][1], y[2][2]>> /\ y[2][1] \in N /\ y[2][2] \in 1 .. Sentinel
        /\ y[2][2] <= g[y[2][1]]
    <3> HIDE DEF N
    <3> QED
      BY <2>1, UnitsOf
  <2>3. \A u \in 1 .. Sentinel : u \in Nat /\ 1 <= u
    BY Sizes
  <2> QED
    BY <2>1, <2>2, <2>3
<1>8. ASSUME NEW y \in {0, 1} \X U
      PROVE  m[y] \in Units(freq, Leaves) \union Odd
  <2>1. PICK b, n, u, l, v : b = y[1] /\ n = y[2][1] /\ u = y[2][2] /\ l = NthLeaf(n) /\ v = V(b, u)
    OBVIOUS
  <2>2. b \in {0, 1} /\ n \in N /\ u \in Nat /\ 1 <= u /\ u <= g[n]
    BY <1>7, <2>1
  <2>3. v \in Nat /\ 1 <= v
    BY <2>1, <2>2
  <2>4. m[y] = IF v <= freq[l] THEN <<l, v>> ELSE <<n, 0>>
    BY <2>1
  <2>5. CASE v <= freq[l]
    <3>1. l \in Leaves /\ v \in 1 .. Sentinel
      <4>1. l \in Leaves /\ freq[l] \in Nat /\ freq[l] <= Sentinel
        BY <1>6, <2>1, <2>2
      <4> QED
        BY <2>3, <2>5, <4>1, Sizes
    <3>2. <<l, v>> \in Units(freq, Leaves)
      BY <2>5, <3>1, UnitIs
    <3> QED
      BY <2>4, <2>5, <3>2
  <2>6. CASE ~(v <= freq[l])
    BY <2>2, <2>4, <2>6
  <2> QED
    BY <2>5, <2>6
<1>9. ASSUME NEW y \in {0, 1} \X U, NEW z \in {0, 1} \X U, m[y] = m[z]
      PROVE  y = z
  <2>1. PICK b, n, u, l, v : b = y[1] /\ n = y[2][1] /\ u = y[2][2] /\ l = NthLeaf(n) /\ v = V(b, u)
    OBVIOUS
  <2>2. PICK bb, nn, uu, ll, vv : /\ bb = z[1] /\ nn = z[2][1] /\ uu = z[2][2]
                                  /\ ll = NthLeaf(nn) /\ vv = V(bb, uu)
    OBVIOUS
  <2>3. /\ b \in {0, 1} /\ n \in N /\ u \in Nat /\ 1 <= u /\ u <= g[n] /\ y = <<b, <<n, u>>>>
        /\ bb \in {0, 1} /\ nn \in N /\ uu \in Nat /\ 1 <= uu /\ uu <= g[nn] /\ z = <<bb, <<nn, uu>>>>
    BY <1>7, <2>1, <2>2
  <2>4. /\ v \in Nat /\ 1 <= v /\ v = 2 * (u - 1) + b + 1
        /\ vv \in Nat /\ 1 <= vv /\ vv = 2 * (uu - 1) + bb + 1
    <3>1. v = 2 * (u - 1) + b + 1 /\ vv = 2 * (uu - 1) + bb + 1
      BY <2>1, <2>2
    <3>2. /\ b \in {0, 1} /\ u \in Nat /\ 1 <= u /\ bb \in {0, 1} /\ uu \in Nat /\ 1 <= uu
      BY <2>3
    <3> QED
      BY <3>1, <3>2
  <2>5. (IF v <= freq[l] THEN <<l, v>> ELSE <<n, 0>>)
          = (IF vv <= freq[ll] THEN <<ll, vv>> ELSE <<nn, 0>>)
    BY <1>9, <2>1, <2>2
  <2>6. n = nn
    <3>1. CASE v <= freq[l]
      <4>1. l = ll
        BY <2>4, <2>5, <3>1
      <4> QED
        BY <2>1, <2>2, <2>3, <4>1, NthLeafIs
    <3>2. CASE ~(v <= freq[l])
      BY <2>4, <2>5, <3>2
    <3> QED
      BY <3>1, <3>2
  <2>7. /\ freq[l] \in Nat /\ g[n] \in Nat /\ 2 * g[n] <= freq[l] + 1 /\ l = ll
    BY <1>6, <2>1, <2>2, <2>3, <2>6
  <2>8. v = vv
    <3>1. CASE v <= freq[l]
      BY <2>4, <2>5, <3>1
    <3>2. CASE ~(v <= freq[l])
      <4>1. ~(vv <= freq[l])
        BY <2>4, <2>5, <2>7, <3>2
      <4>2. v <= 2 * g[n] /\ vv <= 2 * g[n]
        BY <2>3, <2>4, <2>6, <2>7
      <4> QED
        BY <2>4, <2>7, <3>2, <4>1, <4>2
    <3> QED
      BY <3>1, <3>2
  <2>9. b = bb /\ u = uu
    BY <2>3, <2>4, <2>8
  <2> QED
    BY <2>3, <2>6, <2>9
<1>10. Cardinality({0, 1} \X U) <= Cardinality(Units(freq, Leaves) \union Odd)
       /\ Cardinality(Units(freq, Leaves) \union Odd) \in Nat
  <2>1. m \in [{0, 1} \X U -> Units(freq, Leaves) \union Odd]
    BY <1>8
  <2>2. \A y, z \in {0, 1} \X U : m[y] = m[z] => y = z
    BY <1>9
  <2> HIDE DEF m, U, Odd
  <2> QED
    BY <1>5, <2>1, <2>2, InjCard
<1> HIDE DEF U, Odd
<1> QED
  BY <1>2, <1>3, <1>5, <1>10, Sizes
LEMMA GatherKeeps ==
    ASSUME IInv, Gather
    PROVE  IInv'
<1>1. /\ phase = "descend" /\ WholeTree /\ Standing /\ Weighed /\ TypeOK
      /\ c \in Links /\ c >= T /\ freq[R] = MaxFreq
      /\ sym' = c /\ j' = NChar /\ phase' = "connect" /\ UNCHANGED <<prnt, c, spent>>
  BY Stands DEF Gather, WholeTree, IInv, TypeOK
<1>2. Cardinality(Leaves) = NChar
  BY <1>1, LeavesAre
<1>3. /\ freq' = [i \in 0 .. T |-> IF i < NChar THEN (freq[NthLeaf(i)] + 1) \div 2 ELSE freq[i]]
      /\ son' = [i \in Nodes |-> IF i < NChar THEN son[NthLeaf(i)] ELSE son[i]]
  BY <1>2 DEF Gather
<1>4. PICK f, s : f = freq' /\ s = son'
  OBVIOUS
<1>5. \A i \in 0 .. T : freq[i] \in 0 .. Sentinel /\ freq[i] \in Nat /\ freq[i] >= 1
  <2>1. \A x \in 0 .. Sentinel : x \in Nat
    BY Sizes
  <2> QED
    BY <1>1, <2>1 DEF TypeOK, Standing, Positive
<1>6. ASSUME NEW n \in 0 .. NChar - 1
      PROVE  /\ n \in Nodes /\ n \in 0 .. T /\ n < NChar
             /\ f[n] = (freq[NthLeaf(n)] + 1) \div 2 /\ s[n] = son[NthLeaf(n)]
             /\ NthLeaf(n) \in Leaves /\ NthLeaf(n) \in Nodes /\ NthLeaf(n) \in 0 .. T
             /\ s[n] \in Codes
  <2>1. n \in Nodes /\ n \in 0 .. T /\ n < NChar
    BY Sizes DEF Nodes
  <2>2. NthLeaf(n) \in Leaves
    BY <1>1, NthLeafIs
  <2>3. NthLeaf(n) \in Nodes /\ son[NthLeaf(n)] \in Codes
    BY <1>1, <2>2, LeavesAre
  <2>4. \A i \in Nodes : i \in 0 .. T
    BY Sizes DEF Nodes
  <2> QED
    BY <1>3, <1>4, <2>1, <2>2, <2>3, <2>4
<1>7. ASSUME NEW i \in 0 .. T
      PROVE  f[i] \in 0 .. Sentinel /\ f[i] >= 1
  <2>1. CASE i < NChar
    <3>1. i \in 0 .. NChar - 1
      BY <2>1, Sizes
    <3>2. PICK x : x = freq[NthLeaf(i)]
      OBVIOUS
    <3>3. x \in 0 .. Sentinel /\ x >= 1 /\ f[i] = (x + 1) \div 2
      BY <1>5, <1>6, <3>1, <3>2
    <3>4. (x + 1) \div 2 \in Nat /\ (x + 1) \div 2 >= 1 /\ (x + 1) \div 2 <= x
          /\ x <= Sentinel /\ Sentinel \in Nat /\ x \in Nat
      BY <3>3, Sizes
    <3> QED
      BY <3>3, <3>4
  <2>2. CASE ~(i < NChar)
    BY <1>3, <1>4, <1>5, <2>2
  <2> QED
    BY <2>1, <2>2
<1>8. ASSUME NEW i \in Nodes
      PROVE  s[i] \in Links
  <2>1. CASE i < NChar
    <3>1. i \in 0 .. NChar - 1
      BY <2>1, Sizes DEF Nodes
    <3> QED
      BY <1>6, <3>1, Sizes DEF Codes, Links
  <2>2. CASE ~(i < NChar)
    BY <1>1, <1>3, <1>4, <2>2 DEF TypeOK
  <2> QED
    BY <2>1, <2>2
<1>9. TypeOK'
  <2>1. freq' \in [0 .. T -> 0 .. Sentinel] /\ son' \in [Nodes -> Links]
    BY <1>3, <1>4, <1>7, <1>8
  <2>2. freq'[R] <= MaxFreq /\ freq'[T] = Sentinel
    <3>1. R \in 0 .. T /\ ~(R < NChar) /\ T \in 0 .. T /\ ~(T < NChar)
      BY Sizes
    <3> QED
      BY <1>1, <1>3, <3>1 DEF TypeOK
  <2>3. c \in T .. T + NChar - 1 /\ NChar \in 0 .. T
    BY <1>1, Sizes DEF Links
  <2> QED
    BY <1>1, <2>1, <2>2, <2>3 DEF TypeOK
<1>10. Positive'
  BY <1>4, <1>7 DEF Positive
<1>11. Ordered'
  <2>1. ~WholeTree' /\ j' - 2 = NChar - 2
    BY <1>1 DEF WholeTree
  <2> SUFFICES ASSUME NEW i \in 0 .. NChar - 2
               PROVE  f[i] <= f[i + 1]
    BY <1>4, <2>1 DEF Ordered
  <2>2. i \in 0 .. NChar - 1 /\ i + 1 \in 0 .. NChar - 1 /\ i < i + 1
    BY Sizes
  <2>3. PICK a, b : a = NthLeaf(i) /\ b = NthLeaf(i + 1)
    OBVIOUS
  <2>4. a < b
    BY <1>1, <2>2, <2>3, NthLeafIs
  <2>5. /\ a \in Nodes /\ b \in Nodes /\ a \in 0 .. T /\ b \in 0 .. T
        /\ f[i] = (freq[a] + 1) \div 2 /\ f[i + 1] = (freq[b] + 1) \div 2
    BY <1>6, <2>2, <2>3
  <2>6. a <= b
    BY <2>4, <2>5
  <2>7. freq[a] <= freq[b]
    BY <1>1, <2>5, <2>6, InOrder
  <2>8. PICK x, y : x = freq[a] /\ y = freq[b]
    OBVIOUS
  <2>9. x \in Nat /\ y \in Nat /\ x <= y
    BY <1>5, <2>5, <2>7, <2>8
  <2>10. (x + 1) \div 2 <= (y + 1) \div 2
    BY <2>9
  <2> QED
    BY <2>5, <2>8, <2>10
<1>12. Pairs(NChar) = {} /\ Tail(NChar) = 0 .. NChar - 1
  <2>1. 0 .. NChar - NChar - 1 = {} /\ 2 * (NChar - NChar) = 0
    BY Sizes
  <2> QED
    BY <2>1 DEF Pairs, Tail
<1>13. Connected(s, NChar)
  <2>1. \A i \in 0 .. NChar - 1 : s[i] \in Codes
    BY <1>6
  <2>2. ASSUME NEW v \in Codes PROVE \E i \in 0 .. NChar - 1 : s[i] = v
    <3>1. PICK l \in Leaves : son[l] = v
      BY <1>1, LeavesAre
    <3>2. PICK n \in 0 .. NChar - 1 : NthLeaf(n) = l
      BY <1>1, NthLeafIs
    <3> QED
      BY <1>6, <3>1, <3>2
  <2>3. ASSUME NEW i \in 0 .. NChar - 1, NEW k \in 0 .. NChar - 1, s[i] = s[k]
        PROVE  i = k
    <3>1. NthLeaf(i) = NthLeaf(k)
      BY <1>1, <1>6, <2>3, LeavesAre
    <3> QED
      BY <1>1, <3>1, NthLeafIs
  <2> QED
    BY <1>12, <2>1, <2>2, <2>3 DEF Connected
<1>14. Summed(f, s, NChar)
  <2>1. \A v \in Codes : ~(v < T)
    BY Sizes DEF Codes
  <2> QED
    BY <1>6, <2>1 DEF Summed
<1>15. 2 * Weight(f, Tail(NChar)) <= MaxFreq + NChar
  <2>1. 2 * Weight(f, 0 .. NChar - 1) <= Weight(freq, Leaves) + NChar
    BY <1>1, <1>6, HalvesWeigh
  <2>2. Weight(freq, Leaves) <= MaxFreq
    BY <1>1, LeavesWeigh
  <2>3. Weight(freq, Leaves) \in Nat /\ Weight(f, 0 .. NChar - 1) \in Nat
    <3>1. Leaves \subseteq 0 .. T /\ 0 .. NChar - 1 \subseteq 0 .. T
      BY <1>1, LeavesAre, Sizes DEF Nodes
    <3> QED
      BY <3>1, UnitsFinite
  <2> QED
    BY <1>12, <2>1, <2>2, <2>3, Sizes
<1>16. Building'
  <2>1. prnt'[R] = 0 /\ j' >= NChar
    BY <1>1, Sizes DEF Standing
  <2>2. /\ Connected(son', j') /\ Summed(freq', son', j')
        /\ 2 * Weight(freq', Tail(j')) <= MaxFreq + NChar
    BY <1>1, <1>4, <1>13, <1>14, <1>15, Zenon
  <2> QED
    BY <2>1, <2>2 DEF Building
<1>17. Linked' /\ (WholeTree' => Fathered') /\ Climbing' /\ Descending'
  BY <1>1 DEF Linked, WholeTree, Climbing, Descending
<1> QED
  BY <1>9, <1>10, <1>11, <1>16, <1>17 DEF IInv
-----------------------------------------------------------------------------
(* The tree init$tree makes.                                               *)
StartRule(g, i) == g[i] = IF i = T THEN Sentinel
                          ELSE IF i < NChar THEN 1
                          ELSE g[2 * (i - NChar)] + g[2 * (i - NChar) + 1]

LEMMA PairBelow ==
    ASSUME NEW i \in NChar .. R
    PROVE  /\ 2 * (i - NChar) \in Nat /\ 2 * (i - NChar) \in 0 .. i - 1
           /\ 2 * (i - NChar) + 1 \in 0 .. i - 1
BY Sizes

LEMMA StartExists == \E g \in [0 .. T -> Nat] : \A i \in 0 .. T : StartRule(g, i)
<1> DEFINE Bad == {n \in 0 .. T : ~\E g \in [0 .. n -> Nat] : \A i \in 0 .. n : StartRule(g, i)}
<1>1. Bad = {}
  <2> SUFFICES ASSUME Bad # {} PROVE FALSE
    OBVIOUS
  <2>1. Bad \subseteq Nat
    BY Sizes
  <2>2. PICK n \in Bad : \A m \in Bad : n <= m
    <3> HIDE DEF Bad
    <3> QED
      BY <2>1, LeastOf
  <2>3. n \in 0 .. T /\ n \in Nat /\ ~\E g \in [0 .. n -> Nat] : \A i \in 0 .. n : StartRule(g, i)
    BY <2>1, <2>2
  <2>4. CASE n = 0
    <3>1. 0 # T /\ 0 < NChar /\ 0 .. 0 = {0}
      BY Sizes
    <3> DEFINE g == [i \in 0 .. 0 |-> 1]
    <3>2. g \in [0 .. 0 -> Nat] /\ \A i \in 0 .. 0 : StartRule(g, i)
      BY <3>1 DEF StartRule
    <3> QED
      BY <2>3, <2>4, <3>2
  <2>5. CASE n # 0
    <3>1. n - 1 \in 0 .. T /\ n - 1 \in Nat /\ ~(n <= n - 1)
      BY <2>3, <2>5, Sizes
    <3>2. n - 1 \notin Bad
      <4> HIDE DEF Bad
      <4> QED
        BY <2>2, <3>1
    <3>3. PICK g \in [0 .. n - 1 -> Nat] : \A i \in 0 .. n - 1 : StartRule(g, i)
      BY <3>1, <3>2
    <3> DEFINE e == IF n = T THEN Sentinel
                    ELSE IF n < NChar THEN 1
                    ELSE g[2 * (n - NChar)] + g[2 * (n - NChar) + 1]
               h == [i \in 0 .. n |-> IF i = n THEN e ELSE g[i]]
    <3>4. e \in Nat
      <4>1. CASE n # T /\ ~(n < NChar)
        <5>1. n \in NChar .. R
          BY <2>3, <4>1, Sizes
        <5>2. 2 * (n - NChar) \in 0 .. n - 1 /\ 2 * (n - NChar) + 1 \in 0 .. n - 1
          BY <5>1, PairBelow
        <5> QED
          BY <4>1, <5>2
      <4> QED
        BY <4>1, Sizes
    <3>5. \A i \in 0 .. n - 1 : h[i] = g[i]
      BY <3>1
    <3>6. h \in [0 .. n -> Nat]
      <4>1. \A i \in 0 .. n : i # n => i \in 0 .. n - 1
        BY <2>3
      <4> HIDE DEF e
      <4> QED
        BY <3>4, <4>1
    <3>7. ASSUME NEW i \in 0 .. n PROVE StartRule(h, i)
      <4>1. i \in Nat /\ i <= n /\ n <= T /\ i \in 0 .. T
        BY <2>3, Sizes
      <4>2. h[i] = IF i = T THEN Sentinel
                   ELSE IF i < NChar THEN 1
                   ELSE g[2 * (i - NChar)] + g[2 * (i - NChar) + 1]
        <5>1. CASE i = n
          BY <5>1
        <5>2. CASE i # n
          <6>1. i \in 0 .. n - 1
            BY <2>3, <4>1, <5>2
          <6> QED
            BY <3>3, <3>5, <6>1 DEF StartRule
        <5> QED
          BY <5>1, <5>2
      <4>3. CASE i # T /\ ~(i < NChar)
        <5>1. i \in NChar .. R
          BY <4>1, <4>3, Sizes
        <5>2. 2 * (i - NChar) \in 0 .. i - 1 /\ 2 * (i - NChar) + 1 \in 0 .. i - 1
          BY <5>1, PairBelow
        <5>3. 2 * (i - NChar) \in 0 .. n - 1 /\ 2 * (i - NChar) + 1 \in 0 .. n - 1
          BY <2>3, <4>1, <5>2
        <5> HIDE DEF h
        <5> QED
          BY <3>5, <4>2, <5>3 DEF StartRule
      <4>4. CASE ~(i # T /\ ~(i < NChar))
        <5> HIDE DEF h
        <5> QED
          BY <4>2, <4>4 DEF StartRule
      <4> QED
        BY <4>3, <4>4
    <3> HIDE DEF h
    <3> QED
      BY <2>3, <3>6, <3>7
  <2> QED
    BY <2>4, <2>5
<1> QED
  <2>1. T \in 0 .. T
    BY Sizes
  <2> QED
    BY <1>1, <2>1

LEMMA StartFreqIs ==
    StartFreq = [i \in 0 .. T |->
                   IF i = T THEN Sentinel
                   ELSE IF i < NChar THEN 1
                   ELSE StartFreq[2 * (i - NChar)] + StartFreq[2 * (i - NChar) + 1]]
<1>1. PICK g \in [0 .. T -> Nat] : \A i \in 0 .. T : StartRule(g, i)
  BY StartExists
<1>2. g = [i \in 0 .. T |-> IF i = T THEN Sentinel
                            ELSE IF i < NChar THEN 1
                            ELSE g[2 * (i - NChar)] + g[2 * (i - NChar) + 1]]
  <2>1. g = [i \in 0 .. T |-> g[i]]
    OBVIOUS
  <2> QED
    BY <1>1, <2>1 DEF StartRule
<1> QED
  BY <1>2 DEF StartFreq
\* The first n nodes of init$tree's tree.
StartsWell(n) ==
    /\ \A i \in 0 .. n - 1 : StartFreq[i] \in Nat /\ 1 <= StartFreq[i] /\ StartFreq[i] <= NChar
    /\ \A i \in 0 .. n - 2 : StartFreq[i] <= StartFreq[i + 1]
    /\ Weight(StartFreq, Tail(n)) <= NChar

LEMMA LeavesStart == StartsWell(NChar)
<1>1. \A i \in 0 .. NChar - 1 : StartFreq[i] = 1
  <2>1. \A i \in 0 .. NChar - 1 : i \in 0 .. T /\ i # T /\ i < NChar
    BY Sizes
  <2> QED
    BY <2>1, StartFreqIs
<1>2. Tail(NChar) = 0 .. NChar - 1
  <2>1. 2 * (NChar - NChar) = 0
    BY Sizes
  <2> QED
    BY <2>1 DEF Tail
<1>3. IsFiniteSet(0 .. NChar - 1) /\ Cardinality(0 .. NChar - 1) = NChar
  <2>1. Cardinality(0 .. NChar - 1) = IF 0 > NChar - 1 THEN 0 ELSE NChar - 1 - 0 + 1
    BY Sizes, FS_Interval
  <2> QED
    BY <2>1, Sizes, FS_Interval
<1>4. Weight(StartFreq, 0 .. NChar - 1) <= NChar
  <2> DEFINE N == 0 .. NChar - 1
             m == [x \in Units(StartFreq, N) |-> x[1]]
  <2>1. \A x \in Units(StartFreq, N) : x[1] \in N /\ x = <<x[1], 1>>
    <3> SUFFICES ASSUME NEW x \in Units(StartFreq, N)
                 PROVE  x[1] \in N /\ x = <<x[1], 1>>
      OBVIOUS
    <3>1. x = <<x[1], x[2]>> /\ x[1] \in N /\ x[2] \in 1 .. Sentinel /\ x[2] <= StartFreq[x[1]]
      <4> HIDE DEF N
      <4> QED
        BY UnitsOf
    <3>2. x[2] = 1
      BY <1>1, <3>1, Sizes
    <3> QED
      BY <3>1, <3>2
  <2>2. m \in [Units(StartFreq, N) -> N]
    BY <2>1
  <2>3. \A x, y \in Units(StartFreq, N) : m[x] = m[y] => x = y
    BY <2>1
  <2> HIDE DEF m
  <2>4. Cardinality(Units(StartFreq, N)) <= Cardinality(N)
    BY <1>3, <2>2, <2>3, InjCard
  <2> QED
    BY <1>3, <2>4 DEF Weight
<1> QED
  BY <1>1, <1>2, <1>4, Sizes DEF StartsWell

LEMMA NextStarts ==
    ASSUME NEW n \in NChar .. R, StartsWell(n)
    PROVE  StartsWell(n + 1)
<1>1. PICK p : p = 2 * (n - NChar)
  OBVIOUS
<1>2. /\ n \in Nat /\ NChar <= n /\ n <= R /\ n \in 0 .. T /\ n # T /\ ~(n < NChar)
      /\ p \in Nat /\ p \in 0 .. n - 1 /\ p + 1 \in 0 .. n - 1 /\ p + 2 <= n
  BY <1>1, PairBelow, Sizes
<1>3. StartFreq[n] = StartFreq[p] + StartFreq[p + 1]
  BY <1>1, <1>2, StartFreqIs
<1>4. /\ \A i \in 0 .. n - 1 : StartFreq[i] \in Nat /\ 1 <= StartFreq[i] /\ StartFreq[i] <= NChar
      /\ \A i \in 0 .. n - 2 : StartFreq[i] <= StartFreq[i + 1]
      /\ Weight(StartFreq, Tail(n)) <= NChar
  BY DEF StartsWell
<1>5. /\ Weight(StartFreq, Tail(n + 1)) <= Weight(StartFreq, Tail(n))
      /\ StartFreq[p] + StartFreq[p + 1] <= Weight(StartFreq, Tail(n))
  <2>1. n \in NChar .. T - 1 /\ n \in p + 2 .. n
    BY <1>2, Sizes
  <2>2. \A i \in 0 .. n - 1 : StartFreq[i] \in 0 .. Sentinel
    <3>1. NChar <= Sentinel
      BY Sizes
    <3> QED
      BY <1>4, <3>1, Sizes
  <2>3. n + 1 .. n = {}
    BY <1>2
  <2>4. /\ \A i \in p + 2 .. n - 1 : StartFreq[i] = StartFreq[i]
        /\ \A i \in n + 1 .. n : StartFreq[i] = StartFreq[i - 1]
    BY <2>3
  <2> QED
    BY <1>1, <1>3, <2>1, <2>2, <2>4, TailShrinks
<1>6. /\ Weight(StartFreq, Tail(n + 1)) \in Nat /\ Weight(StartFreq, Tail(n)) \in Nat
  <2>1. Tail(n) \subseteq 0 .. T /\ Tail(n + 1) \subseteq 0 .. T
    BY <1>2, Sizes DEF Tail
  <2> QED
    BY <2>1, UnitsFinite
<1>7. StartFreq[n] \in Nat /\ 1 <= StartFreq[n] /\ StartFreq[n] <= NChar
  <2>1. /\ StartFreq[p] \in Nat /\ 1 <= StartFreq[p]
        /\ StartFreq[p + 1] \in Nat /\ 1 <= StartFreq[p + 1]
    BY <1>2, <1>4
  <2> QED
    BY <1>3, <1>4, <1>5, <1>6, <2>1, Sizes
<1>8. StartFreq[n - 1] <= StartFreq[n]
  <2>1. CASE n = NChar
    <3>1. n - 1 \in 0 .. T /\ n - 1 # T /\ n - 1 < NChar
      BY <1>2, <2>1, Sizes
    <3>2. StartFreq[n - 1] = 1
      BY <3>1, StartFreqIs
    <3> QED
      BY <1>7, <3>2
  <2>2. CASE n # NChar
    <3>1. /\ n - 1 \in 0 .. T /\ n - 1 # T /\ ~(n - 1 < NChar)
          /\ 2 * (n - 1 - NChar) = p - 2 /\ p - 2 + 1 = p - 1
          /\ p - 2 \in 0 .. n - 2 /\ p - 1 \in 0 .. n - 2 /\ p \in 0 .. n - 2
          /\ p - 1 + 1 = p
      BY <1>1, <1>2, <2>2, Sizes
    <3>2. StartFreq[n - 1] = StartFreq[p - 2] + StartFreq[p - 1]
      <4>1. StartFreq[n - 1] = StartFreq[2 * (n - 1 - NChar)] + StartFreq[2 * (n - 1 - NChar) + 1]
        BY <3>1, StartFreqIs
      <4> QED
        BY <3>1, <4>1
    <3>3. /\ StartFreq[p - 2] <= StartFreq[p - 1] /\ StartFreq[p - 1] <= StartFreq[p]
          /\ StartFreq[p] <= StartFreq[p + 1]
      BY <1>4, <3>1
    <3>4. /\ p - 2 \in 0 .. n - 1 /\ p - 1 \in 0 .. n - 1
      BY <1>2, <3>1
    <3>5. /\ StartFreq[p - 2] \in Nat /\ StartFreq[p - 1] \in Nat
          /\ StartFreq[p] \in Nat /\ StartFreq[p + 1] \in Nat
      BY <1>2, <1>4, <3>4
    <3> QED
      BY <1>3, <3>2, <3>3, <3>5
  <2> QED
    BY <2>1, <2>2
<1>9. /\ \A i \in 0 .. (n + 1) - 1 : i = n \/ i \in 0 .. n - 1
      /\ \A i \in 0 .. (n + 1) - 2 : i = n - 1 \/ i \in 0 .. n - 2
      /\ n - 1 + 1 = n
  BY <1>2
<1>10. \A i \in 0 .. (n + 1) - 1 :
         StartFreq[i] \in Nat /\ 1 <= StartFreq[i] /\ StartFreq[i] <= NChar
  BY <1>4, <1>7, <1>9
<1>11. \A i \in 0 .. (n + 1) - 2 : StartFreq[i] <= StartFreq[i + 1]
  BY <1>4, <1>8, <1>9
<1>12. Weight(StartFreq, Tail(n + 1)) <= NChar
  BY <1>4, <1>5, <1>6, Sizes
<1> QED
  BY <1>10, <1>11, <1>12, Zenon DEF StartsWell

LEMMA AllStart == StartsWell(T)
<1> DEFINE Bad == {n \in NChar .. T : ~StartsWell(n)}
<1>1. Bad = {}
  <2> SUFFICES ASSUME Bad # {} PROVE FALSE
    OBVIOUS
  <2>1. Bad \subseteq Nat
    BY Sizes
  <2>2. PICK n \in Bad : \A m \in Bad : n <= m
    <3> HIDE DEF Bad
    <3> QED
      BY <2>1, LeastOf
  <2>3. n \in NChar .. T /\ n \in Nat /\ ~StartsWell(n) /\ n # NChar
    BY <2>1, <2>2, LeavesStart
  <2>4. PICK k : k = n - 1
    OBVIOUS
  <2>5. k \in NChar .. T /\ k \in NChar .. R /\ ~(n <= k) /\ k + 1 = n
    BY <2>3, <2>4, Sizes
  <2>6. StartsWell(k)
    <3>1. k \notin Bad
      <4> HIDE DEF Bad
      <4> QED
        BY <2>2, <2>5
    <3> QED
      BY <2>5, <3>1
  <2>7. StartsWell(k + 1)
    BY <2>5, <2>6, NextStarts
  <2> QED
    BY <2>3, <2>5, <2>7
<1>2. T \in NChar .. T
  BY Sizes
<1> QED
  BY <1>1, <1>2

LEMMA InitHolds == Init => IInv
<1> SUFFICES ASSUME Init PROVE IInv
  OBVIOUS
<1>1. /\ freq = StartFreq
      /\ son = [i \in Nodes |-> IF i < NChar THEN i + T ELSE 2 * (i - NChar)]
      /\ prnt = [k \in Links |-> IF k >= T THEN k - T
                                 ELSE IF k = R THEN 0 ELSE NChar + (k \div 2)]
      /\ phase = "idle" /\ c = 0 /\ j = 0 /\ sym = T /\ spent = FALSE
  BY DEF Init
<1>2. /\ \A i \in 0 .. R : freq[i] \in Nat /\ 1 <= freq[i] /\ freq[i] <= NChar
      /\ \A i \in 0 .. R - 1 : freq[i] <= freq[i + 1]
  <2>1. T - 1 = R /\ T - 2 = R - 1
    BY Sizes
  <2> QED
    BY <1>1, <2>1, AllStart DEF StartsWell
<1>3. freq[T] = Sentinel
  <2>1. T \in 0 .. T
    BY Sizes
  <2> QED
    BY <1>1, <2>1, StartFreqIs
<1>4. \A i \in 0 .. T : freq[i] \in 0 .. Sentinel /\ freq[i] >= 1
  <2>1. \A i \in 0 .. T : i \in 0 .. R \/ i = T
    BY Sizes
  <2>2. NChar <= Sentinel /\ 1 <= Sentinel
    BY Sizes
  <2> QED
    BY <1>2, <1>3, <2>1, <2>2, Sizes
<1>5. freq \in [0 .. T -> 0 .. Sentinel]
  <2>1. StartFreq = [i \in 0 .. T |-> StartFreq[i]]
    BY StartFreqIs
  <2> QED
    BY <1>1, <1>4, <2>1
<1>6. ASSUME NEW i \in Nodes
      PROVE  /\ i \in Nat /\ i <= R
             /\ i < NChar => son[i] = i + T /\ IsLeaf(i)
             /\ ~(i < NChar) => /\ son[i] = 2 * (i - NChar) /\ son[i] \in Nat
                                /\ son[i] + 1 < i /\ ~IsLeaf(i)
  <2>1. i \in Nat /\ i <= R
    BY Sizes DEF Nodes
  <2>2. CASE i < NChar
    <3>1. son[i] = i + T
      BY <1>1, <2>2
    <3> QED
      BY <2>1, <2>2, <3>1, Sizes DEF IsLeaf
  <2>3. CASE ~(i < NChar)
    <3>1. son[i] = 2 * (i - NChar)
      BY <1>1, <2>3
    <3> QED
      BY <2>1, <2>3, <3>1, Sizes DEF IsLeaf
  <2> QED
    BY <2>1, <2>2, <2>3
<1>7. ASSUME NEW i \in Nodes PROVE son[i] \in Links
  BY <1>6, Sizes DEF Links
<1>8. ASSUME NEW k \in Links
      PROVE  /\ k \in Nat /\ prnt[k] \in Nodes
             /\ k # R => k \in Kids(prnt[k])
  <2>1. k \in Nat /\ k <= T + NChar - 1
    BY Sizes DEF Links
  <2>2. CASE k >= T
    <3>1. prnt[k] = k - T
      BY <1>1, <2>2
    <3>2. prnt[k] \in Nodes /\ prnt[k] < NChar /\ prnt[k] + T = k
      BY <2>1, <2>2, <3>1, Sizes DEF Nodes
    <3> QED
      BY <1>6, <2>1, <3>2 DEF Kids
  <2>3. CASE k = R
    <3>1. prnt[k] = 0
      BY <1>1, <2>3, Sizes
    <3> QED
      BY <2>1, <2>3, <3>1, Sizes DEF Nodes
  <2>4. CASE ~(k >= T) /\ k # R
    <3>1. PICK h : h = k \div 2
      OBVIOUS
    <3>2. h \in Nat /\ (k = 2 * h \/ k = 2 * h + 1)
      BY <2>1, <3>1
    <3>3. prnt[k] = NChar + h
      BY <1>1, <2>4, <3>1
    <3>4. prnt[k] \in Nodes /\ ~(prnt[k] < NChar) /\ 2 * (prnt[k] - NChar) = 2 * h
      BY <2>1, <2>4, <3>2, <3>3, Sizes DEF Nodes
    <3> QED
      BY <1>6, <2>1, <3>2, <3>4 DEF Kids
  <2> QED
    BY <2>2, <2>3, <2>4
<1>9. ASSUME NEW i \in Nodes, NEW k \in Kids(i)
      PROVE  prnt[k] = i
  <2>1. CASE i < NChar
    <3>1. k = i + T /\ k \in Links /\ k >= T /\ k - T = i
      BY <1>6, <1>9, <2>1, Sizes DEF Kids, Links
    <3> QED
      BY <1>1, <3>1
  <2>2. CASE ~(i < NChar)
    <3>1. PICK h : h = i - NChar
      OBVIOUS
    <3>2. /\ h \in Nat /\ i = NChar + h /\ i <= R /\ 2 * h + 1 < i /\ (k = 2 * h \/ k = 2 * h + 1)
      BY <1>6, <1>9, <2>2, <3>1, Sizes DEF Kids
    <3>3. k \in Links /\ ~(k >= T) /\ k # R /\ k \div 2 = h
      BY <3>2, Sizes DEF Links
    <3> QED
      BY <1>1, <3>2, <3>3
  <2> QED
    BY <2>1, <2>2
<1>10. TypeOK
  <2>1. son \in [Nodes -> Links] /\ prnt \in [Links -> Nodes]
    BY <1>1, <1>7, <1>8
  <2>2. freq[R] <= MaxFreq
    BY <1>2, Sizes
  <2>3. c \in Links /\ j \in 0 .. T /\ sym \in T .. T + NChar - 1
    BY <1>1, Sizes DEF Links
  <2> QED
    BY <1>1, <1>3, <1>5, <2>1, <2>2, <2>3 DEF TypeOK
<1>11. Standing
  <2>1. Positive
    BY <1>4 DEF Positive
  <2>2. Fathered
    BY <1>8 DEF Fathered
  <2>3. prnt[R] = 0 /\ IsLeaf(0)
    <3>1. R \in Links /\ ~(R >= T) /\ 0 \in Nodes /\ 0 < NChar
      BY Sizes DEF Links, Nodes
    <3> QED
      BY <1>1, <1>6, <3>1
  <2>4. \A i \in Nodes : IsLeaf(i) \/ son[i] + 1 < i
    BY <1>6
  <2> QED
    BY <1>2, <1>9, <1>10, <2>1, <2>2, <2>3, <2>4 DEF Standing
<1>12. Weighed
  <2> SUFFICES ASSUME NEW i \in Nodes, ~IsLeaf(i)
               PROVE  freq[i] = freq[son[i]] + freq[son[i] + 1] - 0
    BY <1>1 DEF Weighed
  <2>1. /\ ~(i < NChar) /\ son[i] = 2 * (i - NChar) /\ i \in Nat /\ i <= R
        /\ son[i] \in Nat /\ son[i] + 1 < i
    BY <1>6
  <2>2. i \in 0 .. T /\ i # T /\ son[i] \in 0 .. R /\ son[i] + 1 \in 0 .. R
    BY <2>1, Sizes
  <2>3. freq[i] = freq[son[i]] + freq[son[i] + 1]
    BY <1>1, <2>1, <2>2, StartFreqIs
  <2> QED
    BY <1>2, <2>2, <2>3
<1>13. WholeTree /\ Climbing /\ Descending
  BY <1>1 DEF WholeTree, Climbing, Descending
<1> QED
  BY <1>11, <1>12, <1>13, Kept
-----------------------------------------------------------------------------
LEMMA StepKeeps == IInv /\ [Next]_vars => IInv'
<1> SUFFICES ASSUME IInv, [Next]_vars PROVE IInv'
  OBVIOUS
<1>1. CASE Decode
  BY <1>1, DecodeKeeps
<1>2. CASE Descend
  BY <1>2, DescendKeeps
<1>3. CASE Update
  BY <1>3, UpdateKeeps
<1>4. CASE Gather
  BY <1>4, GatherKeeps
<1>5. CASE Connect
  BY <1>5, ConnectKeeps
<1>6. CASE Reconnect
  BY <1>6, ReconnectKeeps
<1>7. CASE Climb
  BY <1>7, ClimbKeeps
<1>8. CASE InputEnds
  BY <1>8, InputEndsKeeps
<1>9. CASE UNCHANGED vars
  <2> USE <1>9 DEF vars
  <2>1. TypeOK' /\ Positive' /\ Ordered' /\ (WholeTree => Fathered)'
    BY DEF IInv, TypeOK, Positive, Ordered, WholeTree, Fathered, Kids, IsLeaf
  <2>2. Linked'
    BY DEF IInv, Linked, WholeTree, Weighed, Kids, IsLeaf
  <2>3. Building' /\ Climbing' /\ Descending'
    BY DEF IInv, Building, Connected, Summed, Weight, Units, Climbing, Descending, IsLeaf
  <2> QED
    BY <2>1, <2>2, <2>3 DEF IInv
<1> QED
  BY <1>1, <1>2, <1>3, <1>4, <1>5, <1>6, <1>7, <1>8, <1>9 DEF Next

(* The tree's inductive invariant: what the three invariants below say, and  *)
(* what holds it up while reconst runs: which links have found a father, and *)
(* how much weight is left to connect.                                       *)
THEOREM LzhInvariant == Spec => []IInv
<1>1. Init => IInv
  BY InitHolds
<1>2. IInv /\ [Next]_vars => IInv'
  BY StepKeeps
<1> QED
  BY <1>1, <1>2, PTL DEF Spec

(* For any number of codes and any limit above it, the root never grows past *)
(* max$freq, whose test in update$tree is for equality, and no node outgrows *)
(* the sentinel behind the root.                                             *)
THEOREM LzhTypes == Spec => []TypeOK
<1>1. IInv => TypeOK
  BY DEF IInv
<1> QED
  BY <1>1, LzhInvariant, PTL

(* No node is ever lighter than the one before it, in update$tree's loop and *)
(* in reconst's as well.                                                     *)
THEOREM LzhOrdered == Spec => []Ordered
<1>1. IInv => Ordered
  BY DEF IInv
<1> QED
  BY <1>1, LzhInvariant, PTL

(* The arrays son and prnt of a tree that is not being rebuilt are inverse   *)
(* to each other, sons lie below their fathers, and an inner node weighs     *)
(* what its sons weigh, up to where the climb has come.                      *)
THEOREM LzhLinked == Spec => []Linked
<1>1. IInv => Linked
  BY DEF IInv
<1> QED
  BY <1>1, LzhInvariant, PTL

(* update$tree counts the code that was decoded, once, and no other code     *)
(* gains or loses by the exchanges of nodes on the way up.                   *)
THEOREM LzhCountsOne == Spec => CountsOne
<1> DEFINE Counts == phase = "climb" =>
                       \A k \in T .. T + NChar - 1 :
                         LeafFreq(k)' = LeafFreq(k)
                                          + (IF k = sym /\ prnt[k] = c THEN 1 ELSE 0)
<1>1. IInv /\ [Next]_vars => [Counts]_vars
  <2> SUFFICES ASSUME IInv, Next, phase = "climb" PROVE Counts
    OBVIOUS
  <2>1. Climb
    BY DEF Next, Decode, Descend, Update, Gather, Connect, Reconnect, InputEnds
  <2>2. \A k \in Codes : LeafFreq(k)' = LeafFreq(k)
                                          + (IF k = sym /\ prnt[k] = c THEN 1 ELSE 0)
    BY <2>1, ClimbCounts
  <2> QED
    BY <2>2 DEF Codes
<1> QED
  BY <1>1, LzhInvariant, PTL DEF Spec, CountsOne
==============================================================================
