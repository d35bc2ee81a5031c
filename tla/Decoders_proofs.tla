--------------------------- MODULE Decoders_proofs ---------------------------
(***************************************************************************)
(* The decoders that both programs have, one after another.  Each has an   *)
(* invariant of its own, since the job that was picked stays.              *)
(***************************************************************************)
EXTENDS Decoders, FiniteSetTheorems, SequenceTheorems, WellFoundedInduction, TLAPS

\* A set of numbers that is not empty has a least one.
LEMMA LeastOf ==
    ASSUME NEW S, S \subseteq Nat, S # {}
    PROVE  \E m \in S : \A n \in S : m <= n
<1>1. PICK m \in S : \A n \in S : ~(<<n, m>> \in OpToRel(<, Nat))
  BY NatLessThanWellFounded, WFMin, Zenon
<1>2. \A n \in S : ~(n < m)
  BY <1>1 DEF OpToRel
<1> QED
  BY <1>2

\* Remainders, for a divisor that is a parameter.
LEMMA ModRange ==
    ASSUME NEW n \in Nat \ {0}, NEW x \in Int
    PROVE  x % n \in 0 .. n - 1
OBVIOUS

LEMMA ModParts ==
    ASSUME NEW n \in Nat \ {0}, NEW x \in Int
    PROVE  \E q \in Int, y \in 0 .. n - 1 : x = n * q + y /\ x % n = y /\ x \div n = q
<1> DEFINE q == x \div n
           y == x % n
<1>1. q \in Int /\ y \in 0 .. n - 1 /\ x = n * q + y
  OBVIOUS
<1> QED
  BY <1>1

LEMMA ModIs ==
    ASSUME NEW n \in Nat \ {0}, NEW q \in Int, NEW y \in 0 .. n - 1, NEW x, x = n * q + y
    PROVE  x % n = y /\ x \div n = q
OBVIOUS

LEMMA ModSmall ==
    ASSUME NEW n \in Nat \ {0}, NEW x \in Int
    PROVE  /\ x \in 0 .. n - 1 => x % n = x
           /\ x \in n .. 2 * n - 1 => x % n = x - n
           /\ x \in -n .. -1 => x % n = x + n
<1>1. x \in 0 .. n - 1 => x % n = x
  OBVIOUS
<1>2. x \in n .. 2 * n - 1 => x % n = x - n
  OBVIOUS
<1>3. x \in -n .. -1 => x % n = x + n
  OBVIOUS
<1> QED
  BY <1>1, <1>2, <1>3, Zenon

LEMMA ModOn ==
    ASSUME NEW n \in Nat \ {0}, NEW x \in Int, NEW k \in Int
    PROVE  ((x % n) + k) % n = (x + k) % n
<1> DEFINE y == x % n
           z == (y + k) % n
<1>1. PICK q \in Int : y \in 0 .. n - 1 /\ x = n * q + y
  <2>1. \E q \in Int, v \in 0 .. n - 1 : x = n * q + v /\ x % n = v
    BY ModParts, Zenon
  <2> QED
    BY <2>1
<1>2. y + k \in Int
  BY <1>1
<1>3. PICK t \in Int : z \in 0 .. n - 1 /\ y + k = n * t + z
  <2>1. \E t \in Int, v \in 0 .. n - 1 : y + k = n * t + v /\ (y + k) % n = v
    BY <1>2, ModParts, Zenon
  <2> QED
    BY <2>1
<1> HIDE DEF y, z
<1>4. PICK u \in Int : x + k = n * u + z
  <2>1. n * (q + t) = n * q + n * t /\ q + t \in Int
    BY <1>1, <1>3
  <2>2. x + k = n * (q + t) + z
    BY <1>1, <1>3, <2>1
  <2> QED
    BY <2>1, <2>2
<1>5. z \in 0 .. n - 1
  BY <1>3
<1>6. (x + k) % n = z
  BY <1>4, <1>5, ModIs
<1> QED
  BY <1>6 DEF y, z

\* Going round a ring of n.
LEMMA RoundRing ==
    ASSUME NEW n \in Nat \ {0}, NEW r \in 0 .. n - 1, NEW k \in 1 .. n
    PROVE  /\ k = 1 => (((r + 1) % n) - k) % n = r
           /\ k # 1 => /\ (((r + 1) % n) - k) % n = (r - (k - 1)) % n
                       /\ (r - (k - 1)) % n \in 0 .. n - 1 /\ (r - (k - 1)) % n # r
<1>1. (r + 1) % n = IF r + 1 = n THEN 0 ELSE r + 1
  BY ModSmall
<1>2. CASE k = 1
  BY <1>1, <1>2
<1>3. CASE k # 1
  <2>1. (r - (k - 1)) % n = IF k - 1 <= r THEN r - (k - 1) ELSE r - (k - 1) + n
    BY <1>3
  <2>2. CASE r + 1 = n
    <3>1. (((r + 1) % n) - k) % n = (-k) % n /\ -k \in -n .. -1
      BY <1>1, <2>2
    <3>2. (-k) % n = -k + n
      BY <3>1, ModSmall
    <3> QED
      BY <1>3, <2>1, <2>2, <3>1, <3>2
  <2>3. CASE r + 1 # n
    <3>1. (((r + 1) % n) - k) % n = (r - (k - 1)) % n
      BY <1>1, <2>3
    <3> QED
      BY <1>3, <2>1, <3>1
  <2> QED
    BY <2>2, <2>3
<1> QED
  BY <1>2, <1>3

LEMMA FollowRing ==
    ASSUME NEW n \in Nat \ {0}, NEW r \in 0 .. n - 1, NEW pos \in Nat
    PROVE  /\ (r - pos - 1) % n \in 0 .. n - 1
           /\ (((r - pos - 1) % n) + 1) % n = (((r + 1) % n) - pos - 1) % n
<1> DEFINE d == r - pos - 1
           u == (r + 1) % n
<1>1. d \in Int /\ r + 1 \in Int /\ -(pos + 1) \in Int
  OBVIOUS
<1>2. d % n \in 0 .. n - 1 /\ u \in 0 .. n - 1
  BY <1>1, ModRange, Zenon
<1>3. ((d % n) + 1) % n = (d + 1) % n
  <2>1. 1 \in Int
    OBVIOUS
  <2> QED
    BY <1>1, <2>1, ModOn, Zenon
<1>4. (u + (-(pos + 1))) % n = ((r + 1) + (-(pos + 1))) % n
  BY <1>1, ModOn, Zenon
<1>5. (r + 1) + (-(pos + 1)) = d + 1
  OBVIOUS
<1> HIDE DEF u
<1>6. u + (-(pos + 1)) = u - pos - 1
  BY <1>2
<1> QED
  BY <1>2, <1>3, <1>4, <1>5, <1>6 DEF u

\* The powers of two up to a limit.
LEMMA PowersAre ==
    ASSUME NEW top \in Nat, Powers(top), NEW a \in Nat, a <= top + 1
    PROVE  2 ^ a \in Nat \ {0}
<1>1. CASE a <= top
  BY <1>1 DEF Powers
<1>2. CASE a = top + 1
  <2>1. top \in 0 .. top
    OBVIOUS
  <2>2. 2 ^ top \in Nat \ {0} /\ 2 ^ (top + 1) = 2 * 2 ^ top
    BY <2>1 DEF Powers
  <2> QED
    BY <1>2, <2>2
<1> QED
  BY <1>1, <1>2

LEMMA PowersAdd ==
    ASSUME NEW top \in Nat, Powers(top), NEW a \in Nat, NEW b \in Nat, a + b <= top + 1
    PROVE  2 ^ (a + b) = 2 ^ a * 2 ^ b
<1> DEFINE Bad == {n \in 0 .. b : 2 ^ (a + n) # 2 ^ a * 2 ^ n}
<1>1. Bad = {}
  <2> SUFFICES ASSUME Bad # {} PROVE FALSE
    OBVIOUS
  <2>1. PICK n \in Bad : \A m \in Bad : n <= m
    <3>1. Bad \subseteq Nat
      OBVIOUS
    <3> HIDE DEF Bad
    <3> QED
      BY <3>1, LeastOf
  <2>2. n \in Nat /\ n <= b /\ 2 ^ (a + n) # 2 ^ a * 2 ^ n
    OBVIOUS
  <2>3. CASE n = 0
    <3>1. a + n = a /\ 2 ^ n = 1
      BY <2>2, <2>3 DEF Powers
    <3>2. 2 ^ a \in Nat
      BY PowersAre
    <3> QED
      BY <2>2, <3>1, <3>2
  <2>4. CASE n # 0
    <3>1. n - 1 \in 0 .. b /\ ~(n <= n - 1)
      BY <2>2, <2>4
    <3>2. 2 ^ (a + (n - 1)) = 2 ^ a * 2 ^ (n - 1)
      BY <2>1, <3>1
    <3>3. /\ a + (n - 1) \in 0 .. top /\ n - 1 \in 0 .. top /\ a \in 0 .. top
          /\ (a + (n - 1)) + 1 = a + n /\ (n - 1) + 1 = n
      BY <2>2, <2>4
    <3>4. 2 ^ (a + n) = 2 * 2 ^ (a + (n - 1)) /\ 2 ^ n = 2 * 2 ^ (n - 1)
      BY <3>3 DEF Powers
    <3>5. 2 ^ a \in Nat /\ 2 ^ (n - 1) \in Nat
      BY <3>3 DEF Powers
    <3>6. 2 * (2 ^ a * 2 ^ (n - 1)) = 2 ^ a * (2 * 2 ^ (n - 1))
      BY <3>5
    <3> QED
      BY <2>2, <3>2, <3>4, <3>6
  <2> QED
    BY <2>3, <2>4
<1>2. b \in 0 .. b
  OBVIOUS
<1> QED
  BY <1>1, <1>2
-----------------------------------------------------------------------------
(* The CrLZH ring.                                                         *)
Seen == LzhUsed \union {Space}
Rings == [0 .. N - 1 -> Seen]
LzhSides == [ring : Rings, r : 0 .. N - 1, i : 0 .. N - 1, left : Nat, out : Seq(Seen),
             done : BOOLEAN]
LzhKind == in \in [v2 : BOOLEAN, value : Int, count : Int] /\ py \in LzhSides
LzhInv == LzhKind /\ LzhWindow

\* The recursion for the first byte of each code has the values it says.
FirstRule(f, c) == f[c] = IF c = 0 THEN 0 ELSE f[c - 1] + 2 ^ (LzhByte - CodeLen[c - 1])

LEMMA LowTakesMost ==
    ASSUME NEW v2 \in BOOLEAN, NEW c \in Uppers
    PROVE  /\ LowBits[v2] \in Nat /\ LzhByte \in Nat /\ CodeLen[c] \in 0 .. LzhByte
           /\ LzhByte - CodeLen[c] \in 0 .. LowBits[v2]
           /\ 2 ^ LowBits[v2] \in Nat \ {0} /\ 2 ^ (LzhByte - CodeLen[c]) \in Nat \ {0}
           /\ Powers(LzhByte + LowBits[v2])
<1>1. /\ LowBits[v2] \in Nat /\ LzhByte \in Nat /\ CodeLen[c] \in 0 .. LzhByte
      /\ LzhByte - CodeLen[c] <= LowBits[v2] /\ Powers(LzhByte + LowBits[v2])
  BY CodesAssumption
<1>2. /\ LowBits[v2] \in 0 .. LzhByte + LowBits[v2]
      /\ LzhByte - CodeLen[c] \in 0 .. LzhByte + LowBits[v2]
  BY <1>1
<1> QED
  BY <1>1, <1>2 DEF Powers

\* The upper parts are numbers from 0 on.
LEMMA UppersAre ==
    /\ \E top \in Nat : top = Cardinality(Uppers) - 1 /\ Uppers = 0 .. top
    /\ Cardinality(Uppers) \in Nat
    /\ Uppers \subseteq Nat /\ \A c \in Uppers : c # 0 => c - 1 \in Uppers
<1>1. IsFiniteSet(Uppers) /\ Uppers # {} /\ Uppers = 0 .. Cardinality(Uppers) - 1
  BY CodesAssumption, Zenon
<1>2. Cardinality(Uppers) \in Nat /\ Cardinality(Uppers) # 0
  BY <1>1, FS_CardinalityType, FS_EmptySet
<1>3. PICK top \in Nat : top = Cardinality(Uppers) - 1
  BY <1>2
<1>4. Uppers = 0 .. top
  BY <1>1, <1>3
<1>5. \A c \in 0 .. top : c \in Nat /\ (c # 0 => c - 1 \in 0 .. top)
  BY <1>3
<1>6. Uppers \subseteq Nat /\ \A c \in Uppers : c # 0 => c - 1 \in Uppers
  BY <1>4, <1>5, Zenon
<1> QED
  BY <1>2, <1>3, <1>4, <1>6, Zenon

LEMMA FirstExists == \E g \in [Uppers -> Nat] : \A c \in Uppers : FirstRule(g, c)
<1>1. PICK top \in Nat : Uppers = 0 .. top
  BY UppersAre
<1> DEFINE Bad == {n \in 0 .. top : ~\E g \in [0 .. n -> Nat] : \A c \in 0 .. n : FirstRule(g, c)}
<1>2. Bad = {}
  <2> SUFFICES ASSUME Bad # {} PROVE FALSE
    OBVIOUS
  <2>1. Bad \subseteq Nat
    OBVIOUS
  <2>2. PICK n \in Bad : \A m \in Bad : n <= m
    <3> HIDE DEF Bad
    <3> QED
      BY <2>1, LeastOf
  <2>3. n \in 0 .. top /\ n \in Nat /\ ~\E g \in [0 .. n -> Nat] : \A c \in 0 .. n : FirstRule(g, c)
    BY <2>1, <2>2
  <2>4. CASE n = 0
    <3> DEFINE g == [c \in 0 .. 0 |-> 0]
    <3>1. g \in [0 .. 0 -> Nat] /\ \A c \in 0 .. 0 : FirstRule(g, c)
      BY DEF FirstRule
    <3> QED
      BY <2>3, <2>4, <3>1
  <2>5. CASE n # 0
    <3>1. n - 1 \in 0 .. top /\ n - 1 \in Nat /\ ~(n <= n - 1)
      BY <2>3, <2>5
    <3>2. n - 1 \notin Bad
      <4> HIDE DEF Bad
      <4> QED
        BY <2>2, <3>1
    <3>3. PICK g \in [0 .. n - 1 -> Nat] : \A c \in 0 .. n - 1 : FirstRule(g, c)
      BY <3>1, <3>2
    <3> DEFINE e == g[n - 1] + 2 ^ (LzhByte - CodeLen[n - 1])
               h == [c \in 0 .. n |-> IF c = n THEN e ELSE g[c]]
    <3>4. e \in Nat
      <4>1. 2 ^ (LzhByte - CodeLen[n - 1]) \in Nat
        BY <1>1, <3>1, LowTakesMost
      <4> QED
        BY <3>1, <4>1
    <3>5. \A c \in 0 .. n : c # n => c \in 0 .. n - 1
      BY <2>3
    <3>6. h \in [0 .. n -> Nat]
      <4> HIDE DEF e
      <4> QED
        BY <3>4, <3>5
    <3>7. ASSUME NEW c \in 0 .. n PROVE FirstRule(h, c)
      <4>1. CASE c = n
        <5>1. h[c] = e /\ h[c - 1] = g[n - 1]
          BY <2>3, <3>1, <4>1
        <5> QED
          BY <2>5, <4>1, <5>1 DEF FirstRule
      <4>2. CASE c # n
        <5>1. c \in 0 .. n - 1 /\ h[c] = g[c] /\ (c # 0 => h[c - 1] = g[c - 1])
          BY <2>3, <4>2
        <5> HIDE DEF h
        <5> QED
          BY <3>3, <5>1 DEF FirstRule
      <4> QED
        BY <4>1, <4>2
    <3> QED
      BY <2>3, <3>6, <3>7
  <2> QED
    BY <2>4, <2>5
<1>3. top \in 0 .. top
  OBVIOUS
<1> QED
  BY <1>1, <1>2, <1>3

LEMMA FirstOfIs == FirstOf \in [Uppers -> Nat] /\ \A c \in Uppers : FirstRule(FirstOf, c)
<1> DEFINE Rule(f) == f = [c \in Uppers |-> IF c = 0 THEN 0
                                            ELSE f[c - 1] + 2 ^ (LzhByte - CodeLen[c - 1])]
<1>1. PICK g \in [Uppers -> Nat] : \A c \in Uppers : FirstRule(g, c)
  BY FirstExists
<1>2. Rule(g)
  BY <1>1 DEF FirstRule
<1>3. FirstOf = CHOOSE f : Rule(f)
  BY DEF FirstOf
<1>4. Rule(FirstOf)
  <2> HIDE DEF Rule
  <2> QED
    BY <1>2, <1>3
<1>5. \A c \in Uppers : FirstRule(FirstOf, c)
  BY <1>4 DEF FirstRule
<1> DEFINE Bad == {c \in Uppers : FirstOf[c] \notin Nat}
<1>6. Bad = {}
  <2> SUFFICES ASSUME Bad # {} PROVE FALSE
    OBVIOUS
  <2>1. Uppers \subseteq Nat /\ \A c \in Uppers : c # 0 => c - 1 \in Uppers
    BY UppersAre
  <2>2. PICK c \in Bad : \A m \in Bad : c <= m
    <3>1. Bad \subseteq Nat
      BY <2>1
    <3> HIDE DEF Bad
    <3> QED
      BY <3>1, LeastOf
  <2>3. c \in Uppers /\ FirstOf[c] \notin Nat
    OBVIOUS
  <2>4. c # 0
    BY <1>5, <2>3 DEF FirstRule
  <2>5. c - 1 \in Uppers /\ ~(c <= c - 1)
    BY <2>1, <2>3, <2>4
  <2>6. FirstOf[c - 1] \in Nat
    BY <2>2, <2>5
  <2>7. 2 ^ (LzhByte - CodeLen[c - 1]) \in Nat
    BY <2>5, LowTakesMost
  <2>8. FirstOf[c] = FirstOf[c - 1] + 2 ^ (LzhByte - CodeLen[c - 1])
    BY <1>5, <2>3, <2>4 DEF FirstRule
  <2> QED
    BY <2>3, <2>6, <2>7, <2>8
<1>7. FirstOf = [c \in Uppers |-> FirstOf[c]]
  BY <1>4
<1> QED
  BY <1>5, <1>6, <1>7

\* A bigger power of two is a multiple of a smaller one, and so is the first byte
\* of a code of as many as the code begins.
Multiple(x, d) == \E q \in Nat : x = d * q

LEMMA PowerDivides ==
    ASSUME NEW top \in Nat, Powers(top), NEW a \in Nat, NEW b \in Nat, a <= b, b <= top + 1
    PROVE  Multiple(2 ^ b, 2 ^ a)
<1>1. b - a \in Nat /\ a + (b - a) = b /\ b - a <= top + 1
  OBVIOUS
<1>2. 2 ^ b = 2 ^ a * 2 ^ (b - a)
  BY <1>1, PowersAdd
<1>3. 2 ^ (b - a) \in Nat
  BY <1>1, PowersAre
<1> QED
  BY <1>2, <1>3 DEF Multiple

LEMMA FirstDivides ==
    ASSUME NEW v2 \in BOOLEAN, NEW c \in Uppers
    PROVE  Multiple(FirstOf[c], 2 ^ (LzhByte - CodeLen[c]))
<1> DEFINE Size(e) == 2 ^ (LzhByte - CodeLen[e])
           Bad == {e \in Uppers : ~Multiple(FirstOf[e], Size(e))}
<1>1. Bad = {}
  <2> SUFFICES ASSUME Bad # {} PROVE FALSE
    OBVIOUS
  <2>1. Uppers \subseteq Nat /\ \A e \in Uppers : e # 0 => e - 1 \in Uppers
    BY UppersAre
  <2>2. PICK e \in Bad : \A m \in Bad : e <= m
    <3>1. Bad \subseteq Nat
      BY <2>1
    <3> HIDE DEF Bad
    <3> QED
      BY <3>1, LeastOf
  <2>3. e \in Uppers /\ e \in Nat /\ ~Multiple(FirstOf[e], Size(e))
    BY <2>1
  <2>4. Size(e) \in Nat
    BY <2>3, LowTakesMost
  <2>5. e # 0
    <3>1. e = 0 => FirstOf[e] = 0
      BY <2>3, FirstOfIs DEF FirstRule
    <3>2. 0 = Size(e) * 0
      BY <2>4
    <3> HIDE DEF Size
    <3> QED
      BY <2>3, <3>1, <3>2 DEF Multiple
  <2>6. e - 1 \in Uppers /\ ~(e <= e - 1) /\ (e - 1) + 1 = e
    BY <2>1, <2>3, <2>5
  <2>7. Multiple(FirstOf[e - 1], Size(e - 1))
    BY <2>2, <2>6
  <2>8. Multiple(Size(e - 1), Size(e))
    <3>1. CodeLen[e - 1] <= CodeLen[e] /\ CodeLen[e] \in 0 .. LzhByte /\ CodeLen[e - 1] \in 0 .. LzhByte
      BY <2>3, <2>6, CodesAssumption
    <3>2. LzhByte \in Nat /\ LowBits[v2] \in Nat /\ Powers(LzhByte + LowBits[v2])
      BY CodesAssumption
    <3>3. /\ LzhByte - CodeLen[e] \in Nat /\ LzhByte - CodeLen[e - 1] \in Nat
          /\ LzhByte - CodeLen[e] <= LzhByte - CodeLen[e - 1]
          /\ LzhByte - CodeLen[e - 1] <= (LzhByte + LowBits[v2]) + 1
          /\ LzhByte + LowBits[v2] \in Nat
      BY <3>1, <3>2
    <3> QED
      BY <3>2, <3>3, PowerDivides
  <2>9. FirstOf[e] = FirstOf[e - 1] + Size(e - 1)
    BY <2>3, <2>5, FirstOfIs DEF FirstRule
  <2>10. Size(e - 1) \in Nat
    BY <2>6, LowTakesMost
  <2> HIDE DEF Size
  <2>11. PICK q \in Nat : FirstOf[e - 1] = Size(e - 1) * q
    BY <2>7 DEF Multiple
  <2>12. PICK t \in Nat : Size(e - 1) = Size(e) * t
    BY <2>8 DEF Multiple
  <2>13. FirstOf[e] = Size(e) * (t * q + t) /\ t * q + t \in Nat
    <3>1. FirstOf[e] = (Size(e) * t) * q + Size(e) * t
      BY <2>9, <2>11, <2>12
    <3>2. (Size(e) * t) * q + Size(e) * t = Size(e) * (t * q + t) /\ t * q + t \in Nat
      BY <2>4, <2>11, <2>12
    <3> QED
      BY <3>1, <3>2
  <2> QED
    BY <2>3, <2>13 DEF Multiple
<1> QED
  BY <1>1

\* Every byte begins with some code.
LEMMA EveryByteHasCode ==
    ASSUME NEW i \in LzhBytes
    PROVE  /\ D_CODE[i] \in Uppers /\ FirstOf[D_CODE[i]] <= i
           /\ i < FirstOf[D_CODE[i]] + 2 ^ (LzhByte - CodeLen[D_CODE[i]])
           /\ D_LEN[i] = CodeLen[D_CODE[i]]
<1> DEFINE Size(e) == 2 ^ (LzhByte - CodeLen[e])
           Ok(e) == FirstOf[e] <= i /\ i < FirstOf[e] + Size(e)
<1>1. PICK top \in Nat : Uppers = 0 .. top /\ FirstOf[top] + 1 = 2 ^ LzhByte
  <2>1. PICK top \in Nat : top = Cardinality(Uppers) - 1 /\ Uppers = 0 .. top
    BY UppersAre
  <2>2. FirstOf[Cardinality(Uppers) - 1] + 1 = 2 ^ LzhByte
    BY CodesAssumption, Zenon
  <2>3. FirstOf[top] + 1 = 2 ^ LzhByte
    BY <2>1, <2>2
  <2> QED
    BY <2>1, <2>3
<1>2. i \in Nat /\ i < 2 ^ LzhByte
  <2>1. 2 ^ LzhByte \in Nat
    <3>1. LzhByte \in Nat /\ LowBits[TRUE] \in Nat /\ Powers(LzhByte + LowBits[TRUE])
      <4>1. TRUE \in BOOLEAN
        OBVIOUS
      <4> QED
        BY <4>1, CodesAssumption
    <3>2. LzhByte + LowBits[TRUE] \in Nat /\ LzhByte <= (LzhByte + LowBits[TRUE]) + 1
      <4>1. \A x, y \in Nat : x + y \in Nat /\ x <= (x + y) + 1
        OBVIOUS
      <4> QED
        BY <3>1, <4>1, Zenon
    <3> QED
      BY <3>1, <3>2, PowersAre
  <2> QED
    BY <2>1 DEF LzhBytes, Bits
<1>3. \A e \in Uppers : FirstOf[e] \in Nat /\ Size(e) \in Nat \ {0}
  BY FirstOfIs, LowTakesMost
<1> DEFINE Far == {e \in Uppers : i < FirstOf[e] + Size(e)}
<1>4. \E e \in Uppers : Ok(e)
  <2>1. top \in Far
    <3>1. top \in Uppers
      BY <1>1
    <3>2. FirstOf[top] \in Nat /\ Size(top) \in Nat /\ Size(top) # 0
      BY <1>3, <3>1
    <3> HIDE DEF Size
    <3> QED
      BY <1>1, <1>2, <3>1, <3>2
  <2>2. PICK e \in Far : \A m \in Far : e <= m
    <3>1. Far \subseteq Nat
      BY <1>1
    <3> HIDE DEF Far
    <3> QED
      BY <2>1, <3>1, LeastOf
  <2>3. e \in Uppers /\ e \in Nat /\ i < FirstOf[e] + Size(e)
    BY <1>1
  <2>4. FirstOf[e] <= i
    <3>1. CASE e = 0
      <4>1. FirstOf[e] = 0
        BY <2>3, <3>1, FirstOfIs DEF FirstRule
      <4> QED
        BY <1>2, <4>1
    <3>2. CASE e # 0
      <4>1. e - 1 \in Uppers /\ ~(e <= e - 1)
        BY <1>1, <2>3, <3>2
      <4>2. ~(i < FirstOf[e - 1] + Size(e - 1))
        BY <2>2, <4>1
      <4>3. FirstOf[e] = FirstOf[e - 1] + Size(e - 1)
        BY <2>3, <3>2, FirstOfIs DEF FirstRule
      <4>4. FirstOf[e] \in Nat
        BY <1>3, <2>3
      <4> HIDE DEF Size
      <4> QED
        BY <1>2, <4>2, <4>3, <4>4
    <3> QED
      BY <3>1, <3>2
  <2> QED
    BY <2>3, <2>4
<1>5. D_CODE[i] = CHOOSE e \in Uppers : Ok(e)
  BY DEF D_CODE
<1>6. D_CODE[i] \in Uppers /\ Ok(D_CODE[i])
  <2> HIDE DEF Ok
  <2> QED
    BY <1>4, <1>5
<1> QED
  BY <1>6 DEF D_LEN

LEMMA LowSizes == ASSUME LzhKind PROVE Low \in Nat /\ 2 ^ Low * Cardinality(Uppers) \in Nat
<1>1. Low \in Nat /\ 2 ^ Low \in Nat
  <2>1. in.v2 \in BOOLEAN /\ Uppers # {}
    BY CodesAssumption DEF LzhKind
  <2> QED
    BY <2>1, LowTakesMost DEF Low
<1>2. Cardinality(Uppers) \in Nat
  BY UppersAre
<1> QED
  BY <1>1, <1>2

\* What a position is made of: i is the first byte of the code of c and what the
\* byte has left, which are the first bits of the lower part; more are the rest.
LEMMA PositionIs ==
    ASSUME LzhKind, NEW i \in LzhBytes, NEW more \in Bits(Further(i))
    PROVE  LET pos == Position(i, more)
               c == pos \div 2 ^ Low
           IN  /\ pos \in Nat /\ Further(i) \in Nat /\ LzhByte \in Nat
               /\ i * 2 ^ Further(i) + more \in Nat
               /\ pos \in 0 .. 2 ^ Low * Cardinality(Uppers) - 1
               /\ CodeLen[c] + Low = LzhByte + Further(i)
               /\ i * 2 ^ Further(i) + more
                    = (FirstOf[c] \div 2 ^ (LzhByte - CodeLen[c])) * 2 ^ Low + (pos % 2 ^ Low)
<1> DEFINE c == D_CODE[i]
           left == LzhByte - CodeLen[c]
           low == Low
           further == Further(i)
           P == 2 ^ low
           S == 2 ^ left
           W == 2 ^ further
<1>1. in.v2 \in BOOLEAN /\ low = LowBits[in.v2]
  BY DEF LzhKind, Low
<1>2. /\ c \in Uppers /\ FirstOf[c] <= i /\ i < FirstOf[c] + S /\ D_LEN[i] = CodeLen[c]
  BY EveryByteHasCode
<1>3. /\ low \in Nat /\ LzhByte \in Nat /\ CodeLen[c] \in 0 .. LzhByte /\ left \in 0 .. low
      /\ Powers(LzhByte + low)
  BY <1>1, <1>2, LowTakesMost
<1>4. further = low - left /\ further \in Nat
  BY <1>2, <1>3 DEF Further
<1>5. P \in Nat \ {0} /\ S \in Nat \ {0} /\ W \in Nat \ {0} /\ P = S * W
  <2>1. /\ LzhByte + low \in Nat /\ left \in Nat /\ left + further = low
        /\ low <= (LzhByte + low) + 1 /\ left <= (LzhByte + low) + 1 /\ further <= (LzhByte + low) + 1
    BY <1>3, <1>4
  <2> HIDE DEF left, low, further
  <2>2. 2 ^ low \in Nat \ {0} /\ 2 ^ left \in Nat \ {0} /\ 2 ^ further \in Nat \ {0}
    BY <1>3, <1>4, <2>1, PowersAre
  <2>3. 2 ^ (left + further) = 2 ^ left * 2 ^ further
    BY <1>3, <1>4, <2>1, PowersAdd
  <2> QED
    BY <2>1, <2>2, <2>3
<1>6. FirstOf[c] \in Nat /\ i \in Nat
  <2>1. FirstOf[c] \in Nat /\ i \in Int
    BY <1>2, FirstOfIs DEF LzhBytes, Bits
  <2> QED
    BY <1>2, <2>1
<1>7. PICK q \in Nat : FirstOf[c] = S * q
  BY <1>1, <1>2, FirstDivides DEF Multiple
<1>8. more \in Int /\ 0 <= more /\ more < W
  BY <1>4, <1>5 DEF Bits
<1> DEFINE rem == i - FirstOf[c]
           y == rem * W + more
<1>9. rem \in 0 .. S - 1
  BY <1>2, <1>5, <1>6
<1>10. W \in Nat /\ S \in Nat /\ P \in Nat
  BY <1>5
<1>11. PICK uppers \in Nat : uppers = Cardinality(Uppers) /\ c \in 0 .. uppers - 1
  <2>1. Cardinality(Uppers) \in Nat
    BY UppersAre
  <2>2. Uppers = 0 .. Cardinality(Uppers) - 1
    BY CodesAssumption, Zenon
  <2> QED
    BY <1>2, <2>1, <2>2
<1>12. Position(i, more) = c * P + ((i * W + more) % P)
  BY DEF Position
<1> HIDE DEF c, left, low, further, P, S, W, rem
<1>13. y \in 0 .. P - 1
  <2>1. y \in Nat
    BY <1>8, <1>9, <1>10
  <2>2. rem * W + W <= S * W
    <3>1. PICK d \in Nat : S = rem + 1 + d
      BY <1>9, <1>10
    <3>2. S * W = rem * W + W + d * W /\ d * W >= 0
      BY <1>9, <1>10, <3>1
    <3>3. rem * W \in Nat /\ d * W \in Nat
      BY <1>9, <1>10, <3>1
    <3> QED
      BY <1>10, <3>2, <3>3
  <2>3. rem * W \in Nat
    BY <1>9, <1>10
  <2> QED
    BY <1>5, <1>8, <1>10, <2>1, <2>2, <2>3
<1>14. i * W + more = P * q + y
  <2>1. i = S * q + rem
    BY <1>6, <1>7 DEF rem
  <2>2. i * W = (S * q) * W + rem * W
    BY <1>7, <1>9, <1>10, <2>1
  <2>3. (S * q) * W = (S * W) * q
    BY <1>7, <1>10
  <2> QED
    BY <1>5, <1>8, <1>9, <1>10, <2>2, <2>3
<1> HIDE DEF y
<1>15. (i * W + more) % P = y
  <2>1. P \in Nat \ {0} /\ q \in Int
    BY <1>5, <1>7
  <2> QED
    BY <1>13, <1>14, <2>1, ModIs, Zenon
<1> DEFINE pos == Position(i, more)
<1>16. pos = P * c + y /\ c \in Nat /\ c * P = P * c
  BY <1>10, <1>11, <1>12, <1>13, <1>15
<1> HIDE DEF pos
<1>17. pos % P = y /\ pos \div P = c
  <2>1. P \in Nat \ {0} /\ c \in Int
    BY <1>5, <1>16
  <2> QED
    BY <1>13, <1>16, <2>1, ModIs, Zenon
<1>18. pos \in 0 .. P * uppers - 1
  <2>1. PICK d \in Nat : uppers = c + 1 + d
    BY <1>11
  <2>2. P * uppers = P * c + P + P * d
    BY <1>10, <1>16, <2>1
  <2>3. P * c \in Nat /\ P * d \in Nat
    BY <1>10, <1>16, <2>1
  <2> QED
    BY <1>10, <1>13, <1>16, <2>2, <2>3
<1>19. FirstOf[c] \div S = q
  <2>1. 0 \in 0 .. S - 1
    BY <1>5
  <2>2. FirstOf[c] = S * q + 0
    BY <1>7, <1>10
  <2> QED
    BY <1>5, <1>7, <2>1, <2>2, ModIs
<1>20. i * W + more = (FirstOf[c] \div S) * P + (pos % P)
  BY <1>7, <1>10, <1>14, <1>17, <1>19
<1>21. CodeLen[c] + low = LzhByte + further
  BY <1>3, <1>4 DEF left
<1>22. pos \in Nat /\ i * W + more \in Nat
  BY <1>6, <1>7, <1>8, <1>10, <1>13, <1>14, <1>16
<1> QED
  BY <1>3, <1>4, <1>11, <1>17, <1>18, <1>20, <1>21, <1>22 DEF pos, P, S, W, left, low, further
-----------------------------------------------------------------------------
LEMMA LzhInit == ASSUME LzhStart PROVE LzhInv
<1>1. PICK version \in {31, 32, 33} :
        /\ in = [v2 |-> version >= 32, value |-> 0, count |-> 0]
        /\ py = [ring |-> [i \in 0 .. N - 1 |-> Space], r |-> N - F, i |-> 0, left |-> 0,
                 out |-> <<>>, done |-> version >= 33]
  BY DEF LzhStart
<1>2. N \in Nat \ {0} /\ N - F \in 0 .. N - 1 /\ 0 \in 0 .. N - 1
  BY LzhAssumption
<1>3. LzhKind
  <2>1. (version >= 32) \in BOOLEAN /\ (version >= 33) \in BOOLEAN
    OBVIOUS
  <2>2. <<>> \in Seq(Seen) /\ [i \in 0 .. N - 1 |-> Space] \in [0 .. N - 1 -> Seen]
    BY DEF Seen
  <2> QED
    BY <1>1, <1>2, <2>1, <2>2 DEF LzhKind
<1>4. RingIsOutput
  <2> SUFFICES ASSUME NEW k \in 1 .. N PROVE py.ring[(py.r - k) % N] = Ago(k)
    BY DEF RingIsOutput
  <2>1. (py.r - k) % N \in 0 .. N - 1
    <3>1. py.r - k \in Int
      BY <1>1, <1>2
    <3> QED
      BY <1>2, <3>1, ModRange, Zenon
  <2>2. Ago(k) = Space
    BY <1>1, <1>2 DEF Ago
  <2> QED
    BY <1>1, <2>1, <2>2
<1>5. ~(py.left > 0)
  BY <1>1
<1> QED
  BY <1>3, <1>4, <1>5 DEF LzhInv, LzhWindow

\* A byte written is one byte ago, and every other byte one more.
Puts(b) == /\ py'.ring = [py.ring EXCEPT ![py.r] = b] /\ py'.r = (py.r + 1) % N
           /\ py'.out = Append(py.out, b)

LEMMA WrittenKeeps ==
    ASSUME LzhKind, RingIsOutput, NEW b \in Seen, Puts(b)
    PROVE  RingIsOutput'
<1>1. /\ py.ring \in [0 .. N - 1 -> Seen] /\ py.r \in 0 .. N - 1 /\ py.out \in Seq(Seen)
      /\ N \in Nat \ {0}
  BY LzhAssumption DEF LzhKind, LzhSides, Rings
<1>2. Len(py'.out) = Len(py.out) + 1 /\ py'.out[Len(py.out) + 1] = b
      /\ \A m \in 1 .. Len(py.out) : py'.out[m] = py.out[m]
  BY <1>1 DEF Puts
<1>3. /\ py'.ring[py.r] = b /\ \A at \in 0 .. N - 1 : at # py.r => py'.ring[at] = py.ring[at]
      /\ py'.r = (py.r + 1) % N
  BY <1>1 DEF Puts
<1> SUFFICES ASSUME NEW k \in 1 .. N PROVE py'.ring[(py'.r - k) % N] = Ago(k)'
  BY DEF RingIsOutput
<1>4. /\ k = 1 => (py'.r - k) % N = py.r
      /\ k # 1 => /\ (py'.r - k) % N = (py.r - (k - 1)) % N
                  /\ (py.r - (k - 1)) % N \in 0 .. N - 1 /\ (py.r - (k - 1)) % N # py.r
  <2>1. /\ k = 1 => (((py.r + 1) % N) - k) % N = py.r
        /\ k # 1 => /\ (((py.r + 1) % N) - k) % N = (py.r - (k - 1)) % N
                    /\ (py.r - (k - 1)) % N \in 0 .. N - 1 /\ (py.r - (k - 1)) % N # py.r
    BY <1>1, RoundRing, Zenon
  <2> QED
    BY <1>3, <2>1, Zenon
<1>5. Ago(k)' = IF k <= Len(py'.out) THEN py'.out[Len(py'.out) + 1 - k] ELSE Space
  BY DEF Ago
<1>6. Len(py.out) \in Nat
  BY <1>1
<1>7. CASE k = 1
  <2>1. Ago(k)' = b
    BY <1>2, <1>5, <1>6, <1>7
  <2> QED
    BY <1>3, <1>4, <1>7, <2>1
<1>8. CASE k # 1
  <2> DEFINE at == (py.r - (k - 1)) % N
  <2>1. k \in Nat /\ 1 <= k - 1 /\ k - 1 <= N /\ k - 1 \in 1 .. N
    BY <1>1, <1>8
  <2>2. py'.ring[at] = py.ring[at]
    BY <1>3, <1>4, <1>8
  <2>3. py.ring[at] = Ago(k - 1)
    BY <2>1 DEF RingIsOutput
  <2>4. Ago(k)' = Ago(k - 1)
    <3>1. Ago(k - 1) = IF k - 1 <= Len(py.out) THEN py.out[Len(py.out) + 1 - (k - 1)] ELSE Space
      BY DEF Ago
    <3>2. CASE k - 1 <= Len(py.out)
      <4>1. /\ k <= Len(py'.out) /\ Len(py'.out) + 1 - k = Len(py.out) + 1 - (k - 1)
            /\ Len(py.out) + 1 - (k - 1) \in 1 .. Len(py.out)
        BY <1>2, <1>6, <2>1, <3>2
      <4> QED
        BY <1>2, <1>5, <3>1, <3>2, <4>1
    <3>3. CASE ~(k - 1 <= Len(py.out))
      <4>1. ~(k <= Len(py'.out))
        BY <1>2, <1>6, <2>1, <3>3
      <4> QED
        BY <1>5, <3>1, <3>3, <4>1
    <3> QED
      BY <3>2, <3>3
  <2> QED
    BY <1>4, <1>8, <2>2, <2>3, <2>4
<1> QED
  BY <1>7, <1>8

LEMMA RingStays ==
    ASSUME RingIsOutput, py'.ring = py.ring, py'.r = py.r, py'.out = py.out
    PROVE  RingIsOutput'
<1> SUFFICES ASSUME NEW k \in 1 .. N PROVE py'.ring[(py'.r - k) % N] = Ago(k)'
  BY DEF RingIsOutput
<1>1. Ago(k)' = Ago(k)
  BY Zenon DEF Ago
<1>2. py.ring[(py.r - k) % N] = Ago(k)
  BY DEF RingIsOutput
<1> QED
  BY <1>1, <1>2, Zenon

LEMMA WrittenIs ==
    ASSUME LzhKind, NEW b \in Seen
    PROVE  /\ Written(b) \in LzhSides
           /\ Written(b).ring = [py.ring EXCEPT ![py.r] = b] /\ Written(b).r = (py.r + 1) % N
           /\ Written(b).out = Append(py.out, b) /\ Written(b).i = py.i
           /\ Written(b).left = py.left /\ Written(b).done = py.done
<1> DEFINE r == (py.r + 1) % N
           out == Append(py.out, b)
           ring == [py.ring EXCEPT ![py.r] = b]
<1>1. /\ py \in LzhSides /\ N \in Nat \ {0}
      /\ py.ring \in Rings /\ py.r \in 0 .. N - 1 /\ py.out \in Seq(Seen)
  BY LzhAssumption DEF LzhKind, LzhSides
<1>2. r \in 0 .. N - 1
  <2>1. py.r + 1 \in Int
    BY <1>1
  <2> QED
    BY <1>1, <2>1, ModRange, Zenon
<1>3. out \in Seq(Seen) /\ ring \in Rings
  BY <1>1 DEF Rings
<1>4. Written(b) = [py EXCEPT !.out = out, !.ring = ring, !.r = r]
  BY <1>1 DEF Written, LzhSides
<1> HIDE DEF r, out, ring
<1>5. /\ Written(b) \in LzhSides /\ Written(b).ring = ring /\ Written(b).r = r /\ Written(b).out = out
      /\ Written(b).i = py.i /\ Written(b).left = py.left /\ Written(b).done = py.done
  BY <1>1, <1>2, <1>3, <1>4 DEF LzhSides
<1> QED
  BY <1>5 DEF r, out, ring

LEMMA LzhStep == ASSUME LzhInv, LzhNext PROVE LzhInv'
<1>1. /\ in \in [v2 : BOOLEAN, value : Int, count : Int] /\ py \in LzhSides
      /\ py.r \in 0 .. N - 1 /\ py.i \in 0 .. N - 1 /\ py.left \in Nat /\ N \in Nat \ {0}
      /\ LzhKind /\ RingIsOutput
  BY LzhAssumption DEF LzhInv, LzhWindow, LzhKind, LzhSides
<1>2. CASE LzhLiteral
  <2>1. PICK b \in LzhUsed : py' = Written(b)
    BY <1>2 DEF LzhLiteral
  <2>2. in' = in /\ py.left = 0 /\ b \in Seen
    BY <1>2 DEF LzhLiteral, LzhReads, Seen
  <2>3. Puts(b) /\ py' \in LzhSides /\ py'.left = 0
    BY <1>1, <2>1, <2>2, WrittenIs DEF Puts
  <2>4. RingIsOutput'
    BY <1>1, <2>2, <2>3, WrittenKeeps
  <2>5. LzhKind' /\ ~(py'.left > 0)
    BY <1>1, <2>2, <2>3 DEF LzhKind
  <2> QED
    BY <2>4, <2>5 DEF LzhInv, LzhWindow
<1>3. CASE LzhMatch
  <2>1. PICK length \in THRESHOLD + 1 .. F, i \in LzhBytes : \E more \in Bits(Further(i)) :
          /\ py' = [py EXCEPT !.left = length, !.i = (py.r - Position(i, more) - 1) % N]
          /\ in' = [in EXCEPT !.value = i * 2 ^ Further(i) + more, !.count = LzhByte + Further(i)]
    BY <1>3 DEF LzhMatch
  <2>2. PICK more \in Bits(Further(i)) :
          /\ py' = [py EXCEPT !.left = length, !.i = (py.r - Position(i, more) - 1) % N]
          /\ in' = [in EXCEPT !.value = i * 2 ^ Further(i) + more, !.count = LzhByte + Further(i)]
    BY <2>1
  <2>3. PICK pos \in 0 .. 2 ^ Low * Cardinality(Uppers) - 1, low \in Nat, further \in Nat :
          /\ pos \in Nat /\ LzhByte \in Nat /\ i * 2 ^ further + more \in Nat
          /\ pos = Position(i, more) /\ low = Low /\ further = Further(i)
          /\ CodeLen[pos \div 2 ^ low] + low = LzhByte + further
          /\ i * 2 ^ further + more
               = (FirstOf[pos \div 2 ^ low] \div 2 ^ (LzhByte - CodeLen[pos \div 2 ^ low])) * 2 ^ low
                   + (pos % 2 ^ low)
    <3> DEFINE at == Position(i, more)
    <3>1. /\ at \in Nat /\ Further(i) \in Nat /\ LzhByte \in Nat
          /\ i * 2 ^ Further(i) + more \in Nat
          /\ at \in 0 .. 2 ^ Low * Cardinality(Uppers) - 1
          /\ CodeLen[at \div 2 ^ Low] + Low = LzhByte + Further(i)
          /\ i * 2 ^ Further(i) + more
               = (FirstOf[at \div 2 ^ Low] \div 2 ^ (LzhByte - CodeLen[at \div 2 ^ Low])) * 2 ^ Low
                   + (at % 2 ^ Low)
      BY <1>1, PositionIs, Zenon
    <3>2. Low \in Nat
      BY <1>1, LowSizes
    <3> USE <3>1, <3>2
    <3> WITNESS at \in 0 .. 2 ^ Low * Cardinality(Uppers) - 1, Low \in Nat, Further(i) \in Nat
    <3> QED
      BY Zenon
  <2> DEFINE from == (py.r - pos - 1) % N
             value == i * 2 ^ further + more
  <2>4. from \in 0 .. N - 1 /\ length \in Nat /\ value \in Int /\ LzhByte + further \in Int
    <3>1. from \in 0 .. N - 1
      BY <1>1, <2>3, FollowRing, Zenon
    <3>2. length \in Nat
      BY LzhAssumption
    <3> QED
      BY <2>3, <3>1, <3>2
  <2>5. /\ py' = [py EXCEPT !.left = length, !.i = from]
        /\ in' = [in EXCEPT !.value = value, !.count = LzhByte + further]
    BY <2>2, <2>3
  <2> HIDE DEF from, value
  <2>6. /\ py' \in LzhSides /\ py'.ring = py.ring /\ py'.r = py.r /\ py'.out = py.out
        /\ py'.left = length /\ py'.i = from
    BY <1>1, <2>4, <2>5 DEF LzhSides
  <2>7. /\ in' \in [v2 : BOOLEAN, value : Int, count : Int] /\ in'.v2 = in.v2
        /\ in'.value = value /\ in'.count = LzhByte + further
    BY <1>1, <2>4, <2>5
  <2>8. Low' = low
    BY <2>3, <2>7 DEF Low
  <2>9. Coded(pos)'
    BY <2>3, <2>7, <2>8 DEF Coded, value
  <2>10. RingIsOutput'
    BY <1>1, <2>6, RingStays
  <2>11. LzhKind'
    BY <2>6, <2>7 DEF LzhKind
  <2>12. pos \in 0 .. 2 ^ Low' * Cardinality(Uppers) - 1 /\ py'.i = (py'.r - pos - 1) % N
    BY <2>3, <2>6, <2>8 DEF from
  <2> QED
    BY <2>9, <2>10, <2>11, <2>12 DEF LzhInv, LzhWindow
<1>4. CASE LzhCopy
  <2> DEFINE b == py.ring[py.i]
             w == Written(b)
             next == (py.i + 1) % N
  <2>1. b \in Seen /\ in' = in /\ py.left > 0 /\ next \in 0 .. N - 1
    <3>1. py.i + 1 \in Int
      BY <1>1
    <3>2. next \in 0 .. N - 1
      BY <1>1, <3>1, ModRange, Zenon
    <3>3. py.ring \in [0 .. N - 1 -> Seen]
      BY <1>1 DEF LzhSides, Rings
    <3> QED
      BY <1>1, <1>4, <3>2, <3>3 DEF LzhCopy
  <2>2. /\ w \in LzhSides
        /\ w.ring = [py.ring EXCEPT ![py.r] = b] /\ w.r = (py.r + 1) % N
        /\ w.out = Append(py.out, b) /\ w.i = py.i /\ w.left = py.left
    BY <1>1, <2>1, WrittenIs
  <2>3. py' = [w EXCEPT !.i = (@ + 1) % N, !.left = @ - 1]
    BY <1>4 DEF LzhCopy
  <2> HIDE DEF b, w
  <2>4. py' = [w EXCEPT !.i = next, !.left = py.left - 1]
    BY <2>2, <2>3 DEF LzhSides
  <2>5. py.left - 1 \in Nat
    BY <1>1, <2>1
  <2> HIDE DEF next
  <2>6. /\ py' \in LzhSides /\ py'.ring = w.ring /\ py'.r = w.r /\ py'.out = w.out
        /\ py'.i = next
    BY <2>1, <2>2, <2>4, <2>5 DEF LzhSides
  <2>7. RingIsOutput'
    <3>1. Puts(b)
      BY <2>2, <2>6 DEF Puts
    <3> QED
      BY <1>1, <2>1, <3>1, WrittenKeeps
  <2>8. LzhKind'
    BY <1>1, <2>1, <2>6 DEF LzhKind
  <2>9. PICK pos \in 0 .. 2 ^ Low * Cardinality(Uppers) - 1 :
          pos \in Nat /\ Coded(pos) /\ py.i = (py.r - pos - 1) % N
    BY <1>1, <2>1, LowSizes DEF LzhInv, LzhWindow
  <2>10. Low' = Low /\ Coded(pos)'
    BY <2>1, <2>9 DEF Low, Coded
  <2>11. py'.i = (py'.r - pos - 1) % N
    <3>1. (((py.r - pos - 1) % N) + 1) % N = (((py.r + 1) % N) - pos - 1) % N
      BY <1>1, <2>9, FollowRing, Zenon
    <3> QED
      BY <2>2, <2>6, <2>9, <3>1, Zenon DEF next
  <2> QED
    BY <2>7, <2>8, <2>9, <2>10, <2>11 DEF LzhInv, LzhWindow
<1>5. CASE LzhStop
  <2>1. in' = in /\ py' = [py EXCEPT !.done = TRUE] /\ py.left = 0
    BY <1>5 DEF LzhStop, LzhReads
  <2>2. py'.ring = py.ring /\ py'.r = py.r /\ py'.out = py.out /\ py'.left = 0 /\ py' \in LzhSides
    BY <1>1, <2>1 DEF LzhSides
  <2>3. RingIsOutput'
    BY <1>1, <2>2, RingStays
  <2>4. LzhKind' /\ ~(py'.left > 0)
    BY <1>1, <2>1, <2>2 DEF LzhKind
  <2> QED
    BY <2>3, <2>4 DEF LzhInv, LzhWindow
<1> QED
  BY <1>2, <1>3, <1>4, <1>5 DEF LzhNext
-----------------------------------------------------------------------------
(* Headers: what parts the two, and nothing else does.                     *)
HeadInv == /\ in.format \in Formats /\ in.name \in Nat
           /\ in = [format |-> in.format, name |-> in.name, apart |-> in.apart]
           /\ plm = [at |-> plm.at, short |-> plm.short]
           /\ plm.at = "name" /\ py.at = "name" => in.apart = "no"
           /\ plm.at = "fields" /\ in.apart = "no" => plm.short = FALSE
           /\ plm.at = "fields" /\ in.apart = "end" => plm.short = TRUE
           /\ HeadSame

LEMMA HeadInit == ASSUME HeadStart PROVE HeadInv
BY DEF HeadStart, HeadInv, HeadSame

LEMMA HeadStep == ASSUME HeadInv, HeadNext PROVE HeadInv'
<1>1. /\ in.format \in Formats /\ in.name \in Nat /\ NameField \in Nat
      /\ in = [format |-> in.format, name |-> in.name, apart |-> in.apart]
      /\ plm = [at |-> plm.at, short |-> plm.short]
  BY NameFieldAssumption DEF HeadInv
<1>2. CASE HeadName
  <2>1. in.apart = "no" /\ py.at = "name" /\ plm.at = "name"
    BY <1>2 DEF HeadName, HeadInv
  <2>2. PICK b \in {"nul", "eof", "char", "end"} :
         /\ py' = IF b = "nul" THEN [at |-> "fields"]
                  ELSE IF b = "end" \/ (in.format = "crunch" /\ in.name + 1 >= NameField)
                  THEN [at |-> "refused"] ELSE py
         /\ plm' = IF b = "char" THEN plm ELSE [at |-> "fields", short |-> b = "end"]
         /\ in' = [in EXCEPT !.name = IF @ < NameField THEN @ + 1 ELSE @,
                             !.apart = IF plm'.at = py'.at THEN "no" ELSE b]
    BY <1>2 DEF HeadName
  <2>3. /\ in'.format = in.format /\ in'.apart = IF plm'.at = py'.at THEN "no" ELSE b
        /\ in'.name = IF in.name < NameField THEN in.name + 1 ELSE in.name
        /\ in' = [format |-> in'.format, name |-> in'.name, apart |-> in'.apart]
    BY <1>1, <2>2
  <2>4. in'.name \in Nat
    BY <1>1, <2>3
  <2>5. CASE b = "nul"
    <3>1. py'.at = "fields" /\ plm' = [at |-> "fields", short |-> FALSE]
      BY <2>2, <2>5
    <3> QED
      BY <1>1, <2>3, <2>4, <3>1 DEF HeadInv, HeadSame
  <2>6. CASE b = "eof"
    <3>1. py'.at \in {"name", "refused"} /\ plm' = [at |-> "fields", short |-> FALSE]
      BY <2>1, <2>2, <2>6
    <3> QED
      BY <1>1, <2>3, <2>4, <2>6, <3>1 DEF HeadInv, HeadSame
  <2>7. CASE b = "end"
    <3>1. py'.at = "refused" /\ plm' = [at |-> "fields", short |-> TRUE]
      BY <2>2, <2>7
    <3> QED
      BY <1>1, <2>3, <2>4, <2>7, <3>1 DEF HeadInv, HeadSame
  <2>8. CASE b = "char"
    <3>1. plm' = plm
      BY <2>2, <2>8
    <3>2. CASE in.format = "crunch" /\ in.name + 1 >= NameField
      <4>1. py'.at = "refused"
        BY <2>2, <2>8, <3>2
      <4>2. in'.apart = "char" /\ in'.name >= NameField
        BY <1>1, <2>1, <2>3, <2>8, <3>1, <3>2, <4>1
      <4>3. plm'.at = "name" /\ plm'.short = plm.short
        BY <2>1, <3>1
      <4>4. NameField <= in'.name
        BY <1>1, <2>4, <4>2
      <4>5. HeadSame'
        BY <4>2 DEF HeadSame
      <4> QED
        BY <1>1, <2>1, <2>3, <2>4, <3>1, <4>2, <4>3, <4>5 DEF HeadInv
    <3>3. CASE ~(in.format = "crunch" /\ in.name + 1 >= NameField)
      <4>1. py' = py
        BY <2>2, <2>8, <3>3
      <4>2. in'.apart = "no"
        BY <2>1, <2>3, <3>1, <4>1
      <4> QED
        BY <1>1, <2>1, <2>3, <2>4, <3>1, <4>1, <4>2 DEF HeadInv, HeadSame
    <3> QED
      BY <3>2, <3>3
  <2> QED
    BY <2>5, <2>6, <2>7, <2>8
<1>3. CASE HeadFields
  <2>1. PICK says \in Says(in.format), cut \in {"no", "level", "later"} :
          py' = [at |-> PyFields(says, cut)] /\ plm' = [plm EXCEPT !.at = PlmFields(says, cut)]
    BY <1>3 DEF HeadFields
  <2>2. in' = in /\ in.apart = "no" /\ plm.at = "fields" /\ plm.short = FALSE
    BY <1>3 DEF HeadFields, HeadInv
  <2>3. PyFields(says, cut) = PlmFields(says, cut)
    BY <2>2 DEF PyFields, PlmFields
  <2>4. PlmFields(says, cut) \notin {"name", "fields"}
    BY <1>1 DEF PlmFields, Says, Formats
  <2>5. /\ py'.at = plm'.at /\ plm'.at = PlmFields(says, cut)
        /\ plm' = [at |-> plm'.at, short |-> plm'.short]
    BY <1>1, <2>1, <2>3
  <2> QED
    BY <1>1, <2>2, <2>4, <2>5 DEF HeadInv, HeadSame
<1>4. CASE HeadAlone
  <2>1. /\ plm' = [plm EXCEPT !.at = PlmFields("refused", "level")] /\ in' = in /\ py' = py
        /\ in.apart = "end" /\ plm.short = TRUE /\ py.at = "refused"
    BY <1>4 DEF HeadAlone, HeadInv, HeadSame
  <2>2. PlmFields("refused", "level") = IF in.format = "crlzh" THEN "1.x" ELSE "refused"
    BY <2>1 DEF PlmFields
  <2>3. plm'.at = PlmFields("refused", "level") /\ plm' = [at |-> plm'.at, short |-> plm'.short]
    BY <1>1, <2>1
  <2> QED
    BY <1>1, <2>1, <2>2, <2>3 DEF HeadInv, HeadSame
<1> QED
  BY <1>2, <1>3, <1>4 DEF HeadNext
-----------------------------------------------------------------------------
(* MBASIC.  What the token before says of what was written last: in Python *)
(* it is what was written last, unless that is a space put after a word or *)
(* after the line's number, or a byte it does not remember; a word that    *)
(* takes a space has had it, unless the byte to come needs none.  80UNBAS  *)
(* remembers the spaces it puts as well.                                   *)
Marks == BasBytes \union {"gap", "none"}
BasSides == [pos : Int, prev : BasBytes \union {"none"}, tail : Marks, text : Seq(Marks), lines : Int, done : BOOLEAN]
Quiet == {"end", "none", "space", "paren", "sigil", "mark", "sign", "and"}

BasKind == /\ py \in BasSides /\ plm \in BasSides
           /\ in \in [left : Nat, size : Nat, next : BasBytes \union {"none"}, header : BOOLEAN,
                      failed : BOOLEAN]
           /\ ~in.header /\ in.left > 0 => in.next \in BasBytes

PyKeeps(side, next) == \/ side.prev = Last(side) /\ (Last(side) \in Listed => next \in Quiet)
                       \/ Last(side) \in {"tab", "control"}
                       \/ Last(side) \in {"unknown", "unpair"} /\ side.prev = "none"
                       \/ Last(side) = "gap" /\ side.prev \in Listed \union {"none"}
PlmKeeps(side) == \/ side.prev = Last(side) /\ Last(side) \notin Skipped
                  \/ side.prev = "space" /\ Last(side) = "gap"

Remembers == ~in.header /\ ~plm.done /\ PlmLeft > 0 => PlmKeeps(plm)
PyRemembers == ~in.header /\ ~py.done => PyKeeps(py, in.next)

\* 80UNBAS has no more to come than the file does.
Within == ~plm.done => PlmLeft <= in.left

\* The two stay level while the program fits the buffer.
Level == in.size <= BasBuf =>
           IF in.failed THEN in.left = 0 /\ py.done /\ py.lines = 0
           ELSE /\ py.lines = plm.lines /\ py.pos = plm.pos /\ py.done = plm.done
                /\ ~py.done => in.left = in.size - py.pos

PlmApart(side) == ~Follows(side, Letters, Words) /\ ~Follows(side, Spaces, Spaces)
PyApart(side) == /\ Follows(side, Letters, Words) => \/ side.tail = "call"
                                                     \/ side.tail = "rem" /\ side.text[1] = "ark"
                                                     \/ side.tail \in Listed /\ side.text[1] = "and"
                 /\ ~Follows(side, Listed, Letters \ {"and"})
                 /\ Follows(side, Spaces, {"gap"}) => side.tail = "tab"

BasInv == BasKind /\ Remembers /\ PyRemembers /\ Within /\ Level /\ PlmApart(plm) /\ PyApart(py)

LEMMA ApartWords == BasWords <=> PlmApart(plm) /\ PyApart(py)
BY DEF BasWords, PlmApart, PyApart

LEMMA LevelLines == Level => BasLines
BY DEF Level, BasLines

\* Nothing follows what is not there.
LEMMA NothingFollows ==
    ASSUME NEW side, side.text = <<>>
    PROVE  PlmApart(side) /\ PyApart(side) /\ Last(side) = side.tail
BY DEF PlmApart, PyApart, Follows, Last

\* A text that begins with a and ends with b
Text(s, a, b) == s \in Seq(Marks) /\ s # <<>> /\ s[1] = a /\ s[Len(s)] = b

LEMMA Texts ==
    /\ \A b \in Marks : Text(<<b>>, b, b) /\ <<b>> \in Seq(Marks)
    /\ \A b, c \in Marks : Text(<<b, c>>, b, c)
    /\ \A s, t \in Seq(Marks), a, b, c, d \in Marks :
         Text(s, a, b) /\ Text(t, c, d) => Text(s \o t, a, d)
    /\ \A s \in Seq(Marks) : s \o <<>> = s /\ <<>> \o s = s
    /\ <<>> \in Seq(Marks)
<1>1. ASSUME NEW b \in Marks PROVE Text(<<b>>, b, b) /\ <<b>> \in Seq(Marks)
  BY <1>1 DEF Text
<1>2. ASSUME NEW b \in Marks, NEW c \in Marks PROVE Text(<<b, c>>, b, c)
  BY <1>2 DEF Text
<1>3. ASSUME NEW s \in Seq(Marks), NEW t \in Seq(Marks), NEW a \in Marks, NEW b \in Marks,
             NEW c \in Marks, NEW d \in Marks, Text(s, a, b), Text(t, c, d)
      PROVE  Text(s \o t, a, d)
  <2>1. s # <<>> /\ t # <<>> /\ s[1] = a /\ t[Len(t)] = d
    BY <1>3 DEF Text
  <2>2. Len(s) \in Nat \ {0} /\ Len(t) \in Nat \ {0}
    BY <1>3, <2>1, EmptySeq
  <2>3. s \o t \in Seq(Marks) /\ Len(s \o t) = Len(s) + Len(t)
    BY <1>3, ConcatProperties
  <2>4. (s \o t)[1] = s[1] /\ (s \o t)[Len(s) + Len(t)] = t[Len(t)]
    BY <1>3, <2>2
  <2>5. s \o t # <<>>
    BY <2>2, <2>3
  <2> QED
    BY <2>1, <2>3, <2>4, <2>5 DEF Text
<1>4. ASSUME NEW s \in Seq(Marks) PROVE s \o <<>> = s /\ <<>> \o s = s
  BY <1>4
<1> QED
  BY <1>1, <1>2, <1>3, <1>4

LEMMA MarksOf == \A b \in BasBytes : b \in Marks
BY DEF Marks

LEMMA PyTextIs ==
    ASSUME NEW b \in BasBytes \ {"end"}, NEW next
    PROVE  /\ b = "cr" => PyText(b, next) = <<>>
           /\ b # "cr" => Text(PyText(b, next), IF PyBefore(b) THEN "gap" ELSE b,
                               IF PyAfter(b, next) THEN "gap" ELSE b)
<1>1. b \in Marks /\ "gap" \in Marks
  BY DEF Marks
<1> DEFINE first == IF PyBefore(b) THEN "gap" ELSE b
           last == IF PyAfter(b, next) THEN "gap" ELSE b
           before == If(PyBefore(b), <<"gap">>)
           after == If(PyAfter(b, next), <<"gap">>)
<1>2. CASE b \in Words
  <2>0. b # "cr"
    BY <1>2 DEF Words, Listed
  <2>1. PyText(b, next) = before \o <<b>> \o after
    BY <1>2, <2>0 DEF PyText
  <2>2. Text(before \o <<b>>, first, b) /\ before \o <<b>> \in Seq(Marks)
    <3>1. CASE PyBefore(b)
      <4>1. before = <<"gap">>
        BY <3>1 DEF If
      <4>2. Text(<<"gap">> \o <<b>>, "gap", b)
        BY <1>1, Texts
      <4> QED
        BY <3>1, <4>1, <4>2 DEF Text
    <3>2. CASE ~PyBefore(b)
      <4>1. before = <<>>
        BY <3>2 DEF If
      <4>2. <<>> \o <<b>> = <<b>> /\ Text(<<b>>, b, b)
        BY <1>1, Texts
      <4> QED
        BY <3>2, <4>1, <4>2 DEF Text
    <3> QED
      BY <3>1, <3>2
  <2> HIDE DEF before
  <2>3. PICK s \in Seq(Marks) : s = before \o <<b>>
    BY <2>2
  <2>4. CASE PyAfter(b, next)
    <3>1. after = <<"gap">>
      BY <2>4 DEF If
    <3>2. first \in Marks
      BY <1>1
    <3>3. Text(<<"gap">>, "gap", "gap") /\ <<"gap">> \in Seq(Marks) /\ Text(s, first, b)
      BY <1>1, <2>2, <2>3, Texts
    <3> HIDE DEF first
    <3>4. Text(s \o <<"gap">>, first, "gap")
      BY <1>1, <3>2, <3>3, Texts
    <3> QED
      BY <2>0, <2>1, <2>3, <2>4, <3>1, <3>4 DEF first
  <2>5. CASE ~PyAfter(b, next)
    <3>1. after = <<>>
      BY <2>5 DEF If
    <3>2. s \o <<>> = s
      BY <2>3, Texts
    <3> QED
      BY <2>0, <2>1, <2>2, <2>3, <2>5, <3>1, <3>2
  <2> QED
    BY <2>4, <2>5
<1>3. CASE b \notin Words
  <2>1. PyText(b, next) = IF b = "cr" THEN <<>> ELSE <<b>>
    BY <1>3 DEF PyText
  <2>2. ~PyBefore(b) /\ ~PyAfter(b, next)
    BY <1>3 DEF PyBefore, PyAfter, Words
  <2> QED
    BY <1>1, <2>1, <2>2, Texts
<1> QED
  BY <1>2, <1>3

\* Whether 80UNBAS puts a space before b, and whether it writes nothing at all
Spaced(b) == IF b = "then" THEN plm.prev # "space" ELSE b \in Words \union {"unknown", "unpair"} /\ NeedSpace
Silent(b) == b \in Skipped \/ (b = "space" /\ plm.prev = "space")

LEMMA PlmTextIs ==
    ASSUME NEW b \in BasBytes \ {"end"}
    PROVE  /\ Silent(b) => PlmText(b) = <<>>
           /\ ~Silent(b) => Text(PlmText(b), IF Spaced(b) THEN "gap" ELSE b,
                                 IF b \in {"and", "imp"} THEN "gap" ELSE b)
<1>1. b \in Marks /\ "gap" \in Marks
  BY DEF Marks
<1>2. /\ Text(<<b>>, b, b) /\ Text(<<"gap">>, "gap", "gap") /\ Text(<<b, "gap">>, b, "gap")
      /\ Text(<<"gap">> \o <<b>>, "gap", b) /\ Text(<<"gap">> \o <<b, "gap">>, "gap", "gap")
      /\ <<>> \o <<b>> = <<b>> /\ <<>> \o <<b, "gap">> = <<b, "gap">>
  <2>1. Text(<<b>>, b, b) /\ Text(<<"gap">>, "gap", "gap") /\ Text(<<b, "gap">>, b, "gap")
    BY <1>1, Texts
  <2>2. <<b>> \in Seq(Marks) /\ <<"gap">> \in Seq(Marks) /\ <<b, "gap">> \in Seq(Marks)
    BY <2>1 DEF Text
  <2>3. Text(<<"gap">> \o <<b>>, "gap", b) /\ Text(<<"gap">> \o <<b, "gap">>, "gap", "gap")
    BY <1>1, <2>1, <2>2, Texts
  <2> QED
    BY <2>1, <2>2, <2>3, Texts
<1>3. CASE b = "space"
  <2>1. PlmText(b) = If(plm.prev # "space", <<"space">>)
    BY <1>3 DEF PlmText, Words, Listed, Constants, Signs
  <2>2. ~Spaced(b)
    BY <1>3 DEF Spaced, Words, Listed
  <2> QED
    BY <1>2, <1>3, <2>1, <2>2 DEF If, Silent, Skipped
<1>4. CASE b \in {"and", "imp"}
  <2>1. PlmText(b) = If(NeedSpace, <<"gap">>) \o <<b, "gap">>
    BY <1>4 DEF PlmText, Words, Listed, Constants, Plain, Signs
  <2>2. ~Silent(b) /\ (Spaced(b) <=> NeedSpace)
    BY <1>4 DEF Silent, Spaced, Skipped, Words, Listed
  <2> QED
    BY <1>2, <1>4, <2>1, <2>2 DEF If
<1>5. CASE b = "then"
  <2>1. PlmText(b) = If(plm.prev # "space", <<"gap">>) \o <<b>>
    BY <1>5 DEF PlmText, Words, Listed, Constants, Plain, Signs
  <2>2. ~Silent(b) /\ (Spaced(b) <=> plm.prev # "space")
    BY <1>5 DEF Silent, Spaced, Skipped
  <2> QED
    BY <1>2, <1>5, <2>1, <2>2 DEF If
<1>6. CASE b \in (Words \ {"and", "imp", "then"}) \union {"unknown", "unpair"}
  <2>1. PlmText(b) = If(NeedSpace, <<"gap">>) \o <<b>> /\ b \notin {"and", "imp"}
    BY <1>6 DEF PlmText, Words, Listed, Constants, Plain, Signs
  <2>2. ~Silent(b) /\ (Spaced(b) <=> NeedSpace)
    BY <1>6 DEF Silent, Spaced, Skipped, Words, Listed
  <2> QED
    BY <1>2, <2>1, <2>2 DEF If
<1>7. CASE b \in Constants \union (Plain \ {"space"}) \union Signs
  <2>1. PlmText(b) = <<b>> /\ b \notin {"and", "imp"}
    BY <1>7 DEF PlmText, Words, Listed, Constants, Plain, Signs
  <2>2. ~Silent(b) /\ ~Spaced(b)
    BY <1>7 DEF Silent, Spaced, Skipped, Words, Listed, Constants, Plain, Signs
  <2> QED
    BY <1>2, <2>1, <2>2
<1>8. CASE b \in Skipped
  <2>1. PlmText(b) = <<>>
    BY <1>8 DEF PlmText, Skipped, Words, Listed, Constants, Plain, Signs
  <2> QED
    BY <1>8, <2>1 DEF Silent
<1> QED
  BY <1>3, <1>4, <1>5, <1>6, <1>7, <1>8 DEF BasBytes, Others, Skipped

LEMMA BasWidths ==
    ASSUME NEW b \in BasBytes
    PROVE  PyWidth(b) \in Nat /\ PlmWidth(b) = PyWidth(b) /\ (b = "end" => PyWidth(b) = 0)
BY DEF PyWidth, PlmWidth

LEMMA PyTextIn ==
    ASSUME NEW b \in BasBytes \ {"end"}, NEW next
    PROVE  PyText(b, next) \in Seq(Marks) /\ PyPrev(b) \in BasBytes \union {"none", py.prev}
<1>0. b # "cr" => PyText(b, next) \in Seq(Marks)
  BY PyTextIs DEF Text
<1>1. PyText(b, next) \in Seq(Marks)
  BY <1>0, PyTextIs, Texts
<1>2. CASE b \in {"unknown", "unpair"}
  BY <1>1, <1>2 DEF PyPrev
<1>3. CASE b \in {"tab", "cr", "control", "end"}
  BY <1>1, <1>3 DEF PyPrev
<1>4. CASE b \notin {"tab", "cr", "control", "end", "unknown", "unpair"}
  BY <1>1, <1>4 DEF PyPrev
<1> QED
  BY <1>2, <1>3, <1>4

LEMMA PlmTextIn ==
    ASSUME NEW b \in BasBytes \ {"end"}
    PROVE  PlmText(b) \in Seq(Marks) /\ PlmPrev(b) \in BasBytes \union {plm.prev}
<1>1. PlmText(b) \in Seq(Marks)
  BY PlmTextIs, Texts DEF Text
<1>2. "space" \in BasBytes
  BY DEF BasBytes, Plain
<1> QED
  BY <1>1, <1>2 DEF PlmPrev

LEMMA LastIn == ASSUME NEW side \in BasSides PROVE Last(side) \in Marks
<1>1. side.text \in Seq(Marks) /\ side.tail \in Marks
  BY DEF BasSides
<1>2. CASE side.text = <<>>
  BY <1>1, <1>2 DEF Last
<1>3. CASE side.text # <<>>
  <2>1. Len(side.text) \in 1 .. Len(side.text)
    BY <1>1, <1>3, EmptySeq
  <2> QED
    BY <1>1, <1>3, <2>1 DEF Last
<1> QED
  BY <1>2, <1>3

LEMMA SideFields ==
    ASSUME NEW side \in BasSides
    PROVE  /\ side.pos \in Int /\ side.lines \in Int
           /\ side.pos + 1 \in Int /\ side.pos + 4 \in Int /\ side.lines + 1 \in Int
           /\ \A width \in Nat : side.pos + 1 + width \in Int
<1>1. side.pos \in Int /\ side.lines \in Int
  BY DEF BasSides
<1>2. PICK p \in Int, n \in Int : p = side.pos /\ n = side.lines
  BY <1>1
<1>3. p + 1 \in Int /\ p + 4 \in Int /\ n + 1 \in Int /\ \A width \in Nat : p + 1 + width \in Int
  OBVIOUS
<1> QED
  BY <1>1, <1>2, <1>3, Zenon

Appends(new, side, s, prev, width) ==
    /\ new \in BasSides /\ new.pos = side.pos + 1 + width /\ new.prev = prev /\ new.text = s
    /\ new.tail = Last(side) /\ new.lines = side.lines /\ new.done = side.done

LEMMA WroteIs ==
    ASSUME NEW side \in BasSides, NEW s \in Seq(Marks), NEW prev \in BasBytes \union {"none"}, NEW width \in Nat
    PROVE  Appends(Wrote(side, s, prev, width), side, s, prev, width)
<1>1. PICK last \in Marks : last = Last(side)
  BY LastIn
<1>2. PICK p \in Int : p = side.pos + 1 + width
  BY SideFields
<1>3. Wrote(side, s, prev, width) = [side EXCEPT !.pos = p, !.text = s, !.prev = prev, !.tail = last]
  BY <1>1, <1>2, Zenon DEF Wrote
<1>4. Wrote(side, s, prev, width) \in BasSides
  <2>1. [side EXCEPT !.pos = p, !.text = s, !.prev = prev, !.tail = last] \in BasSides
    BY DEF BasSides
  <2> QED
    BY <1>3, <2>1, Zenon
<1> QED
  BY <1>1, <1>2, <1>3, <1>4 DEF BasSides, Appends

LEMMA EndedIs ==
    ASSUME NEW side \in BasSides
    PROVE  /\ Ended(side) \in BasSides
           /\ \A new : new = Ended(side) =>
                /\ new.pos = side.pos + 1 /\ new.prev = side.prev /\ new.text = <<>>
                /\ new.tail = side.tail /\ new.lines = side.lines + 1 /\ new.done = side.done
<1>1. PICK p \in Int, n \in Int : p = side.pos + 1 /\ n = side.lines + 1
  BY SideFields
<1>2. Ended(side) = [side EXCEPT !.lines = n, !.pos = p, !.text = <<>>]
  BY <1>1, Zenon DEF Ended
<1>3. Ended(side) \in BasSides
  <2>1. [side EXCEPT !.lines = n, !.pos = p, !.text = <<>>] \in BasSides
    BY Texts DEF BasSides
  <2> QED
    BY <1>2, <2>1, Zenon
<1> QED
  BY <1>1, <1>2, <1>3 DEF BasSides

LEMMA StoppedIs ==
    ASSUME NEW side \in BasSides
    PROVE  /\ Stopped(side) \in BasSides
           /\ \A new : new = Stopped(side) =>
                new.pos = side.pos /\ new.text = <<>> /\ new.lines = side.lines /\ new.done
<1>1. Stopped(side) \in BasSides
  BY Texts DEF Stopped, BasSides
<1> QED
  BY <1>1 DEF Stopped, BasSides

LEMMA OpenedIs ==
    ASSUME NEW side \in BasSides
    PROVE  /\ Opened(side) \in BasSides
           /\ \A new : new = Opened(side) =>
                /\ new.pos = side.pos + 4 /\ new.prev = "none" /\ new.tail = "gap"
                /\ new.text = <<>> /\ new.lines = side.lines /\ new.done = side.done
<1>1. "gap" \in Marks /\ <<>> \in Seq(Marks) /\ "none" \in BasBytes \union {"none"}
  BY Texts DEF Marks
<1>2. PICK p \in Int : p = side.pos + 4
  BY SideFields
<1>3. Opened(side) = [side EXCEPT !.pos = p, !.prev = "none", !.tail = "gap", !.text = <<>>]
  BY <1>2, Zenon DEF Opened
<1>4. Opened(side) \in BasSides
  <2>1. [side EXCEPT !.pos = p, !.prev = "none", !.tail = "gap", !.text = <<>>] \in BasSides
    BY <1>1 DEF BasSides
  <2> QED
    BY <1>3, <2>1, Zenon
<1> QED
  BY <1>2, <1>3, <1>4 DEF BasSides

LEMMA SpacedIs ==
    ASSUME NEW side \in BasSides
    PROVE  /\ SpaceAfterNumber(side) \in BasSides
           /\ \A new : new = SpaceAfterNumber(side) =>
                /\ new.pos = side.pos + 4 /\ new.prev = "space" /\ new.tail = "gap"
                /\ new.text = <<>> /\ new.lines = side.lines /\ new.done = side.done
<1>1. PICK opened \in BasSides : opened = Opened(side)
  BY OpenedIs
<1>2. /\ opened.pos = side.pos + 4 /\ opened.tail = "gap" /\ opened.text = <<>>
      /\ opened.lines = side.lines /\ opened.done = side.done
  BY <1>1, OpenedIs
<1>3. SpaceAfterNumber(side) = [opened EXCEPT !.prev = "space"]
  BY <1>1, Zenon DEF SpaceAfterNumber
<1>4. "space" \in BasBytes
  BY DEF BasBytes, Plain
<1>5. SpaceAfterNumber(side) \in BasSides
  <2>1. [opened EXCEPT !.prev = "space"] \in BasSides
    BY <1>4 DEF BasSides
  <2> QED
    BY <1>3, <2>1, Zenon
<1> QED
  BY <1>2, <1>3, <1>5 DEF BasSides

\* What is left of Python's side when an operand is not all there
Lost(side) == [Stopped(side) EXCEPT !.lines = 0]

LEMMA LostIs ==
    ASSUME NEW side \in BasSides
    PROVE  /\ Lost(side) \in BasSides
           /\ \A new : new = Lost(side) =>
                new.pos = side.pos /\ new.text = <<>> /\ new.lines = 0 /\ new.done
<1>1. PICK stopped \in BasSides : stopped = Stopped(side)
  BY StoppedIs
<1>2. stopped.pos = side.pos /\ stopped.text = <<>> /\ stopped.done
  BY <1>1, StoppedIs
<1>0. PICK none \in Int : none = 0
  OBVIOUS
<1>3. Lost(side) = [stopped EXCEPT !.lines = none]
  BY <1>0, <1>1, Zenon DEF Lost
<1>4. Lost(side) \in BasSides
  <2>1. [stopped EXCEPT !.lines = none] \in BasSides
    BY DEF BasSides
  <2> QED
    BY <1>3, <2>1, Zenon
<1> QED
  BY <1>0, <1>2, <1>3, <1>4 DEF BasSides

\* What Python writes for a byte stands apart from what it wrote before, and it
\* remembers of it what it has to.
LEMMA PyWritesApart ==
    ASSUME py \in BasSides, NEW b \in BasBytes \ {"end"}, NEW next \in BasBytes \union {"none"},
           PyKeeps(py, b), NEW side, side.text = PyText(b, next), side.tail = Last(py), side.prev = PyPrev(b)
    PROVE  PyApart(side) /\ PyKeeps(side, next)
<1> DEFINE last == Last(py)
<1>1. CASE b = "cr"
  <2>1. side.text = <<>> /\ side.prev = py.prev
    BY <1>1, PyTextIs DEF PyPrev
  <2>2. PyApart(side) /\ Last(side) = last
    BY <2>1, NothingFollows
  <2>3. PyKeeps(side, next)
    BY <1>1, <2>1, <2>2 DEF PyKeeps, Quiet
  <2> QED
    BY <2>2, <2>3
<1>2. CASE b # "cr"
  <2>1. Text(side.text, IF PyBefore(b) THEN "gap" ELSE b, IF PyAfter(b, next) THEN "gap" ELSE b)
    BY <1>2, PyTextIs
  <2>2. /\ side.text # <<>> /\ side.text[1] = IF PyBefore(b) THEN "gap" ELSE b
        /\ Last(side) = IF PyAfter(b, next) THEN "gap" ELSE b
    BY <2>1 DEF Text, Last
  <2>3. py.prev \in BasBytes \union {"none"} /\ py.prev # "gap" /\ b # "gap"
    BY DEF BasSides, BasBytes, Words, Listed, Constants, Plain, Signs, Others
  <2>4. PyKeeps(side, next)
    <3>1. CASE PyAfter(b, next)
      <4>1. b \in Listed
        BY <3>1 DEF PyAfter
      <4>2. PyPrev(b) = b
        BY <4>1 DEF PyPrev, Listed
      <4> QED
        BY <2>2, <3>1, <4>1, <4>2 DEF PyKeeps
    <3>2. CASE ~PyAfter(b, next)
      <4>1. b \in Listed => next \in Quiet
        BY <3>2 DEF PyAfter, Quiet
      <4>2. b \in {"unknown", "unpair"} => PyPrev(b) = "none"
        BY DEF PyPrev
      <4>3. b \notin {"tab", "control", "unknown", "unpair"} => PyPrev(b) = b
        BY <1>2 DEF PyPrev
      <4> QED
        BY <2>2, <3>2, <4>1, <4>2, <4>3 DEF PyKeeps
    <3> QED
      BY <3>1, <3>2
  <2>5. ASSUME Follows(side, Letters, Words)
        PROVE  last = "call" \/ (last = "rem" /\ side.text[1] = "ark") \/ (last \in Listed /\ side.text[1] = "and")
    <3>1. last \in Letters /\ ~PyBefore(b) /\ b \in Words /\ side.text[1] = b
      BY <2>2, <2>5 DEF Follows, Words, Listed
    <3>2. py.prev = last /\ (last \in Listed => b \in Quiet)
      BY <3>1 DEF PyKeeps, Letters, Words, Listed, Constants
    <3>3. CASE last \in Listed
      BY <3>1, <3>2, <3>3 DEF Quiet, Words, Listed
    <3>4. CASE last \notin Listed
      BY <3>1, <3>2, <3>4 DEF PyBefore, Letters, Words, Listed, Constants, Signs
    <3> QED
      BY <3>3, <3>4
  <2>6. ~Follows(side, Listed, Letters \ {"and"})
    <3> SUFFICES ASSUME last \in Listed, side.text[1] \in Letters \ {"and"} PROVE FALSE
      BY DEF Follows
    <3>1. b \in Quiet
      BY DEF PyKeeps, Listed
    <3>2. side.text[1] = b
      BY <2>2 DEF Letters, Words, Listed, Constants
    <3> QED
      BY <3>1, <3>2 DEF Quiet, Letters, Words, Listed, Constants
  <2>7. ASSUME Follows(side, Spaces, {"gap"}) PROVE last = "tab"
    <3>1. last \in Spaces /\ PyBefore(b)
      BY <2>2, <2>3, <2>7 DEF Follows
    <3>2. last # "gap"
      BY <2>3, <3>1 DEF PyBefore, PyKeeps
    <3>3. last # "space"
      BY <3>1 DEF PyBefore, PyKeeps
    <3> QED
      BY <3>1, <3>2, <3>3 DEF Spaces
  <2> QED
    BY <2>4, <2>5, <2>6, <2>7 DEF PyApart
<1> QED
  BY <1>1, <1>2

LEMMA PlmWritesApart ==
    ASSUME plm \in BasSides, NEW b \in BasBytes \ {"end"}, PlmKeeps(plm),
           NEW side, side.text = PlmText(b), side.tail = Last(plm), side.prev = PlmPrev(b)
    PROVE  PlmApart(side) /\ PlmKeeps(side)
<1> DEFINE last == Last(plm)
<1>1. plm.prev # "gap" /\ b # "gap"
  BY DEF BasSides, BasBytes, Words, Listed, Constants, Plain, Signs, Others
<1>2. CASE Silent(b)
  <2>1. side.text = <<>>
    BY <1>2, PlmTextIs
  <2>2. PlmApart(side) /\ Last(side) = last
    BY <2>1, NothingFollows
  <2>3. PlmKeeps(side)
    BY <1>2, <2>2 DEF PlmKeeps, Silent, Skipped, PlmPrev
  <2> QED
    BY <2>2, <2>3
<1>3. CASE ~Silent(b)
  <2>1. Text(side.text, IF Spaced(b) THEN "gap" ELSE b, IF b \in {"and", "imp"} THEN "gap" ELSE b)
    BY <1>3, PlmTextIs
  <2>2. /\ side.text # <<>> /\ side.text[1] = IF Spaced(b) THEN "gap" ELSE b
        /\ Last(side) = IF b \in {"and", "imp"} THEN "gap" ELSE b
    BY <2>1 DEF Text, Last
  <2>3. PlmKeeps(side)
    BY <1>3, <2>2 DEF PlmKeeps, PlmPrev, Silent, Skipped
  <2>4. ~Follows(side, Letters, Words)
    <3> SUFFICES ASSUME last \in Letters, side.text[1] \in Words PROVE FALSE
      BY DEF Follows
    <3>1. b \in Words /\ ~Spaced(b)
      BY <2>2 DEF Words, Listed
    <3>2. plm.prev = last
      BY DEF PlmKeeps, Letters, Words, Listed, Constants
    <3>3. last # "ten"
      BY <3>2, <1>1 DEF PlmKeeps, Skipped
    <3> QED
      BY <3>1, <3>2, <3>3 DEF Spaced, NeedSpace, Letters, Words, Listed, Constants
  <2>5. last \in Spaces => plm.prev = "space"
    BY <1>1 DEF PlmKeeps, Skipped, Spaces
  <2>6. last \in Spaces => ~Spaced(b) /\ b \notin {"space", "tab"}
    BY <1>3, <2>5 DEF Spaced, Silent, Skipped, NeedSpace, Words, Listed, Constants
  <2>7. ~Follows(side, Spaces, Spaces)
    BY <1>1, <2>2, <2>6 DEF Follows, Spaces
  <2> QED
    BY <2>3, <2>4, <2>7 DEF PlmApart
<1> QED
  BY <1>2, <1>3

LEMMA LeftIs ==
    ASSUME BasKind
    PROVE  /\ PlmLeft \in Int /\ in.left \in Nat /\ in.size \in Nat
           /\ PlmLeft <= 0 \/ PlmLeft > 0
           /\ \A w \in Nat : PlmLeft < 1 + w => ~(PlmLeft > 1 + w)
<1>1. in.left \in Nat /\ in.size \in Nat /\ plm.pos \in Int
  BY SideFields DEF BasKind
<1>2. PlmLeft \in Int
  BY <1>1, BasAssumption DEF PlmLeft
<1>3. PICK ahead \in Int : ahead = PlmLeft
  BY <1>2
<1>4. (ahead <= 0 \/ ahead > 0) /\ \A w \in Nat : ahead < 1 + w => ~(ahead > 1 + w)
  OBVIOUS
<1> QED
  BY <1>1, <1>2, <1>3, <1>4, Zenon

LEMMA LeftNext ==
    ASSUME NEW size \in Nat, in.size = size, in'.size = size, NEW ahead \in Int, ahead = PlmLeft,
           NEW p \in Int, p = plm.pos, NEW q \in Int, q = plm'.pos
    PROVE  \E still \in Int : still = PlmLeft' /\ still = ahead - (q - p)
<1>1. PICK cap \in Int : cap = IF size < BasBuf THEN size ELSE BasBuf
  BY BasAssumption
<1>2. ahead = cap - p
  BY <1>1, Zenon DEF PlmLeft
<1>3. cap - q = PlmLeft'
  BY <1>1, Zenon DEF PlmLeft
<1>4. cap - q \in Int /\ cap - q = ahead - (q - p)
  BY <1>2
<1> QED
  BY <1>3, <1>4, Zenon

LEMMA BasInit == ASSUME BasStart PROVE BasInv
<1>1. PICK size \in BasSizes :
        /\ in = [left |-> size, size |-> size, next |-> "end", header |-> TRUE, failed |-> FALSE]
        /\ py = NewSide /\ plm = NewSide
  BY DEF BasStart
<1>2. size \in Nat
  BY BasAssumption
<1>3. in \in [left : Nat, size : Nat, next : BasBytes \union {"none"}, header : BOOLEAN, failed : BOOLEAN]
  BY <1>1, <1>2 DEF BasBytes
<1>4. in.header /\ ~in.failed /\ in.left = size /\ in.size = size
  BY <1>1
<1>5. NewSide \in BasSides
  <2>1. "none" \in Marks /\ <<>> \in Seq(Marks)
    BY Texts DEF Marks
  <2>2. PICK zero \in Int : zero = 0
    OBVIOUS
  <2>3. NewSide = [pos |-> zero, prev |-> "none", tail |-> "none", text |-> <<>>, lines |-> zero, done |-> FALSE]
    BY <2>2 DEF NewSide
  <2> QED
    BY <2>1, <2>3 DEF BasSides
<1>6. NewSide.pos = 0 /\ NewSide.text = <<>> /\ NewSide.lines = 0 /\ NewSide.done = FALSE
  BY DEF NewSide
<1>7. PlmApart(plm) /\ PyApart(py)
  BY <1>1, <1>6, NothingFollows
<1>8. BasKind /\ Remembers /\ PyRemembers
  BY <1>1, <1>3, <1>4, <1>5 DEF BasKind, Remembers, PyRemembers
<1>9. Level
  BY <1>1, <1>2, <1>4, <1>6 DEF Level
<1>10. Within
  BY <1>1, <1>2, <1>4, <1>6, BasAssumption DEF Within, PlmLeft
<1> QED
  BY <1>7, <1>8, <1>9, <1>10 DEF BasInv

\* A line's header, which either gets over or stops at
LEMMA HeaderKeeps == ASSUME BasInv, BasHeader PROVE BasInv'
<1>1. in.header /\ ~(py.done /\ plm.done) /\ BasKind /\ Level /\ Within
  BY DEF BasInv, BasHeader
<1>2. PICK last \in BOOLEAN, next \in BasBytes :
         /\ py' = IF py.done \/ in.left < 5 \/ last THEN Stopped(py) ELSE Opened(py)
         /\ plm' = IF plm.done \/ PlmLeft < 5 \/ last THEN Stopped(plm) ELSE SpaceAfterNumber(plm)
         /\ in' = IF py'.done /\ plm'.done THEN in ELSE [in EXCEPT !.left = @ - 4, !.header = FALSE, !.next = next]
  BY DEF BasHeader
<1>3. py \in BasSides /\ plm \in BasSides
  BY <1>1 DEF BasKind
<1>4. /\ py' \in BasSides /\ py'.text = <<>> /\ py'.lines = py.lines
      /\ IF py.done \/ in.left < 5 \/ last THEN py'.done /\ py'.pos = py.pos
         ELSE ~py'.done /\ py'.pos = py.pos + 4 /\ py'.prev = "none" /\ py'.tail = "gap"
  <2>1. CASE py.done \/ in.left < 5 \/ last
    BY <1>2, <1>3, <2>1, StoppedIs
  <2>2. CASE ~(py.done \/ in.left < 5 \/ last)
    <3>1. py' = Opened(py) /\ ~py.done
      BY <1>2, <2>2
    <3> QED
      BY <1>3, <2>2, <3>1, OpenedIs
  <2> QED
    BY <2>1, <2>2
<1>5. /\ plm' \in BasSides /\ plm'.text = <<>> /\ plm'.lines = plm.lines
      /\ IF plm.done \/ PlmLeft < 5 \/ last THEN plm'.done /\ plm'.pos = plm.pos
         ELSE ~plm'.done /\ plm'.pos = plm.pos + 4 /\ plm'.prev = "space" /\ plm'.tail = "gap"
  <2>1. CASE plm.done \/ PlmLeft < 5 \/ last
    BY <1>2, <1>3, <2>1, StoppedIs
  <2>2. CASE ~(plm.done \/ PlmLeft < 5 \/ last)
    <3>1. plm' = SpaceAfterNumber(plm) /\ ~plm.done
      BY <1>2, <2>2
    <3>2. /\ plm' \in BasSides /\ plm'.text = <<>> /\ plm'.lines = plm.lines /\ ~plm'.done
          /\ plm'.pos = plm.pos + 4 /\ plm'.prev = "space" /\ plm'.tail = "gap"
      BY <1>3, <3>1, SpacedIs
    <3> QED
      BY <2>2, <3>2
  <2> QED
    BY <2>1, <2>2
<1>6. PICK left \in Nat, size \in Nat, ahead \in Int : left = in.left /\ size = in.size /\ ahead = PlmLeft
  BY <1>1, LeftIs
<1>7. ~plm.done => ahead <= left
  BY <1>1, <1>6 DEF Within
<1>8. PlmApart(plm)' /\ PyApart(py)'
  <2>1. PlmApart(plm') /\ PyApart(py')
    BY <1>4, <1>5, NothingFollows
  <2> QED
    BY <2>1 DEF PlmApart, PyApart
<1>9. Last(py') = py'.tail /\ Last(plm') = plm'.tail
  BY <1>4, <1>5, NothingFollows
<1>10. CASE py'.done /\ plm'.done
  <2>1. in' = in
    BY <1>2, <1>10
  <2>2. BasKind'
    BY <1>1, <1>4, <1>5, <2>1 DEF BasKind
  <2>3. Remembers' /\ PyRemembers' /\ Within'
    BY <1>10 DEF Remembers, PyRemembers, Within
  <2>4. Level'
    <3> SUFFICES ASSUME in.size <= BasBuf PROVE Level'
      BY <2>1 DEF Level
    <3>1. CASE in.failed
      BY <1>1, <1>4, <1>10, <2>1, <3>1 DEF Level
    <3>2. CASE ~in.failed
      <4>1. ~py.done /\ ~plm.done /\ py.lines = plm.lines /\ py.pos = plm.pos
        BY <1>1, <3>2 DEF Level
      <4>2. py'.pos = py.pos /\ plm'.pos = plm.pos
        BY <1>4, <1>5, <1>10
      <4> QED
        BY <1>4, <1>5, <1>10, <2>1, <3>2, <4>1, <4>2 DEF Level
    <3> QED
      BY <3>1, <3>2
  <2> QED
    BY <1>8, <2>2, <2>3, <2>4 DEF BasInv
<1>11. CASE ~(py'.done /\ plm'.done)
  <2>1. in' = [in EXCEPT !.left = @ - 4, !.header = FALSE, !.next = next]
    BY <1>2, <1>11
  <2>2. left >= 5
    <3>1. CASE ~py'.done
      <4>1. ~(in.left < 5)
        BY <1>4, <3>1
      <4> QED
        BY <1>6, <4>1
    <3>2. CASE ~plm'.done
      <4>1. ~plm.done /\ ~(PlmLeft < 5)
        BY <1>5, <3>2
      <4> QED
        BY <1>6, <1>7, <4>1
    <3> QED
      BY <1>11, <3>1, <3>2
  <2>3. /\ in' \in [left : Nat, size : Nat, next : BasBytes \union {"none"}, header : BOOLEAN, failed : BOOLEAN]
        /\ in'.left = left - 4 /\ in'.size = size /\ in'.next = next /\ ~in'.header /\ in'.failed = in.failed
    <3>1. PICK rest \in Nat : rest = left - 4
      BY <2>2
    <3>2. in' = [in EXCEPT !.left = rest, !.header = FALSE, !.next = next]
      BY <1>6, <2>1, <3>1
    <3> QED
      BY <1>1, <1>6, <3>1, <3>2 DEF BasKind
  <2>4. BasKind'
    BY <1>4, <1>5, <2>3 DEF BasKind
  <2>5. Remembers' /\ PyRemembers'
    <3>1. ~plm'.done => PlmKeeps(plm')
      BY <1>5, <1>9 DEF PlmKeeps
    <3>2. ~py'.done => PyKeeps(py', next)
      <4> SUFFICES ASSUME ~py'.done PROVE PyKeeps(py', next)
        OBVIOUS
      <4>1. py'.prev = "none" /\ Last(py') = "gap"
        BY <1>4, <1>9
      <4> QED
        BY <4>1 DEF PyKeeps
    <3>3. in'.next = next
      BY <2>3
    <3> QED
      BY <3>1, <3>2, <3>3, Zenon DEF Remembers, PyRemembers, PlmKeeps, PyKeeps, Last
  <2>9. PICK p \in Int, q \in Int : p = plm.pos /\ q = plm'.pos
    BY <1>3, <1>5, SideFields
  <2>10. PICK still \in Int : still = PlmLeft' /\ still = ahead - (q - p)
    BY <1>6, <2>3, <2>9, LeftNext
  <2>7. Within'
    <3> SUFFICES ASSUME ~plm'.done PROVE PlmLeft' <= in'.left
      BY DEF Within
    <3>1. ~plm.done /\ plm'.pos = plm.pos + 4
      BY <1>5
    <3>2. q = p + 4
      BY <2>9, <3>1
    <3>3. ahead <= left
      BY <1>7, <3>1
    <3>4. still <= left - 4
      BY <2>10, <3>2, <3>3
    <3> QED
      BY <2>3, <2>10, <3>4, Zenon
  <2>8. Level'
    <3> SUFFICES ASSUME size <= BasBuf PROVE Level'
      BY <2>3 DEF Level
    <3>1. CASE in.failed
      BY <1>1, <1>6, <2>2, <3>1 DEF Level
    <3>2. CASE ~in.failed
      <4>1. /\ ~py.done /\ ~plm.done /\ py.lines = plm.lines /\ py.pos = plm.pos
            /\ left = size - py.pos
        BY <1>1, <1>6, <3>2 DEF Level
      <4>2. ahead = left
        BY <1>3, <1>6, <4>1, BasAssumption, SideFields DEF PlmLeft
      <4>3. ~last /\ py'.pos = py.pos + 4 /\ plm'.pos = plm.pos + 4 /\ ~py'.done /\ ~plm'.done
        BY <1>4, <1>5, <1>6, <1>11, <4>1, <4>2
      <4>4. left - 4 = size - py'.pos
        BY <1>3, <4>1, <4>3, SideFields
      <4>5. py'.lines = plm'.lines /\ py'.pos = plm'.pos /\ py'.done = plm'.done
        <5>1. py'.lines = plm'.lines /\ py'.pos = plm'.pos
          BY <1>4, <1>5, <4>1, <4>3
        <5>2. py'.done \in BOOLEAN /\ plm'.done \in BOOLEAN
          BY <1>4, <1>5 DEF BasSides
        <5> QED
          BY <4>3, <5>1, <5>2
      <4>6. in'.left = in'.size - py'.pos /\ ~in'.failed
        BY <2>3, <3>2, <4>4
      <4> QED
        BY <4>5, <4>6 DEF Level
    <3> QED
      BY <3>1, <3>2
  <2> QED
    BY <1>8, <2>4, <2>5, <2>7, <2>8 DEF BasInv
<1> QED
  BY <1>10, <1>11

\* What becomes of the two sides with a byte and its operand of width w
PyGoes(b, next, w) ==
    /\ py' \in BasSides /\ PyApart(py')
    /\ IF py.done THEN py' = py
       ELSE IF in.left < 1 + w THEN py'.done /\ py'.lines = 0
       ELSE /\ ~py'.done /\ py'.pos = py.pos + 1 + w
            /\ py'.lines = IF b = "end" THEN py.lines + 1 ELSE py.lines
            /\ b # "end" => PyKeeps(py', next)
PlmGoes(b, w) ==
    /\ plm' \in BasSides /\ PlmApart(plm')
    /\ IF plm.done THEN plm' = plm
       ELSE IF PlmLeft <= 0 THEN plm'.done
       ELSE /\ ~plm'.done /\ plm'.pos = plm.pos + 1 + w
            /\ plm'.lines = IF b = "end" THEN plm.lines + 1 ELSE plm.lines
            /\ b # "end" /\ PlmLeft > 1 + w => PlmKeeps(plm')

LEMMA PyByteGoes ==
    ASSUME BasInv, ~in.header, in.left > 0, NEW b \in BasBytes, b = in.next,
           NEW next \in BasBytes \union {"none"}, NEW w \in Nat, w = PyWidth(b), py' = PyByte(b, next)
    PROVE  PyGoes(b, next, w)
<1>1. py \in BasSides /\ PyApart(py) /\ in.left \in Nat
  BY DEF BasInv, BasKind
<1>2. CASE py.done
  BY <1>1, <1>2 DEF PyByte, PyGoes
<1>3. CASE ~py.done /\ b = "end"
  <2>1. py' = Ended(py) /\ w = 0
    BY <1>3, BasWidths DEF PyByte
  <2>2. /\ py' \in BasSides /\ py'.pos = py.pos + 1 /\ py'.text = <<>> /\ py'.lines = py.lines + 1
        /\ ~py'.done
    BY <1>1, <1>3, <2>1, EndedIs
  <2>3. PyApart(py')
    BY <2>2, NothingFollows
  <2>4. py'.pos = py.pos + 1 + w /\ ~(in.left < 1 + w)
    BY <1>1, <2>1, <2>2, SideFields
  <2> QED
    BY <1>3, <2>2, <2>3, <2>4 DEF PyGoes
<1>4. CASE ~py.done /\ b # "end" /\ in.left < 1 + w
  <2>1. py' = Lost(py)
    BY <1>4 DEF PyByte, Lost
  <2>2. py' \in BasSides /\ py'.text = <<>> /\ py'.lines = 0 /\ py'.done
    BY <1>1, <2>1, LostIs
  <2>3. PyApart(py')
    BY <2>2, NothingFollows
  <2> QED
    BY <1>4, <2>2, <2>3 DEF PyGoes
<1>5. CASE ~py.done /\ b # "end" /\ ~(in.left < 1 + w)
  <2>1. PICK s \in Seq(Marks), prev \in BasBytes \union {"none"} : s = PyText(b, next) /\ prev = PyPrev(b)
    BY <1>1, <1>5, PyTextIn DEF BasSides
  <2>2. py' = Wrote(py, s, prev, w)
    BY <1>5, <2>1 DEF PyByte
  <2>3. /\ py' \in BasSides /\ py'.pos = py.pos + 1 + w /\ py'.prev = prev /\ py'.text = s
        /\ py'.tail = Last(py) /\ py'.lines = py.lines /\ py'.done = py.done
    <3>1. Appends(Wrote(py, s, prev, w), py, s, prev, w)
      BY <1>1, WroteIs, Zenon
    <3>2. Appends(py', py, s, prev, w)
      BY <2>2, <3>1, Zenon
    <3> QED
      BY <3>2, Zenon DEF Appends
  <2>0. ~py'.done
    BY <1>5, <2>3
  <2>4. PyKeeps(py, b)
    BY <1>5 DEF BasInv, PyRemembers
  <2>5. PyApart(py') /\ PyKeeps(py', next)
    BY <1>1, <1>5, <2>1, <2>3, <2>4, PyWritesApart
  <2> QED
    BY <1>5, <2>0, <2>3, <2>5 DEF PyGoes
<1> QED
  BY <1>2, <1>3, <1>4, <1>5

LEMMA PlmByteGoes ==
    ASSUME BasInv, ~in.header, NEW b \in BasBytes, NEW w \in Nat, w = PyWidth(b), plm' = PlmByte(b)
    PROVE  PlmGoes(b, w)
<1>1. plm \in BasSides /\ PlmApart(plm)
  BY DEF BasInv, BasKind
<1>2. CASE plm.done
  BY <1>1, <1>2 DEF PlmByte, PlmGoes
<1>3. CASE ~plm.done /\ PlmLeft <= 0
  <2>1. PICK ended \in BasSides : ended = Ended(plm)
    BY <1>1, EndedIs
  <2>2. plm' = Stopped(ended)
    BY <1>3, <2>1 DEF PlmByte
  <2>3. plm' \in BasSides /\ plm'.text = <<>> /\ plm'.done
    BY <2>1, <2>2, StoppedIs
  <2>4. PlmApart(plm')
    BY <2>3, NothingFollows
  <2> QED
    BY <1>3, <2>3, <2>4 DEF PlmGoes
<1>4. CASE ~plm.done /\ ~(PlmLeft <= 0) /\ b = "end"
  <2>1. plm' = Ended(plm) /\ w = 0
    BY <1>4, BasWidths DEF PlmByte
  <2>2. /\ plm' \in BasSides /\ plm'.pos = plm.pos + 1 /\ plm'.text = <<>> /\ plm'.lines = plm.lines + 1
        /\ ~plm'.done
    BY <1>1, <1>4, <2>1, EndedIs
  <2>3. PlmApart(plm')
    BY <2>2, NothingFollows
  <2>4. plm'.pos = plm.pos + 1 + w
    BY <1>1, <2>1, <2>2, SideFields
  <2> QED
    BY <1>4, <2>2, <2>3, <2>4 DEF PlmGoes
<1>5. CASE ~plm.done /\ ~(PlmLeft <= 0) /\ b # "end"
  <2>1. PICK s \in Seq(Marks), prev \in BasBytes \union {"none"} :
          /\ s = IF CutShort(b) THEN <<>> ELSE PlmText(b)
          /\ prev = IF CutShort(b) /\ b # "one" THEN plm.prev ELSE PlmPrev(b)
    BY <1>1, <1>5, PlmTextIn, Texts DEF BasSides
  <2>2. plm' = Wrote(plm, s, prev, w)
    BY <1>5, <2>1, BasWidths DEF PlmByte
  <2>3. /\ plm' \in BasSides /\ plm'.pos = plm.pos + 1 + w /\ plm'.prev = prev /\ plm'.text = s
        /\ plm'.tail = Last(plm) /\ plm'.lines = plm.lines /\ plm'.done = plm.done
    <3>1. Appends(Wrote(plm, s, prev, w), plm, s, prev, w)
      BY <1>1, WroteIs, Zenon
    <3>2. Appends(plm', plm, s, prev, w)
      BY <2>2, <3>1, Zenon
    <3> QED
      BY <3>2, Zenon DEF Appends
  <2>0. ~plm'.done
    BY <1>5, <2>3
  <2>4. CASE CutShort(b)
    <3>1. PlmApart(plm')
      BY <2>1, <2>3, <2>4, NothingFollows
    <3>2. PlmLeft < 1 + w
      BY <2>4, BasWidths DEF CutShort
    <3>4. ~(PlmLeft > 1 + w)
      BY <3>2, LeftIs, Zenon DEF BasInv
    <3> QED
      BY <1>5, <2>0, <2>3, <3>1, <3>4 DEF PlmGoes
  <2>5. CASE ~CutShort(b)
    <3>1. ASSUME PlmKeeps(plm) PROVE PlmApart(plm') /\ PlmKeeps(plm')
      <4>1. plm'.text = PlmText(b) /\ plm'.tail = Last(plm) /\ plm'.prev = PlmPrev(b)
        BY <2>1, <2>3, <2>5
      <4> QED
        BY <1>1, <1>5, <3>1, <4>1, PlmWritesApart, Zenon
    <3>3. PlmKeeps(plm)
      BY <1>5, LeftIs, Zenon DEF BasInv, Remembers
    <3> QED
      BY <1>5, <2>0, <2>3, <3>1, <3>3 DEF PlmGoes
  <2> QED
    BY <2>4, <2>5
<1> QED
  BY <1>2, <1>3, <1>4, <1>5

\* A byte of a line with its operand
LEMMA ByteKeeps == ASSUME BasInv, BasByte PROVE BasInv'
<1>1. ~in.header /\ in.left > 0 /\ ~(py.done /\ plm.done) /\ BasKind /\ Level /\ Within
  BY DEF BasInv, BasByte
<1>2. PICK b \in BasBytes : b = in.next
  BY <1>1 DEF BasKind
<1>3. PICK w \in Nat : w = PyWidth(b) /\ (b = "end" => w = 0)
  BY BasWidths
<1>4. PICK left \in Nat, size \in Nat, ahead \in Int : left = in.left /\ size = in.size /\ ahead = PlmLeft
  BY <1>1, LeftIs
<1>5. PICK rest \in Int, kept \in Nat : rest = left - 1 - w /\ kept = IF rest < 0 THEN 0 ELSE rest
  OBVIOUS
<1>6. PICK next \in BasBytes \union {"none"} :
        /\ (next = "none") = (rest <= 0 \/ b = "end")
        /\ py' = PyByte(b, next) /\ plm' = PlmByte(b)
        /\ in' = [in EXCEPT !.left = kept, !.next = next, !.header = (b = "end"), !.failed = rest < 0]
  <2>1. PICK next \in BasBytes \union {"none"} :
          LET gone == in.left - 1 - PyWidth(in.next)
          IN  /\ (next = "none") = (gone <= 0 \/ in.next = "end")
              /\ py' = PyByte(in.next, next) /\ plm' = PlmByte(in.next)
              /\ in' = [in EXCEPT !.left = IF gone < 0 THEN 0 ELSE gone, !.next = next,
                                  !.header = (in.next = "end"), !.failed = gone < 0]
    BY DEF BasByte
  <2>2. in.left - 1 - PyWidth(in.next) = rest
    BY <1>2, <1>3, <1>4, <1>5
  <2> QED
    BY <1>2, <1>5, <2>1, <2>2
<1>7. /\ in' \in [left : Nat, size : Nat, next : BasBytes \union {"none"}, header : BOOLEAN, failed : BOOLEAN]
      /\ in'.left = kept /\ in'.size = size /\ in'.next = next
      /\ in'.header = (b = "end") /\ in'.failed = (rest < 0)
  <2>1. PICK over \in BOOLEAN, lost \in BOOLEAN : over = (b = "end") /\ lost = (rest < 0)
    <3>1. (b = "end") \in BOOLEAN /\ (rest < 0) \in BOOLEAN
      OBVIOUS
    <3> QED
      BY <3>1, Zenon
  <2>2. in' = [in EXCEPT !.left = kept, !.next = next, !.header = over, !.failed = lost]
    BY <1>6, <2>1
  <2>3. in \in [left : Nat, size : Nat, next : BasBytes \union {"none"}, header : BOOLEAN, failed : BOOLEAN]
    BY <1>1 DEF BasKind
  <2>4. in' \in [left : Nat, size : Nat, next : BasBytes \union {"none"}, header : BOOLEAN, failed : BOOLEAN]
    BY <2>2, <2>3
  <2>5. in'.left = kept /\ in'.size = in.size /\ in'.next = next /\ in'.header = over /\ in'.failed = lost
    BY <2>2, <2>3
  <2> QED
    BY <1>4, <2>1, <2>4, <2>5
<1>8. PyGoes(b, next, w)
  BY <1>1, <1>2, <1>3, <1>6, PyByteGoes
<1>9. PlmGoes(b, w)
  BY <1>1, <1>2, <1>3, <1>6, PlmByteGoes
<1>10. py \in BasSides /\ plm \in BasSides /\ py' \in BasSides /\ plm' \in BasSides
  BY <1>1, <1>8, <1>9 DEF BasKind, PyGoes, PlmGoes
<1>11. PICK p \in Int, q \in Int : p = plm.pos /\ q = plm'.pos
  BY <1>10, SideFields
<1>12. PICK still \in Int : still = PlmLeft' /\ still = ahead - (q - p)
  BY <1>4, <1>7, <1>11, LeftNext
<1>13. ASSUME ~plm'.done
       PROVE  /\ ~plm.done /\ ~(ahead <= 0) /\ plm'.pos = plm.pos + 1 + w
              /\ still = ahead - (1 + w) /\ (b # "end" /\ ahead > 1 + w => PlmKeeps(plm'))
  <2>1. ~plm.done /\ ~(PlmLeft <= 0)
    BY <1>9, <1>13 DEF PlmGoes
  <2>2. plm'.pos = plm.pos + 1 + w /\ (b # "end" /\ PlmLeft > 1 + w => PlmKeeps(plm'))
    BY <1>9, <2>1 DEF PlmGoes
  <2>3. q = p + 1 + w
    BY <1>11, <2>2
  <2>4. still = ahead - (1 + w)
    BY <1>12, <2>3
  <2> QED
    BY <1>4, <2>1, <2>2, <2>4, Zenon
<1>14. ASSUME ~py'.done PROVE ~py.done /\ rest >= 0 /\ (b # "end" => PyKeeps(py', next))
  <2>1. ~py.done /\ ~(in.left < 1 + w)
    BY <1>8, <1>14 DEF PyGoes
  <2>2. rest >= 0
    BY <1>4, <1>5, <2>1
  <2>3. b # "end" => PyKeeps(py', next)
    BY <1>8, <2>1 DEF PyGoes
  <2> QED
    BY <2>1, <2>2, <2>3
<1>15. BasKind'
  <2> SUFFICES ASSUME ~in'.header, in'.left > 0 PROVE in'.next \in BasBytes
    BY <1>7, <1>10 DEF BasKind
  <2>1. b # "end" /\ kept > 0
    BY <1>7
  <2>2. ~(rest <= 0)
    BY <1>5, <2>1
  <2> QED
    BY <1>6, <1>7, <2>1, <2>2
<1>16. Remembers'
  <2> SUFFICES ASSUME ~in'.header, ~plm'.done, PlmLeft' > 0 PROVE PlmKeeps(plm')
    BY Zenon DEF Remembers, PlmKeeps, Last
  <2>1. b # "end"
    BY <1>7
  <2>2. still > 0
    BY <1>12, Zenon
  <2>3. still = ahead - (1 + w)
    BY <1>13
  <2>4. ahead > 1 + w
    BY <2>2, <2>3
  <2> QED
    BY <1>13, <2>1, <2>4
<1>17. PyRemembers'
  <2> SUFFICES ASSUME ~in'.header, ~py'.done PROVE PyKeeps(py', in'.next)
    BY Zenon DEF PyRemembers, PyKeeps, Last
  <2>1. b # "end"
    BY <1>7
  <2> QED
    BY <1>7, <1>14, <2>1
<1>18. Within'
  <2> SUFFICES ASSUME ~plm'.done PROVE PlmLeft' <= in'.left
    BY DEF Within
  <2>1. ~plm.done /\ still = ahead - (1 + w)
    BY <1>13
  <2>2. ahead <= left
    BY <1>1, <1>4, <2>1, Zenon DEF Within
  <2>3. still <= kept
    BY <1>5, <2>1, <2>2
  <2> QED
    BY <1>7, <1>12, <2>3, Zenon
<1>19. Level'
  <2> SUFFICES ASSUME size <= BasBuf PROVE Level'
    BY <1>7 DEF Level
  <2>1. ~in.failed
    BY <1>1, <1>4 DEF Level
  <2>2. /\ ~py.done /\ ~plm.done /\ py.lines = plm.lines /\ py.pos = plm.pos
        /\ left = size - p
    BY <1>1, <1>4, <1>11, <2>1 DEF Level
  <2>3. ahead = size - p
    BY <1>4, <1>11, BasAssumption DEF PlmLeft
  <2>4. ~(PlmLeft <= 0)
    <3>1. ~(ahead <= 0)
      BY <1>1, <1>4, <2>2, <2>3
    <3> QED
      BY <1>4, <3>1, Zenon
  <2>5. /\ ~plm'.done /\ plm'.pos = plm.pos + 1 + w
        /\ plm'.lines = IF b = "end" THEN plm.lines + 1 ELSE plm.lines
    BY <1>9, <2>2, <2>4 DEF PlmGoes
  <2>6. CASE rest < 0
    <3>1. in.left < 1 + w
      BY <1>4, <1>5, <2>6
    <3>2. py'.done /\ py'.lines = 0
      BY <1>8, <2>2, <3>1 DEF PyGoes
    <3>3. in'.failed /\ in'.left = 0
      BY <1>5, <1>7, <2>6
    <3> QED
      BY <3>2, <3>3 DEF Level
  <2>7. CASE ~(rest < 0)
    <3>1. ~(in.left < 1 + w)
      BY <1>4, <1>5, <2>7
    <3>2. /\ ~py'.done /\ py'.pos = py.pos + 1 + w
          /\ py'.lines = IF b = "end" THEN py.lines + 1 ELSE py.lines
      BY <1>8, <2>2, <3>1 DEF PyGoes
    <3>3. py'.lines = plm'.lines /\ py'.pos = plm'.pos
      BY <2>2, <2>5, <3>2
    <3>4. py'.done = plm'.done
      BY <1>10, <2>5, <3>2 DEF BasSides
    <3>5. in'.left = in'.size - py'.pos
      <4>1. q = p + 1 + w
        BY <1>11, <2>5
      <4>2. kept = size - q
        BY <1>5, <2>2, <2>7, <4>1
      <4> QED
        BY <1>7, <1>11, <3>3, <4>2
    <3>6. ~in'.failed
      BY <1>7, <2>7
    <3> QED
      BY <3>3, <3>4, <3>5, <3>6 DEF Level
  <2> QED
    BY <2>6, <2>7
<1>20. PlmApart(plm)' /\ PyApart(py)'
  <2>1. PlmApart(plm') /\ PyApart(py')
    BY <1>8, <1>9 DEF PyGoes, PlmGoes
  <2> QED
    BY <2>1 DEF PlmApart, PyApart
<1> QED
  BY <1>15, <1>16, <1>17, <1>18, <1>19, <1>20 DEF BasInv

\* The end of the file inside a line
LEMMA CutKeeps == ASSUME BasInv, BasCut PROVE BasInv'
<1>1. ~in.header /\ in.left = 0 /\ ~(py.done /\ plm.done) /\ BasKind /\ Level /\ in' = in
  BY DEF BasInv, BasCut
<1>2. PICK p \in BasSides, q \in BasSides : p = Ended(py) /\ q = Ended(plm)
  BY <1>1, EndedIs DEF BasKind
<1>3. p.lines = py.lines + 1 /\ p.pos = py.pos + 1 /\ q.lines = plm.lines + 1 /\ q.pos = plm.pos + 1
  BY <1>1, <1>2, EndedIs DEF BasKind
<1>4. /\ py' \in BasSides /\ py'.done /\ PyApart(py')
      /\ IF py.done THEN py' = py ELSE py'.lines = py.lines + 1 /\ py'.pos = py.pos + 1
  <2>1. CASE py.done
    <3>1. py' = py
      BY <2>1 DEF BasCut
    <3> QED
      BY <1>1, <2>1, <3>1 DEF BasInv, BasKind
  <2>2. CASE ~py.done
    <3>1. py' = Stopped(p)
      BY <1>2, <2>2 DEF BasCut
    <3>2. py' \in BasSides /\ py'.text = <<>> /\ py'.done /\ py'.lines = p.lines /\ py'.pos = p.pos
      BY <3>1, StoppedIs
    <3> QED
      BY <1>3, <2>2, <3>2, NothingFollows
  <2> QED
    BY <2>1, <2>2
<1>5. /\ plm' \in BasSides /\ plm'.done /\ PlmApart(plm')
      /\ IF plm.done THEN plm' = plm ELSE plm'.lines = plm.lines + 1 /\ plm'.pos = plm.pos + 1
  <2>1. CASE plm.done
    <3>1. plm' = plm
      BY <2>1 DEF BasCut
    <3> QED
      BY <1>1, <2>1, <3>1 DEF BasInv, BasKind
  <2>2. CASE ~plm.done
    <3>1. plm' = Stopped(q)
      BY <1>2, <2>2 DEF BasCut
    <3>2. plm' \in BasSides /\ plm'.text = <<>> /\ plm'.done /\ plm'.lines = q.lines /\ plm'.pos = q.pos
      BY <3>1, StoppedIs
    <3> QED
      BY <1>3, <2>2, <3>2, NothingFollows
  <2> QED
    BY <2>1, <2>2
<1>6. BasKind'
  BY <1>1, <1>4, <1>5 DEF BasKind
<1>7. Remembers' /\ PyRemembers' /\ Within'
  BY <1>4, <1>5 DEF Remembers, PyRemembers, Within
<1>8. Level'
  <2> SUFFICES ASSUME in.size <= BasBuf PROVE Level'
    BY <1>1 DEF Level
  <2>1. CASE in.failed
    <3>1. py.done /\ py.lines = 0
      BY <1>1, <2>1 DEF Level
    <3> QED
      BY <1>1, <1>4, <2>1, <3>1 DEF Level
  <2>2. CASE ~in.failed
    <3>1. py.lines = plm.lines /\ py.pos = plm.pos /\ py.done = plm.done
      BY <1>1, <2>2 DEF Level
    <3>2. ~py.done /\ ~plm.done
      BY <1>1, <3>1
    <3>3. py'.lines = plm'.lines /\ py'.pos = plm'.pos
      BY <1>4, <1>5, <3>1, <3>2
    <3>4. py'.done = plm'.done
      BY <1>4, <1>5 DEF BasSides
    <3> QED
      BY <1>1, <1>4, <2>2, <3>3, <3>4 DEF Level
  <2> QED
    BY <2>1, <2>2
<1>9. PlmApart(plm)' /\ PyApart(py)'
  BY <1>4, <1>5 DEF PlmApart, PyApart
<1> QED
  BY <1>6, <1>7, <1>8, <1>9 DEF BasInv

LEMMA BasStep == ASSUME BasInv, BasNext PROVE BasInv'
BY HeaderKeeps, ByteKeeps, CutKeeps DEF BasNext
-----------------------------------------------------------------------------
(* ARC's LZW methods.  The CP/M program's entries, read as strings, are    *)
(* the strings of the Python tool, and both have taken the same bits, but  *)
(* for a clear code whose padding is cut.                                  *)

LzwStrings == {s \in Seq(Int) : s # <<>>}
LzwIns == [method : Methods, read : Nat, alone : Nat]
LzwPys == [dict : Seq(LzwStrings), size : Nat, max : Nat, prev : Seq(Int), block : Nat, bits : Nat,
           done : BOOLEAN, out : Seq(Int)]
LzwPlms == [entries : Seq([prefix : Int, suffix : Int]), size : Nat, max : Nat, prev : Int,
            block : Nat, bits : Nat, done : BOOLEAN, out : Seq(Int)]
LzwKind == in \in LzwIns /\ py \in LzwPys /\ plm \in LzwPlms

\* A byte, or one of the first n entries, and what it stands for
LzwKnown(k, n) == k \in 0 .. LzwRoots - 1 \/ k \in FirstCode .. FirstCode + n - 1
StringIn(dict, k) == IF k < LzwRoots THEN <<k>> ELSE dict[k - FirstCode + 1]
StringIs(k) == StringIn(py.dict, k)

\* An entry is one made before and a byte more; so is its string.
Entries ==
    /\ Len(plm.entries) = Len(py.dict)
    /\ \A i \in 1 .. Len(py.dict) :
         /\ LzwKnown(plm.entries[i].prefix, i - 1)
         /\ py.dict[i] = Append(StringIs(plm.entries[i].prefix), plm.entries[i].suffix)

\* The code before
Previous == \/ plm.prev = -1 /\ py.prev = <<>>
            \/ LzwKnown(plm.prev, Len(py.dict)) /\ py.prev = StringIs(plm.prev)

Widths == IF Old THEN py.size = LzwOldBits /\ py.max = LzwOldBits /\ plm.max \in LzwLeft
          ELSE /\ py.max \in LzwMaxBits \union {SquashBits} /\ plm.max = py.max
               /\ py.size \in LzwInitBits .. py.max
Room == PyNext <= 2 ^ py.size /\ (py.size < py.max => PyNext < 2 ^ py.size)

\* Python leaves cut padding where it is, the CP/M program goes to the end.
BitsLeft == \/ py.bits = plm.bits
            \/ plm.bits = 0 /\ py.size = LzwInitBits /\ py.bits < 2 * LzwInitBits /\ ~Old

\* Every code after the first makes an entry, until the table is full.
Counted1 == /\ in.read % LzwBlock = py.block % LzwBlock
            /\ py.prev = <<>> => py.block = 0 /\ py.dict = <<>>
            /\ py.prev # <<>> /\ PyNext < 2 ^ py.max => PyNext = LzwRoots + py.block
Counts == plm.block = py.block % LzwWrap /\ (~Old /\ ~py.done => Counted1)

LzwTogether == LzwSame /\ Entries /\ Previous /\ Widths /\ Room /\ BitsLeft /\ Counts

\* The old methods take their limit from the members before.
LeftEnough == \A left \in LzwLeft : LzwOldBits <= left

LzwApart == in.alone = 1 /\ ~PyReads /\ ~PlmReads
LzwInv == LzwKind /\ (IF in.alone = 0 THEN LzwTogether ELSE LzwApart)
LzwHolds == in \in LzwIns /\ ((Old => LeftEnough) => LzwInv)

LEMMA LzwNumbers ==
    /\ LzwByte \in Nat \ {0} /\ LzwBlock \in Nat \ {0} /\ LzwWrap \in Nat \ {0}
    /\ LzwInitBits \in Nat /\ LzwOldBits \in Nat /\ SquashBits \in Nat
    /\ LzwByte < LzwInitBits /\ LzwByte < LzwOldBits
    /\ LzwRoots \in Nat \ {0} /\ FirstCode \in Nat /\ FirstCode \in LzwRoots .. LzwRoots + 1
    /\ (Old => FirstCode = LzwRoots) /\ (~Old => FirstCode = LzwRoots + 1)
<1>1. /\ LzwByte \in Nat \ {0} /\ LzwBlock \in Nat \ {0} /\ LzwWrap \in Nat \ {0}
      /\ LzwInitBits \in Nat /\ LzwOldBits \in Nat /\ SquashBits \in Nat
      /\ LzwByte < LzwInitBits /\ LzwByte < LzwOldBits /\ Powers(LzwOldBits)
  BY LzwAssumption
<1>2. LzwRoots \in Nat \ {0}
  BY <1>1, PowersAre DEF LzwRoots
<1> QED
  BY <1>1, <1>2 DEF FirstCode

LEMMA ModOfMod ==
    ASSUME NEW n \in Nat \ {0}, NEW d \in Nat \ {0}, NEW x \in Int
    PROVE  n % d = 0 => (x % n) % d = x % d
<1> DEFINE y == x % n
           z == y % d
<1>1. PICK q \in Int : y \in 0 .. n - 1 /\ x = n * q + y
  <2>1. \E q \in Int, v \in 0 .. n - 1 : x = n * q + v /\ x % n = v
    BY ModParts, Zenon
  <2> QED
    BY <2>1
<1>2. PICK m \in Int : n % d = 0 => n = d * m
  <2>1. n \in Int
    OBVIOUS
  <2>2. \E m \in Int, v \in 0 .. d - 1 : n = d * m + v /\ n % d = v
    BY <2>1, ModParts, Zenon
  <2> QED
    BY <2>2
<1>3. PICK p \in Int : z \in 0 .. d - 1 /\ y = d * p + z
  <2>1. y \in Int
    BY <1>1
  <2>2. \E p \in Int, v \in 0 .. d - 1 : y = d * p + v /\ y % d = v
    BY <2>1, ModParts, Zenon
  <2> QED
    BY <2>2
<1> HIDE DEF y, z
<1> HAVE n % d = 0
<1>4. PICK u \in Int : x = d * u + z
  <2>1. (d * m) * q + (d * p + z) = d * (m * q + p) + z /\ m * q + p \in Int
    BY <1>3
  <2> QED
    BY <1>1, <1>2, <1>3, <2>1
<1>5. x % d = z
  BY <1>3, <1>4, ModIs
<1> QED
  BY <1>5 DEF y, z

\* Adding one to two numbers of the same remainder
LEMMA ModNext ==
    ASSUME NEW d \in Nat \ {0}, NEW x \in Int, NEW y \in Int, x % d = y % d
    PROVE  (x + 1) % d = (y + 1) % d
<1>1. \A w, k \in Int : ((w % d) + k) % d = (w + k) % d
  BY ModOn, Zenon
<1>2. 1 \in Int
  OBVIOUS
<1>3. ((x % d) + 1) % d = (x + 1) % d /\ ((y % d) + 1) % d = (y + 1) % d
  BY <1>1, <1>2, Zenon
<1> QED
  BY <1>3, Zenon

LEMMA PowersGrow ==
    ASSUME NEW top \in Nat, Powers(top), NEW a \in Nat, NEW b \in Nat, a <= b, b <= top + 1
    PROVE  2 ^ a <= 2 ^ b
<1>1. b - a \in Nat /\ a + (b - a) = b /\ b - a <= top + 1 /\ a <= top + 1
  OBVIOUS
<1>2. 2 ^ b = 2 ^ a * 2 ^ (b - a)
  BY <1>1, PowersAdd
<1>3. 2 ^ (b - a) \in Nat \ {0} /\ 2 ^ a \in Nat \ {0}
  BY <1>1, PowersAre
<1>4. \A x, y \in Nat \ {0} : x <= x * y
  OBVIOUS
<1> QED
  BY <1>2, <1>3, <1>4

\* The widths a code may have, and the powers of two they stand for
LEMMA WidthsAre ==
    ASSUME LzwKind, Widths, Old => LeftEnough
    PROVE  /\ py.size \in Nat /\ py.max \in Nat /\ plm.max \in Nat /\ py.size <= py.max
           /\ LzwByte < py.size /\ Powers(py.max)
           /\ 2 ^ py.size \in Nat \ {0} /\ 2 ^ py.max \in Nat \ {0} /\ 2 ^ plm.max \in Nat \ {0}
           /\ 2 ^ py.size <= 2 ^ py.max /\ 2 ^ (py.size + 1) = 2 * 2 ^ py.size
           /\ (Old => 2 ^ LzwOldBits <= 2 ^ plm.max)
           /\ (~Old => py.max < 2 * LzwInitBits /\ LzwInitBits <= py.size)
<1>1. py.size \in Nat /\ py.max \in Nat /\ plm.max \in Nat
  BY DEF LzwKind, LzwPys, LzwPlms
<1>2. /\ LzwByte < py.size /\ py.size <= py.max /\ Powers(py.max)
      /\ (~Old => py.max < 2 * LzwInitBits /\ LzwInitBits <= py.size)
  <2>1. CASE Old
    BY <2>1, LzwNumbers, LzwAssumption DEF Widths
  <2>2. CASE ~Old
    <3>1. py.max \in LzwMaxBits \union {SquashBits} /\ py.size \in LzwInitBits .. py.max
      BY <2>2 DEF Widths
    <3>2. py.max \in LzwInitBits .. 2 * LzwInitBits - 1 /\ Powers(py.max)
      BY <3>1, LzwAssumption
    <3> QED
      BY <2>2, <3>1, <3>2, <1>1, LzwNumbers
  <2> QED
    BY <2>1, <2>2
<1>3. Powers(plm.max) /\ (Old => LzwOldBits <= plm.max)
  <2>1. CASE Old
    BY <2>1, LzwAssumption DEF Widths, LeftEnough
  <2>2. CASE ~Old
    BY <1>2, <2>2 DEF Widths
  <2> QED
    BY <2>1, <2>2
<1>4. 2 ^ py.size \in Nat \ {0} /\ 2 ^ py.max \in Nat \ {0} /\ 2 ^ plm.max \in Nat \ {0}
  BY <1>1, <1>2, <1>3 DEF Powers
<1>5. 2 ^ py.size <= 2 ^ py.max
  BY <1>1, <1>2, PowersGrow
<1>6. 2 ^ (py.size + 1) = 2 * 2 ^ py.size
  BY <1>1, <1>2 DEF Powers
<1>7. Old => 2 ^ LzwOldBits <= 2 ^ plm.max
  BY <1>1, <1>3, PowersGrow, LzwNumbers
<1> QED
  BY <1>1, <1>2, <1>4, <1>5, <1>6, <1>7

\* What each entry stands for is a string.
LEMMA StringsAre ==
    ASSUME LzwKind, Widths
    PROVE  /\ Len(py.dict) \in Nat /\ py.dict \in Seq(LzwStrings)
           /\ PyNext \in Nat /\ PyNext = FirstCode + Len(py.dict)
           /\ \A k \in Int : LzwKnown(k, Len(py.dict)) => StringIs(k) \in LzwStrings
<1>1. py.dict \in Seq(LzwStrings)
  BY DEF LzwKind, LzwPys
<1>2. Len(py.dict) \in Nat /\ \A i \in 1 .. Len(py.dict) : py.dict[i] \in LzwStrings
  BY <1>1
<1>3. FirstCode \in Nat /\ LzwRoots \in Nat /\ LzwRoots <= FirstCode
  BY LzwNumbers
<1>4. ASSUME NEW k \in Int, LzwKnown(k, Len(py.dict)) PROVE StringIs(k) \in LzwStrings
  <2>1. CASE k < LzwRoots
    <3>1. <<k>> \in Seq(Int) /\ <<k>> # <<>>
      OBVIOUS
    <3> QED
      BY <2>1, <3>1 DEF StringIs, StringIn, LzwStrings
  <2>2. CASE ~(k < LzwRoots)
    <3>1. k - FirstCode + 1 \in 1 .. Len(py.dict)
      BY <1>2, <1>3, <1>4, <2>2 DEF LzwKnown
    <3> QED
      BY <1>2, <2>2, <3>1 DEF StringIs, StringIn
  <2> QED
    BY <2>1, <2>2
<1> QED
  BY <1>1, <1>2, <1>3, <1>4 DEF PyNext

\* An entry is made of one before it.
LEMMA KnownBefore ==
    ASSUME NEW n \in Nat, NEW j \in 0 .. n, NEW p, LzwKnown(p, j)
    PROVE  p \in Int /\ LzwKnown(p, n) /\ p < FirstCode + j
BY LzwNumbers DEF LzwKnown

\* The recursion in PlmString has one value for each code.
Spelled(f) ==
    f = [k \in 0 .. 2 ^ plm.size |->
           IF k < LzwRoots THEN <<k>>
           ELSE IF k \notin FirstCode .. PlmNext - 1 THEN <<Stale>>
           ELSE Append(f[plm.entries[k - FirstCode + 1].prefix],
                       plm.entries[k - FirstCode + 1].suffix)]

LEMMA SpellingExists ==
    ASSUME LzwKind, Widths, Room, Entries, plm.size = py.size, Old => LeftEnough
    PROVE  \E f : Spelled(f)
<1> DEFINE n == Len(py.dict)
           top == 2 ^ plm.size
           g == [k \in 0 .. top |-> IF k < LzwRoots THEN <<k>>
                                    ELSE IF k \notin FirstCode .. PlmNext - 1 THEN <<Stale>>
                                    ELSE StringIs(k)]
           Step(k) == IF k < LzwRoots THEN <<k>>
                      ELSE IF k \notin FirstCode .. PlmNext - 1 THEN <<Stale>>
                      ELSE Append(g[plm.entries[k - FirstCode + 1].prefix],
                                  plm.entries[k - FirstCode + 1].suffix)
<1>1. /\ n \in Nat /\ FirstCode \in Nat /\ LzwRoots \in Nat /\ LzwRoots <= FirstCode
      /\ PlmNext = FirstCode + n /\ top \in Nat /\ FirstCode + n <= top
  BY WidthsAre, StringsAre, LzwNumbers DEF Entries, PlmNext, Room
<1>2. ASSUME NEW k \in Int, LzwKnown(k, n) PROVE k \in 0 .. top /\ g[k] = StringIs(k)
  <2>1. k \in 0 .. top
    BY <1>1, <1>2 DEF LzwKnown
  <2>2. CASE k < LzwRoots
    BY <2>1, <2>2 DEF StringIs, StringIn
  <2>3. CASE ~(k < LzwRoots)
    <3>1. k \in FirstCode .. PlmNext - 1
      BY <1>1, <1>2, <2>3 DEF LzwKnown
    <3> QED
      BY <2>1, <2>3, <3>1
  <2> QED
    BY <2>1, <2>2, <2>3
<1>3. ASSUME NEW k \in 0 .. top PROVE g[k] = Step(k)
  <2>1. CASE k < LzwRoots \/ k \notin FirstCode .. PlmNext - 1
    BY <2>1
  <2>2. CASE ~(k < LzwRoots) /\ k \in FirstCode .. PlmNext - 1
    <3> DEFINE i == k - FirstCode + 1
    <3>1. i \in 1 .. n /\ i - 1 \in 0 .. n
      BY <1>1, <2>2
    <3>2. /\ LzwKnown(plm.entries[i].prefix, i - 1)
          /\ py.dict[i] = Append(StringIs(plm.entries[i].prefix), plm.entries[i].suffix)
      BY <3>1 DEF Entries
    <3>3. plm.entries[i].prefix \in Int /\ LzwKnown(plm.entries[i].prefix, n)
      BY <1>1, <3>1, <3>2, KnownBefore, Zenon
    <3>4. g[plm.entries[i].prefix] = StringIs(plm.entries[i].prefix)
      BY <1>2, <3>3
    <3>5. StringIs(k) = py.dict[i]
      BY <2>2 DEF StringIs, StringIn
    <3>6. g[k] = StringIs(k)
      BY <2>2
    <3> HIDE DEF g
    <3> QED
      BY <2>2, <3>2, <3>4, <3>5, <3>6
  <2> QED
    BY <2>1, <2>2
<1>4. g = [k \in 0 .. top |-> g[k]]
  OBVIOUS
<1>5. g = [k \in 0 .. top |-> Step(k)]
  <2> HIDE DEF g, Step
  <2> QED
    BY <1>3, <1>4
<1>6. Spelled(g)
  <2> HIDE DEF g
  <2> QED
    BY <1>5 DEF Spelled
<1> QED
  BY <1>6, Zenon

LEMMA SpelledIs ==
    ASSUME LzwKind, Widths, Room, Entries, plm.size = py.size, Old => LeftEnough,
           NEW f, Spelled(f)
    PROVE  \A k \in Int : LzwKnown(k, Len(py.dict)) => f[k] = StringIs(k)
<1> DEFINE n == Len(py.dict)
           top == 2 ^ plm.size
           Bad == {k \in 0 .. top : LzwKnown(k, n) /\ f[k] # StringIs(k)}
<1>1. /\ n \in Nat /\ FirstCode \in Nat /\ LzwRoots \in Nat /\ LzwRoots <= FirstCode
      /\ PlmNext = FirstCode + n /\ top \in Nat /\ FirstCode + n <= top
  BY WidthsAre, StringsAre, LzwNumbers DEF Entries, PlmNext, Room
<1>2. \A k \in Int : LzwKnown(k, n) => k \in 0 .. top
  BY <1>1 DEF LzwKnown
<1>3. ASSUME NEW k \in 0 .. top
      PROVE  f[k] = IF k < LzwRoots THEN <<k>>
                    ELSE IF k \notin FirstCode .. PlmNext - 1 THEN <<Stale>>
                    ELSE Append(f[plm.entries[k - FirstCode + 1].prefix],
                                plm.entries[k - FirstCode + 1].suffix)
  BY DEF Spelled
<1>4. Bad = {}
  <2> SUFFICES ASSUME Bad # {} PROVE FALSE
    OBVIOUS
  <2>1. PICK k \in Bad : \A m \in Bad : k <= m
    <3>1. Bad \subseteq Nat
      BY <1>1
    <3> HIDE DEF Bad
    <3> QED
      BY <3>1, LeastOf
  <2>2. k \in 0 .. top /\ LzwKnown(k, n) /\ f[k] # StringIs(k)
    BY <2>1
  <2>3. CASE k < LzwRoots
    BY <1>3, <2>2, <2>3 DEF StringIs, StringIn
  <2>4. CASE ~(k < LzwRoots)
    <3> DEFINE i == k - FirstCode + 1
               p == plm.entries[i].prefix
    <3>1. k \in FirstCode .. PlmNext - 1 /\ i \in 1 .. n
      BY <1>1, <2>2, <2>4 DEF LzwKnown
    <3>2. LzwKnown(p, i - 1) /\ py.dict[i] = Append(StringIs(p), plm.entries[i].suffix)
      BY <3>1 DEF Entries
    <3>3. p \in Int /\ LzwKnown(p, n) /\ p < k
      <4>1. i - 1 \in 0 .. n /\ FirstCode + (i - 1) = k
        BY <1>1, <2>2, <3>1
      <4>2. p \in Int /\ LzwKnown(p, n) /\ p < FirstCode + (i - 1)
        BY <1>1, <3>2, <4>1, KnownBefore, Zenon
      <4> QED
        BY <4>1, <4>2, Zenon
    <3>4. p \in 0 .. top
      BY <1>2, <3>3
    <3>5. f[p] = StringIs(p)
      <4>1. ~(k <= p)
        BY <2>2, <3>3, <1>1
      <4> HIDE DEF p
      <4> QED
        BY <2>1, <3>3, <3>4, <4>1
    <3>6. f[k] = Append(f[p], plm.entries[i].suffix)
      BY <1>3, <2>2, <2>4, <3>1
    <3>7. StringIs(k) = py.dict[i]
      BY <2>4 DEF StringIs, StringIn
    <3> HIDE DEF p, i
    <3> QED
      BY <2>2, <3>2, <3>5, <3>6, <3>7
  <2> QED
    BY <2>3, <2>4
<1> QED
  BY <1>2, <1>4

\* What the CP/M program writes for a code
LEMMA PlmStringIs ==
    ASSUME LzwKind, Widths, Room, Entries, plm.size = py.size, Old => LeftEnough, NEW c \in Int
    PROVE  /\ LzwKnown(c, Len(py.dict)) => PlmString(c) = StringIs(c)
           /\ LzwKnown(plm.prev, Len(py.dict)) /\ c = PyNext =>
                PlmString(c) = Append(StringIs(plm.prev), StringIs(plm.prev)[1])
<1> DEFINE str == CHOOSE f : Spelled(f)
<1>1. Spelled(str)
  BY SpellingExists, Zenon
<1>2. \A k \in Int : LzwKnown(k, Len(py.dict)) => str[k] = StringIs(k)
  <2> HIDE DEF str
  <2> QED
    BY <1>1, SpelledIs
<1>3. PlmString(c) = IF c < PlmNext THEN str[c] ELSE Append(str[plm.prev], str[plm.prev][1])
  BY Zenon DEF PlmString, Spelled
<1> HIDE DEF str
<1>4. PlmNext = PyNext /\ PyNext \in Nat /\ PyNext = FirstCode + Len(py.dict)
  BY StringsAre DEF Entries, PlmNext, PyNext
<1>5. LzwKnown(c, Len(py.dict)) => c < PlmNext
  BY <1>4, StringsAre, LzwNumbers DEF LzwKnown
<1>6. plm.prev \in Int
  BY DEF LzwKind, LzwPlms
<1>7. c = PyNext => ~(c < PlmNext)
  BY <1>4
<1> QED
  BY <1>2, <1>3, <1>5, <1>6, <1>7

PyGrows == py.prev # <<>> /\ PyNext < 2 ^ py.max
PyWidens == PyGrows /\ PyNext + 1 > 2 ^ py.size - 1 /\ py.size < py.max
PlmGrows == plm.prev # -1 /\ PlmNext < 2 ^ plm.max /\ (Old => PlmNext < 2 ^ LzwOldBits)
PlmWidens == ~Old /\ PlmGrows /\ PlmNext + 1 > 2 ^ plm.size - 1 /\ plm.size < plm.max

\* A side that has taken a code that stands for s
PyTook(q, s) ==
    /\ q \in LzwPys
    /\ q.bits = py.bits - py.size /\ q.block = py.block + 1 /\ q.out = s /\ q.prev = s
    /\ q.dict = IF PyGrows THEN Append(py.dict, Append(py.prev, s[1])) ELSE py.dict
    /\ q.size = IF PyWidens THEN py.size + 1 ELSE py.size
    /\ q.max = py.max /\ q.done = py.done
PlmTook(q, c, s) ==
    /\ q \in LzwPlms
    /\ q.bits = PlmRest(plm.size) /\ q.block = (plm.block + 1) % LzwWrap /\ q.out = s /\ q.prev = c
    /\ q.entries = IF PlmGrows THEN Append(plm.entries, [prefix |-> plm.prev, suffix |-> s[1]])
                   ELSE plm.entries
    /\ q.size = IF PlmWidens THEN plm.size + 1 ELSE plm.size
    /\ q.max = plm.max /\ q.done = plm.done

LEMMA PyTakesIs ==
    ASSUME LzwKind, NEW c, NEW s \in LzwStrings, s = PyString(c), py.bits >= py.size
    PROVE  PyTook(PyTakes(c), s)
<1>1. PICK b \in Nat, k \in Nat : b = py.bits - py.size /\ k = py.block + 1
  BY DEF LzwKind, LzwPys
<1>2. PICK z \in Nat : z = IF PyWidens THEN py.size + 1 ELSE py.size
  BY DEF LzwKind, LzwPys
<1>3. PICK d \in Seq(LzwStrings) :
        d = IF PyGrows THEN Append(py.dict, Append(py.prev, s[1])) ELSE py.dict
  <2>1. s[1] \in Int
    BY DEF LzwStrings
  <2>2. py.dict \in Seq(LzwStrings) /\ py.prev \in Seq(Int)
    BY DEF LzwKind, LzwPys
  <2>3. Append(py.prev, s[1]) \in Seq(Int) /\ Append(py.prev, s[1]) # <<>>
    BY <2>1, <2>2
  <2>4. Append(py.prev, s[1]) \in LzwStrings
    BY <2>3 DEF LzwStrings
  <2>5. Append(py.dict, Append(py.prev, s[1])) \in Seq(LzwStrings)
    BY <2>2, <2>4
  <2> QED
    BY <2>2, <2>5
<1>4. PyTakes(c) = [py EXCEPT !.bits = b, !.block = k, !.out = s, !.prev = s, !.dict = d, !.size = z]
  BY <1>1, <1>2, <1>3, Zenon DEF PyTakes, PyGrows, PyWidens
<1>5. s \in Seq(Int)
  BY DEF LzwStrings
<1>6. PICK q : q = [py EXCEPT !.bits = b, !.block = k, !.out = s, !.prev = s, !.dict = d, !.size = z]
  OBVIOUS
<1>7. q \in LzwPys
  BY <1>5, <1>6 DEF LzwKind, LzwPys
<1>8. /\ q.bits = b /\ q.block = k /\ q.out = s /\ q.prev = s /\ q.dict = d /\ q.size = z
      /\ q.max = py.max /\ q.done = py.done
  BY <1>6 DEF LzwKind, LzwPys
<1>9. q = PyTakes(c)
  BY <1>4, <1>6, Zenon
<1>10. PyTook(q, s)
  BY <1>1, <1>2, <1>3, <1>7, <1>8, Zenon DEF PyTook
<1> QED
  BY <1>9, <1>10, Zenon

LEMMA PlmRestIs ==
    ASSUME LzwKind, NEW n \in Nat
    PROVE  PlmRest(n) \in Nat /\ PlmRest(n) = IF plm.bits < n THEN 0 ELSE plm.bits - n
BY DEF LzwKind, LzwPlms, PlmRest

LEMMA PlmTakesIs ==
    ASSUME LzwKind, NEW c \in Int, NEW s \in LzwStrings, s = PlmString(c)
    PROVE  PlmTook(PlmTakes(c), c, s)
<1>1. PICK b \in Nat : b = PlmRest(plm.size)
  BY PlmRestIs DEF LzwKind, LzwPlms
<1>2. PICK k \in Nat : k = (plm.block + 1) % LzwWrap
  <2>1. plm.block + 1 \in Int
    BY DEF LzwKind, LzwPlms
  <2>2. (plm.block + 1) % LzwWrap \in 0 .. LzwWrap - 1
    BY <2>1, LzwNumbers, ModRange
  <2> QED
    BY <2>2
<1>3. PICK z \in Nat : z = IF PlmWidens THEN plm.size + 1 ELSE plm.size
  BY DEF LzwKind, LzwPlms
<1>4. PICK e \in Seq([prefix : Int, suffix : Int]) :
        e = IF PlmGrows THEN Append(plm.entries, [prefix |-> plm.prev, suffix |-> s[1]])
            ELSE plm.entries
  <2>1. s[1] \in Int
    BY DEF LzwStrings
  <2>2. plm.entries \in Seq([prefix : Int, suffix : Int]) /\ plm.prev \in Int
    BY DEF LzwKind, LzwPlms
  <2>3. [prefix |-> plm.prev, suffix |-> s[1]] \in [prefix : Int, suffix : Int]
    BY <2>1, <2>2
  <2>4. Append(plm.entries, [prefix |-> plm.prev, suffix |-> s[1]]) \in Seq([prefix : Int, suffix : Int])
    BY <2>2, <2>3
  <2> QED
    BY <2>2, <2>4
<1>5. PlmTakes(c) = [plm EXCEPT !.bits = b, !.block = k, !.out = s, !.prev = c, !.entries = e, !.size = z]
  BY <1>1, <1>2, <1>3, <1>4, Zenon DEF PlmTakes, PlmGrows, PlmWidens
<1>6. s \in Seq(Int)
  BY DEF LzwStrings
<1>7. PICK q : q = [plm EXCEPT !.bits = b, !.block = k, !.out = s, !.prev = c, !.entries = e, !.size = z]
  OBVIOUS
<1>8. q \in LzwPlms
  BY <1>6, <1>7 DEF LzwKind, LzwPlms
<1>9. /\ q.bits = b /\ q.block = k /\ q.out = s /\ q.prev = c /\ q.entries = e /\ q.size = z
      /\ q.max = plm.max /\ q.done = plm.done
  BY <1>7 DEF LzwKind, LzwPlms
<1>10. q = PlmTakes(c)
  BY <1>5, <1>7, Zenon
<1>11. PlmTook(q, c, s)
  BY <1>1, <1>2, <1>3, <1>4, <1>8, <1>9, Zenon DEF PlmTook
<1> QED
  BY <1>10, <1>11, Zenon

\* A side that has given up, which a side that never held a code does alike
LEMMA BreaksAre ==
    ASSUME LzwKind
    PROVE  /\ \A q : q = PyBreaks =>
                /\ q \in LzwPys /\ q.done /\ q.out = <<>> /\ q.bits = py.bits /\ q.size = py.size
                /\ q.max = py.max /\ q.prev = py.prev /\ q.dict = py.dict /\ q.block = py.block
           /\ \A q : q = PlmEnds =>
                /\ q \in LzwPlms /\ q.done /\ q.out = <<>> /\ q.bits = plm.bits /\ q.size = plm.size
                /\ q.max = plm.max /\ q.prev = plm.prev /\ q.entries = plm.entries
                /\ q.block = plm.block
<1>1. <<>> \in Seq(Int)
  OBVIOUS
<1>2. ASSUME NEW q, q = PyBreaks
      PROVE  /\ q \in LzwPys /\ q.done /\ q.out = <<>> /\ q.bits = py.bits /\ q.size = py.size
             /\ q.max = py.max /\ q.prev = py.prev /\ q.dict = py.dict /\ q.block = py.block
  <2>1. q = [py EXCEPT !.done = TRUE, !.out = <<>>]
    BY <1>2, Zenon DEF PyBreaks
  <2> QED
    BY <1>1, <2>1 DEF LzwKind, LzwPys
<1>3. ASSUME NEW q, q = PlmEnds
      PROVE  /\ q \in LzwPlms /\ q.done /\ q.out = <<>> /\ q.bits = plm.bits /\ q.size = plm.size
             /\ q.max = plm.max /\ q.prev = plm.prev /\ q.entries = plm.entries
             /\ q.block = plm.block
  <2>1. q = [plm EXCEPT !.done = TRUE, !.out = <<>>]
    BY <1>3, Zenon DEF PlmEnds
  <2> QED
    BY <1>1, <2>1 DEF LzwKind, LzwPlms
<1> QED
  BY <1>2, <1>3, Zenon

\* What Counted leaves
LEMMA CountedIs ==
    ASSUME LzwKind, NEW c, in' = Counted(c)
    PROVE  /\ in' \in LzwIns /\ in'.method = in.method /\ in'.alone = in.alone
           /\ in'.read = IF py'.block = 0 \/ py'.size # py.size THEN 0 ELSE in.read + 1
<1>1. PICK n \in Nat : n = IF py'.block = 0 \/ py'.size # py.size THEN 0 ELSE in.read + 1
  BY DEF LzwKind, LzwIns
<1>2. in' = [in EXCEPT !.read = n]
  BY <1>1, Zenon DEF Counted
<1> QED
  BY <1>1, <1>2 DEF LzwKind, LzwIns

\* Codes of padding that are taken where there are left bits: all of them, or as
\* many as there are.
LEMMA PaddingTaken ==
    ASSUME NEW size \in Nat \ {0}, NEW left \in Nat, NEW codes \in Nat
    PROVE  LET there == left \div size
               rest == left - size * (IF codes < there THEN codes ELSE there)
           IN  /\ rest \in Nat /\ size * (codes + 1) \in Nat
               /\ left + size < size * (codes + 1) => rest < size
               /\ ~(left + size < size * (codes + 1)) => rest = (left + size) - size * (codes + 1)
<1>1. PICK q \in Int, r \in 0 .. size - 1 : left = size * q + r /\ left % size = r /\ left \div size = q
  BY ModParts
<1>2. q >= 0
  <2> SUFFICES ASSUME q <= -1 PROVE FALSE
    OBVIOUS
  <2>1. PICK d \in Nat : q = -1 - d
    <3>1. -1 - q \in Nat /\ q = -1 - (-1 - q)
      OBVIOUS
    <3> QED
      BY <3>1
  <2>2. size * (-1 - d) = -size - size * d /\ size * d \in Nat
    OBVIOUS
  <2> QED
    BY <1>1, <2>1, <2>2
<1>3. size * (codes + 1) = size * codes + size /\ size * codes \in Nat
  OBVIOUS
<1>4. CASE codes < q
  <2>1. PICK d \in Nat : q = codes + d
    <3>1. q - codes \in Nat /\ q = codes + (q - codes)
      BY <1>2, <1>4
    <3> QED
      BY <3>1
  <2>2. size * (codes + d) = size * codes + size * d /\ size * d \in Nat
    OBVIOUS
  <2> QED
    BY <1>1, <1>3, <1>4, <2>1, <2>2
<1>5. CASE codes = q
  BY <1>1, <1>3, <1>5
<1>6. CASE codes > q
  <2>1. PICK d \in Nat : codes = q + 1 + d
    <3>1. codes - q - 1 \in Nat /\ codes = q + 1 + (codes - q - 1)
      BY <1>2, <1>6
    <3> QED
      BY <3>1
  <2>2. size * (q + 1 + d) = size * q + size + size * d /\ size * d \in Nat
    OBVIOUS
  <2> QED
    BY <1>1, <1>3, <1>6, <2>1, <2>2
<1> QED
  BY <1>1, <1>4, <1>5, <1>6

LEMMA PaddingIs == ASSUME NEW b \in Int PROVE Padding(b) \in Nat
<1>1. PICK r \in 0 .. LzwBlock - 1 : b % LzwBlock = r
  BY LzwNumbers, ModRange
<1>2. LzwBlock - r \in Int
  BY <1>1, LzwNumbers
<1>3. (LzwBlock - r) % LzwBlock \in 0 .. LzwBlock - 1
  BY <1>2, LzwNumbers, ModRange
<1>4. Padding(b) = (LzwBlock - r) % LzwBlock
  BY <1>1, Zenon DEF Padding
<1> QED
  BY <1>3, <1>4

\* Both sides after a clear code, with so many codes of padding
PyCleared(q, codes) ==
    /\ q \in LzwPys
    /\ IF py.bits < py.size * (codes + 1) THEN q.bits < py.size
       ELSE q.bits = py.bits - py.size * (codes + 1)
    /\ q.bits <= py.bits - py.size
    /\ q.block = 0 /\ q.out = <<>> /\ q.prev = <<>> /\ q.dict = <<>> /\ q.size = LzwInitBits
    /\ q.max = py.max /\ q.done = py.done
PlmCleared(q, codes) ==
    /\ q \in LzwPlms /\ q.bits = PlmRest(plm.size * (codes + 1))
    /\ q.block = 0 /\ q.out = <<>> /\ q.prev = -1 /\ q.entries = <<>> /\ q.size = LzwInitBits
    /\ q.max = plm.max /\ q.done = plm.done

LEMMA PyClearsIs ==
    ASSUME LzwKind, py.size # 0, py.bits >= py.size
    PROVE  PyCleared(PyClears, Padding(py.block + 1))
<1>1. PICK left \in Nat, size \in Nat \ {0} : left = py.bits - py.size /\ size = py.size
  BY DEF LzwKind, LzwPys
<1>2. PICK codes \in Nat : codes = Padding(py.block + 1)
  <2>1. py.block + 1 \in Int
    BY DEF LzwKind, LzwPys
  <2> QED
    BY <2>1, PaddingIs, Zenon
<1> DEFINE there == left \div size
           rest == left - size * (IF codes < there THEN codes ELSE there)
<1>3. /\ rest \in Nat
      /\ left + size < size * (codes + 1) => rest < size
      /\ ~(left + size < size * (codes + 1)) => rest = (left + size) - size * (codes + 1)
  BY PaddingTaken
<1>4. rest <= left
  <2>1. size * (IF codes < there THEN codes ELSE there) \in Nat
    <3>1. there \in Nat
      BY <1>1
    <3>2. (IF codes < there THEN codes ELSE there) \in Nat
      BY <3>1
    <3> HIDE DEF there
    <3> QED
      BY <3>2
  <2> HIDE DEF there
  <2> QED
    BY <2>1
<1>5. PyClears = [py EXCEPT !.bits = rest, !.dict = <<>>, !.size = LzwInitBits, !.prev = <<>>,
                            !.block = 0, !.out = <<>>]
  BY <1>1, <1>2, Zenon DEF PyClears
<1> HIDE DEF rest
<1>6. PICK q : q = [py EXCEPT !.bits = rest, !.dict = <<>>, !.size = LzwInitBits, !.prev = <<>>,
                              !.block = 0, !.out = <<>>]
  OBVIOUS
<1>7. <<>> \in Seq(Int) /\ <<>> \in Seq(LzwStrings) /\ LzwInitBits \in Nat /\ 0 \in Nat
  BY LzwNumbers
<1>8. q \in LzwPys
  BY <1>3, <1>6, <1>7 DEF LzwKind, LzwPys
<1>9. /\ q.bits = rest /\ q.block = 0 /\ q.out = <<>> /\ q.prev = <<>> /\ q.dict = <<>>
      /\ q.size = LzwInitBits /\ q.max = py.max /\ q.done = py.done
  BY <1>6 DEF LzwKind, LzwPys
<1>10. /\ IF py.bits < py.size * (codes + 1) THEN q.bits < py.size
          ELSE q.bits = py.bits - py.size * (codes + 1)
       /\ q.bits <= py.bits - py.size
  <2>1. py.bits = left + size
    BY <1>1 DEF LzwKind, LzwPys
  <2>2. left = py.bits - py.size /\ size = py.size /\ q.bits = rest
    BY <1>1, <1>9
  <2>3. IF left + size < size * (codes + 1) THEN rest < size
        ELSE rest = (left + size) - size * (codes + 1)
    BY <1>3
  <2> QED
    BY <1>4, <2>1, <2>2, <2>3, Zenon
<1>11. PyCleared(q, codes)
  BY <1>8, <1>9, <1>10, Zenon DEF PyCleared
<1> QED
  BY <1>2, <1>5, <1>6, <1>11, Zenon

LEMMA PlmClearsIs ==
    ASSUME LzwKind
    PROVE  PlmCleared(PlmClears, Padding((plm.block + 1) % LzwWrap))
<1>1. PICK codes \in Nat : codes = Padding((plm.block + 1) % LzwWrap)
  <2>1. plm.block + 1 \in Int
    BY DEF LzwKind, LzwPlms
  <2>2. (plm.block + 1) % LzwWrap \in Int
    BY <2>1, LzwNumbers
  <2> QED
    BY <2>2, PaddingIs, Zenon
<1>2. PICK b \in Nat : b = PlmRest(plm.size * (codes + 1))
  <2>1. plm.size \in Nat
    BY DEF LzwKind, LzwPlms
  <2>2. plm.size * (codes + 1) \in Nat
    BY <2>1
  <2> QED
    BY <2>2, PlmRestIs
<1>3. PlmClears = [plm EXCEPT !.bits = b, !.entries = <<>>, !.size = LzwInitBits, !.prev = -1,
                              !.block = 0, !.out = <<>>]
  BY <1>1, <1>2, Zenon DEF PlmClears
<1>4. PICK q : q = [plm EXCEPT !.bits = b, !.entries = <<>>, !.size = LzwInitBits, !.prev = -1,
                              !.block = 0, !.out = <<>>]
  OBVIOUS
<1>5. <<>> \in Seq(Int) /\ <<>> \in Seq([prefix : Int, suffix : Int]) /\ LzwInitBits \in Nat /\ 0 \in Nat
      /\ -1 \in Int
  BY LzwNumbers
<1>6. q \in LzwPlms
  BY <1>4, <1>5 DEF LzwKind, LzwPlms
<1>7. /\ q.bits = b /\ q.block = 0 /\ q.out = <<>> /\ q.prev = -1 /\ q.entries = <<>>
      /\ q.size = LzwInitBits /\ q.max = plm.max /\ q.done = plm.done
  BY <1>4 DEF LzwKind, LzwPlms
<1>8. PlmCleared(q, codes)
  BY <1>2, <1>6, <1>7, Zenon DEF PlmCleared
<1> QED
  BY <1>1, <1>3, <1>4, <1>8, Zenon

LEMMA GrowsAlike ==
    ASSUME LzwKind, LzwTogether, in.alone = 0, Old => LeftEnough
    PROVE  /\ (plm.prev # -1) = (py.prev # <<>>) /\ PlmNext = PyNext
           /\ PyGrows = PlmGrows /\ PyWidens = PlmWidens
<1>1. plm.size = py.size /\ plm.done = py.done /\ plm.out = py.out
  BY DEF LzwTogether, LzwSame
<1>2. PlmNext = PyNext /\ PyNext \in Nat
  <2>1. Len(plm.entries) = Len(py.dict)
    BY DEF LzwTogether, Entries
  <2> QED
    BY <2>1, StringsAre DEF LzwTogether, PlmNext, PyNext
<1>3. (plm.prev # -1) = (py.prev # <<>>)
  <2>1. CASE plm.prev = -1 /\ py.prev = <<>>
    BY <2>1
  <2>2. CASE LzwKnown(plm.prev, Len(py.dict)) /\ py.prev = StringIs(plm.prev)
    <3>1. plm.prev \in Int
      BY DEF LzwKind, LzwPlms
    <3>2. StringIs(plm.prev) \in LzwStrings
      BY <2>2, <3>1, StringsAre DEF LzwTogether
    <3>3. py.prev # <<>>
      BY <2>2, <3>2 DEF LzwStrings
    <3>4. plm.prev # -1
      BY <2>2, LzwNumbers DEF LzwKnown
    <3> QED
      BY <3>3, <3>4
  <2> QED
    BY <2>1, <2>2 DEF LzwTogether, Previous
<1>4. PyGrows = PlmGrows
  <2>1. CASE Old
    <3>1. py.max = LzwOldBits /\ 2 ^ LzwOldBits <= 2 ^ plm.max
      BY <2>1, WidthsAre DEF LzwTogether, Widths
    <3>2. 2 ^ plm.max \in Nat /\ 2 ^ py.max \in Nat
      BY WidthsAre DEF LzwTogether
    <3>3. PyNext < 2 ^ py.max <=> PlmNext < 2 ^ plm.max /\ PlmNext < 2 ^ LzwOldBits
      BY <1>2, <3>1, <3>2
    <3> QED
      BY <1>3, <2>1, <3>3 DEF PyGrows, PlmGrows
  <2>2. CASE ~Old
    <3>1. plm.max = py.max
      BY <2>2 DEF LzwTogether, Widths
    <3> QED
      BY <1>2, <1>3, <2>2, <3>1 DEF PyGrows, PlmGrows
  <2> QED
    BY <2>1, <2>2
<1>5. PyWidens = PlmWidens
  <2>1. CASE Old
    <3>1. ~(py.size < py.max)
      BY <2>1, WidthsAre DEF LzwTogether, Widths
    <3> QED
      BY <2>1, <3>1 DEF PyWidens, PlmWidens
  <2>2. CASE ~Old
    <3>1. plm.max = py.max
      BY <2>2 DEF LzwTogether, Widths
    <3> QED
      BY <1>1, <1>2, <1>4, <2>2, <3>1, Zenon DEF PyWidens, PlmWidens
  <2> QED
    BY <2>1, <2>2
<1> QED
  BY <1>2, <1>3, <1>4, <1>5

\* A code that both can take, with the string it stands for
Stands(c, s) ==
    /\ c \in Nat /\ c < 2 ^ py.size /\ s \in LzwStrings
    /\ \/ LzwKnown(c, Len(py.dict)) /\ s = StringIs(c)
       \/ c = PyNext /\ py.prev # <<>> /\ s = Append(py.prev, py.prev[1])

LEMMA Appended ==
    ASSUME NEW S, NEW q \in Seq(S), NEW e \in S
    PROVE  /\ Append(q, e) \in Seq(S) /\ Len(Append(q, e)) = Len(q) + 1
           /\ \A i \in 1 .. Len(q) : Append(q, e)[i] = q[i]
           /\ Append(q, e)[Len(q) + 1] = e
OBVIOUS

LEMMA TableTakes ==
    ASSUME LzwKind, LzwTogether, in.alone = 0, Old => LeftEnough, NEW c, NEW s, Stands(c, s),
           PyTook(py', s), PlmTook(plm', c, s), in'.method = in.method
    PROVE  Entries' /\ Previous'
<1> DEFINE n == Len(py.dict)
           new == [prefix |-> plm.prev, suffix |-> s[1]]
           str == Append(py.prev, s[1])
<1>1. /\ n \in Nat /\ py.dict \in Seq(LzwStrings) /\ PyNext = FirstCode + n
      /\ plm.entries \in Seq([prefix : Int, suffix : Int]) /\ Len(plm.entries) = n
  BY StringsAre DEF LzwTogether, Entries, LzwKind, LzwPlms
<1>2. FirstCode' = FirstCode /\ (LzwKnown(0, 0) => TRUE)
  BY DEF FirstCode, Old
<1>3. \A k, m : LzwKnown(k, m)' <=> LzwKnown(k, m)
  BY <1>2 DEF LzwKnown
<1>4. py'.prev = s /\ plm'.prev = c
  BY DEF PyTook, PlmTook
<1>5. \A i \in 1 .. n :
        /\ LzwKnown(plm.entries[i].prefix, i - 1)
        /\ py.dict[i] = Append(StringIs(plm.entries[i].prefix), plm.entries[i].suffix)
  BY DEF LzwTogether, Entries
<1>6. CASE PyGrows
  <2>1. py'.dict = Append(py.dict, str) /\ plm'.entries = Append(plm.entries, new)
    BY <1>6, GrowsAlike DEF PyTook, PlmTook
  <2>2. /\ Len(py'.dict) = n + 1 /\ Len(plm'.entries) = n + 1
        /\ \A i \in 1 .. n : py'.dict[i] = py.dict[i] /\ plm'.entries[i] = plm.entries[i]
        /\ py'.dict[n + 1] = str /\ plm'.entries[n + 1] = new
    <3>1. s[1] \in Int /\ plm.prev \in Int /\ py.prev \in Seq(Int)
      BY DEF Stands, LzwStrings, LzwKind, LzwPys, LzwPlms
    <3>2. str \in LzwStrings
      <4>1. str \in Seq(Int) /\ str # <<>>
        BY <3>1
      <4> QED
        BY <4>1 DEF LzwStrings
    <3>3. new \in [prefix : Int, suffix : Int]
      BY <3>1
    <3>4. /\ Len(py'.dict) = n + 1 /\ \A i \in 1 .. n : py'.dict[i] = py.dict[i]
          /\ py'.dict[n + 1] = str
      BY <1>1, <2>1, <3>2, Appended
    <3>5. /\ Len(plm'.entries) = n + 1 /\ \A i \in 1 .. n : plm'.entries[i] = plm.entries[i]
          /\ plm'.entries[n + 1] = new
      BY <1>1, <2>1, <3>3, Appended
    <3> QED
      BY <3>4, <3>5
  <2> DEFINE Now(k) == StringIn(py'.dict, k)
  <2>3. \A k \in Int : LzwKnown(k, n) => Now(k) = StringIs(k)
    <3> SUFFICES ASSUME NEW k \in Int, LzwKnown(k, n) PROVE Now(k) = StringIs(k)
      OBVIOUS
    <3>1. CASE k < LzwRoots
      BY <3>1 DEF StringIs, StringIn
    <3>2. CASE ~(k < LzwRoots)
      <4>1. k - FirstCode + 1 \in 1 .. n
        BY <1>1, <3>2, LzwNumbers DEF LzwKnown
      <4> QED
        BY <1>2, <2>2, <3>2, <4>1 DEF StringIs, StringIn
    <3> QED
      BY <3>1, <3>2
  <2>4. LzwKnown(plm.prev, n) /\ py.prev = StringIs(plm.prev) /\ plm.prev \in Int
    <3>1. py.prev # <<>>
      BY <1>6 DEF PyGrows
    <3> QED
      BY <3>1 DEF LzwTogether, Previous, LzwKind, LzwPlms
  <2>5. Entries'
    <3>1. ASSUME NEW i \in 1 .. n + 1
          PROVE  /\ LzwKnown(plm'.entries[i].prefix, i - 1)
                 /\ py'.dict[i] = Append(Now(plm'.entries[i].prefix), plm'.entries[i].suffix)
      <4>1. CASE i \in 1 .. n
        <5>1. i - 1 \in 0 .. n
          BY <1>1, <4>1
        <5>2. plm.entries[i].prefix \in Int /\ LzwKnown(plm.entries[i].prefix, n)
          BY <1>1, <1>5, <4>1, <5>1, KnownBefore, Zenon
        <5> QED
          BY <1>5, <2>2, <2>3, <4>1, <5>2, Zenon
      <4>2. CASE i = n + 1
        <5>1. i - 1 = n
          BY <1>1, <4>2
        <5>2. new.prefix = plm.prev /\ new.suffix = s[1]
          OBVIOUS
        <5>3. str = Append(Now(plm.prev), s[1])
          BY <2>3, <2>4
        <5> HIDE DEF new, str
        <5> QED
          BY <2>2, <2>4, <4>2, <5>1, <5>2, <5>3, Zenon
      <4> QED
        BY <1>1, <3>1, <4>1, <4>2
    <3>2. \A k : StringIs(k)' = Now(k)
      BY <1>2 DEF StringIs, StringIn
    <3> HIDE DEF Now
    <3> QED
      BY <1>3, <2>2, <3>1, <3>2 DEF Entries
  <2>6. Previous'
    <3>1. CASE LzwKnown(c, n) /\ s = StringIs(c)
      <4>1. LzwKnown(c, n + 1)
        BY <1>1, <3>1, LzwNumbers DEF LzwKnown
      <4>2. s = Now(c)
        BY <2>3, <3>1 DEF Stands
      <4>3. \A k : StringIs(k)' = Now(k)
        BY <1>2 DEF StringIs, StringIn
      <4> QED
        BY <1>3, <1>4, <2>2, <4>1, <4>2, <4>3 DEF Previous
    <3>2. CASE c = PyNext /\ py.prev # <<>> /\ s = Append(py.prev, py.prev[1])
      <4>1. LzwKnown(c, n + 1)
        BY <1>1, <3>2, LzwNumbers DEF LzwKnown
      <4>2. s[1] = py.prev[1]
        BY <3>2 DEF LzwKind, LzwPys
      <4>3. s = str
        BY <3>2, <4>2
      <4>4. ~(c < LzwRoots) /\ c - FirstCode + 1 = n + 1
        BY <1>1, <3>2, LzwNumbers
      <4>5. \A k : StringIs(k)' = Now(k)
        BY <1>2 DEF StringIs, StringIn
      <4>6. Now(c) = str
        BY <2>2, <4>4 DEF StringIn
      <4> HIDE DEF str
      <4> QED
        BY <1>3, <1>4, <2>2, <4>1, <4>3, <4>5, <4>6 DEF Previous
    <3> QED
      BY <3>1, <3>2 DEF Stands
  <2> QED
    BY <2>5, <2>6
<1>7. CASE ~PyGrows
  <2>1. py'.dict = py.dict /\ plm'.entries = plm.entries
    BY <1>7, GrowsAlike DEF PyTook, PlmTook
  <2>2. LzwKnown(c, n) /\ s = StringIs(c)
    <3>1. ~(c = PyNext /\ py.prev # <<>>)
      <4>1. 2 ^ py.size <= 2 ^ py.max /\ 2 ^ py.size \in Nat /\ 2 ^ py.max \in Nat
        BY WidthsAre DEF LzwTogether
      <4> QED
        BY <1>7, <4>1 DEF PyGrows, Stands
    <3> QED
      BY <3>1 DEF Stands
  <2>3. \A k : StringIs(k)' = StringIs(k)
    BY <1>2, <2>1 DEF StringIs, StringIn
  <2>4. Entries'
    BY <1>1, <1>3, <1>5, <2>1, <2>3 DEF Entries
  <2> QED
    BY <1>3, <1>4, <2>1, <2>2, <2>3, <2>4 DEF Previous
<1> QED
  BY <1>6, <1>7

LEMMA RoomTakes ==
    ASSUME LzwKind, LzwTogether, in.alone = 0, Old => LeftEnough, NEW c, NEW s,
           PyTook(py', s), PlmTook(plm', c, s), in'.method = in.method
    PROVE  Widths' /\ Room' /\ plm'.size = py'.size
<1>1. Old' = Old /\ FirstCode' = FirstCode
  BY DEF FirstCode, Old
<1>2. py'.max = py.max /\ plm'.max = plm.max /\ plm.size = py.size
  BY DEF PyTook, PlmTook, LzwTogether, LzwSame
<1>3. /\ py.size \in Nat /\ py.max \in Nat /\ py.size <= py.max /\ FirstCode \in Nat
      /\ Len(py.dict) \in Nat /\ PyNext = FirstCode + Len(py.dict) /\ PyNext \in Nat
      /\ 2 ^ py.size \in Nat \ {0} /\ 2 ^ py.max \in Nat \ {0} /\ 2 ^ (py.size + 1) = 2 * 2 ^ py.size
  BY WidthsAre, StringsAre, LzwNumbers DEF LzwTogether
<1>4. PyNext <= 2 ^ py.size /\ (py.size < py.max => PyNext < 2 ^ py.size)
  BY DEF LzwTogether, Room
<1>5. PyNext' = IF PyGrows THEN PyNext + 1 ELSE PyNext
  <2>1. CASE PyGrows
    <3>1. py'.dict = Append(py.dict, Append(py.prev, s[1]))
      BY <2>1 DEF PyTook
    <3>2. Len(py'.dict) = Len(py.dict) + 1
      <4>1. py.dict \in Seq(LzwStrings)
        BY StringsAre DEF LzwTogether
      <4>2. \A S, e : \A q \in Seq(S) : Len(Append(q, e)) = Len(q) + 1
        OBVIOUS
      <4> QED
        BY <3>1, <4>1, <4>2
    <3> QED
      BY <1>1, <1>3, <2>1, <3>2 DEF PyNext
  <2>2. CASE ~PyGrows
    BY <1>1, <1>3, <2>2 DEF PyNext, PyTook
  <2> QED
    BY <2>1, <2>2
<1>6. /\ py'.size = IF PyWidens THEN py.size + 1 ELSE py.size
      /\ plm'.size = py'.size
  BY <1>2, GrowsAlike DEF PyTook, PlmTook
<1>7. Widths'
  <2>1. CASE Old
    <3>1. ~PyWidens
      <4>1. py.size = py.max
        BY <2>1 DEF LzwTogether, Widths
      <4> QED
        BY <1>3, <4>1 DEF PyWidens
    <3>2. py.size = LzwOldBits /\ py.max = LzwOldBits /\ plm.max \in LzwLeft
      BY <2>1 DEF LzwTogether, Widths
    <3>3. py'.size = py.size
      BY <1>6, <3>1
    <3>4. Old' /\ py'.size = LzwOldBits /\ py'.max = LzwOldBits /\ plm'.max \in LzwLeft
      BY <1>1, <1>2, <2>1, <3>2, <3>3
    <3> QED
      BY <3>4, Zenon DEF Widths, Old
  <2>2. CASE ~Old
    <3>1. py.size + 1 \in LzwInitBits .. py.max \/ ~PyWidens
      <4>1. py.size \in LzwInitBits .. py.max /\ LzwInitBits \in Nat
        BY <2>2, LzwNumbers DEF LzwTogether, Widths
      <4>2. PyWidens => py.size < py.max
        BY Zenon DEF PyWidens
      <4> QED
        BY <1>3, <4>1, <4>2
    <3>2. py'.size \in LzwInitBits .. py.max
      BY <1>6, <2>2, <3>1 DEF LzwTogether, Widths
    <3> QED
      BY <1>1, <1>2, <2>2, <3>2 DEF LzwTogether, Widths
  <2> QED
    BY <2>1, <2>2
<1>8. Room'
  <2> DEFINE sz == py.size
             p == 2 ^ py.size
             top == 2 ^ py.max
  <2>1. PyGrows => PyNext < top
    BY DEF PyGrows
  <2>2. CASE PyWidens
    <3>1. py'.size = sz + 1 /\ PyNext' = PyNext + 1 /\ sz < py.max
      BY <1>5, <1>6, <2>2 DEF PyWidens
    <3>2. 2 ^ py'.size = 2 * p
      BY <1>3, <3>1
    <3>3. PyNext + 1 < 2 * p /\ PyNext + 1 <= 2 * p
      <4>1. PyNext < p /\ PyNext \in Nat /\ p \in Nat
        BY <1>3, <1>4, <3>1
      <4> HIDE DEF p
      <4> QED
        BY <4>1
    <3> QED
      BY <3>1, <3>2, <3>3 DEF Room
  <2>3. CASE ~PyWidens /\ PyGrows
    <3>1. py'.size = sz /\ PyNext' = PyNext + 1
      BY <1>5, <1>6, <2>3
    <3>2. CASE sz < py.max
      <4>1. ~(PyNext + 1 > p - 1)
        BY <2>3, <3>2 DEF PyWidens
      <4>2. PyNext + 1 < p /\ PyNext + 1 <= p
        <5>1. PyNext \in Nat /\ p \in Nat
          BY <1>3
        <5> HIDE DEF p
        <5> QED
          BY <4>1, <5>1
      <4> QED
        BY <1>2, <3>1, <4>2 DEF Room
    <3>3. CASE ~(sz < py.max)
      <4>1. sz = py.max
        BY <1>3, <3>3
      <4>2. PyNext + 1 <= p
        <5>1. PyNext \in Nat /\ p \in Nat /\ PyNext < p
          BY <1>3, <2>1, <2>3, <4>1
        <5> HIDE DEF p
        <5> QED
          BY <5>1
      <4> QED
        BY <1>2, <3>1, <3>3, <4>2 DEF Room
    <3> QED
      BY <3>2, <3>3
  <2>4. CASE ~PyWidens /\ ~PyGrows
    BY <1>2, <1>4, <1>5, <1>6, <2>4 DEF Room
  <2> QED
    BY <2>2, <2>3, <2>4 DEF PyWidens
<1> QED
  BY <1>6, <1>7, <1>8

LEMMA ModZero == ASSUME NEW n \in Nat \ {0}, NEW q \in Int PROVE (n * q) % n = 0
<1>1. 0 \in 0 .. n - 1 /\ n * q = n * q + 0
  OBVIOUS
<1> QED
  BY <1>1, ModIs

\* A block is full when a code widens: as many codes of each width are read as
\* a power of two holds, and blocks go into the smallest one.
LEMMA BlockFull ==
    ASSUME LzwKind, LzwTogether, in.alone = 0, ~Old, ~py.done, PyWidens
    PROVE  (py.block + 1) % LzwBlock = 0
<1>1. py.prev # <<>> /\ PyNext < 2 ^ py.max /\ PyNext + 1 > 2 ^ py.size - 1 /\ py.size < py.max
  BY DEF PyWidens, PyGrows
<1>2. PyNext = LzwRoots + py.block
  BY <1>1 DEF LzwTogether, Counts, Counted1
<1>3. PyNext < 2 ^ py.size /\ PyNext \in Nat /\ 2 ^ py.size \in Nat
  BY <1>1, StringsAre, WidthsAre DEF LzwTogether, Room
<1>4. PyNext + 1 = 2 ^ py.size
  BY <1>1, <1>3
<1>5. py.block \in Nat /\ LzwRoots \in Nat \ {0}
  BY LzwNumbers DEF LzwKind, LzwPys
<1>6. PICK q \in Nat : 2 ^ py.size = LzwRoots * q
  <2>1. LzwByte \in Nat /\ LzwByte <= py.size /\ py.size <= py.max + 1 /\ Powers(py.max)
        /\ py.max \in Nat /\ py.size \in Nat
    BY WidthsAre, LzwNumbers DEF LzwTogether
  <2>2. Multiple(2 ^ py.size, 2 ^ LzwByte)
    BY <2>1, PowerDivides
  <2> QED
    BY <2>2 DEF Multiple, LzwRoots
<1>7. PICK m \in Int : LzwRoots = LzwBlock * m
  <2>1. LzwRoots % LzwBlock = 0 /\ LzwRoots \in Int /\ LzwBlock \in Nat \ {0}
    BY LzwAssumption, LzwNumbers
  <2>2. \E m \in Int, v \in 0 .. LzwBlock - 1 :
          LzwRoots = LzwBlock * m + v /\ LzwRoots % LzwBlock = v /\ LzwRoots \div LzwBlock = m
    BY <2>1, ModParts, Zenon
  <2>3. PICK m \in Int, v \in 0 .. LzwBlock - 1 : LzwRoots = LzwBlock * m + v /\ v = 0
    BY <2>1, <2>2
  <2> QED
    BY <2>1, <2>3
<1>8. py.block + 1 = LzwBlock * (m * q - m)
  <2>1. py.block + 1 = LzwRoots * q - LzwRoots
    BY <1>2, <1>4, <1>5, <1>6
  <2>2. \A b, x, y \in Int : (b * x) * y - b * x = b * (x * y - x)
    OBVIOUS
  <2>3. LzwBlock \in Int
    BY LzwNumbers
  <2> QED
    BY <1>7, <2>1, <2>2, <2>3
<1>9. PICK u \in Int : py.block + 1 = LzwBlock * u
  BY <1>8
<1>10. LzwBlock \in Nat \ {0}
  BY LzwNumbers
<1>11. (LzwBlock * u) % LzwBlock = 0
  BY <1>10, ModZero, Zenon
<1> QED
  BY <1>9, <1>11, Zenon

\* What both read a code from
LEMMA SameBits ==
    ASSUME LzwKind, LzwTogether, in.alone = 0, Old => LeftEnough, PyReads, PlmReads
    PROVE  /\ plm.bits = py.bits /\ ~(plm.bits < plm.size) /\ py.bits >= py.size /\ py.size # 0
           /\ ~py.done /\ plm.size = py.size /\ plm.done = py.done
           /\ py.bits \in Nat /\ py.size \in Nat /\ py.block \in Nat /\ plm.block \in Nat
           /\ in.read \in Nat
<1>1. /\ py.bits \in Nat /\ plm.bits \in Nat /\ py.size \in Nat /\ py.block \in Nat
      /\ plm.block \in Nat /\ in.read \in Nat
  BY DEF LzwKind, LzwPys, LzwPlms, LzwIns
<1>2. ~py.done /\ py.bits >= py.size /\ plm.bits \div LzwByte > 0
  BY DEF PyReads, PlmReads
<1>3. plm.bits # 0
  <2>1. 0 \div LzwByte = 0
    BY LzwNumbers
  <2> QED
    BY <1>2, <2>1
<1>4. plm.size = py.size /\ plm.done = py.done /\ plm.bits = py.bits
  BY <1>3 DEF LzwTogether, LzwSame, BitsLeft
<1>5. py.size # 0
  BY WidthsAre, LzwNumbers DEF LzwTogether
<1> QED
  BY <1>1, <1>2, <1>4, <1>5

\* The byte that counts the codes goes round, and tells as much as the number.
LEMMA BlockGoesRound ==
    ASSUME LzwKind, plm.block = py.block % LzwWrap
    PROVE  /\ (plm.block + 1) % LzwWrap = (py.block + 1) % LzwWrap
           /\ ((plm.block + 1) % LzwWrap) % LzwBlock = (py.block + 1) % LzwBlock
           /\ plm.block % LzwBlock = py.block % LzwBlock
<1>1. PICK k \in Int : k = py.block
  BY DEF LzwKind, LzwPys
<1>2. /\ LzwWrap \in Nat \ {0} /\ LzwBlock \in Nat \ {0} /\ LzwWrap % LzwBlock = 0 /\ 1 \in Int
      /\ k + 1 \in Int
  BY LzwNumbers, LzwAssumption
<1>3. ((k % LzwWrap) + 1) % LzwWrap = (k + 1) % LzwWrap
  BY <1>2, ModOn, Zenon
<1>4. (k % LzwWrap) % LzwBlock = k % LzwBlock
  BY <1>2, ModOfMod, Zenon
<1>5. ((k + 1) % LzwWrap) % LzwBlock = (k + 1) % LzwBlock
  BY <1>2, ModOfMod, Zenon
<1> QED
  BY <1>1, <1>3, <1>4, <1>5, Zenon

LEMMA CountsTakes ==
    ASSUME LzwKind, LzwTogether, in.alone = 0, Old => LeftEnough, NEW c, NEW s,
           Stands(c, s), PyTook(py', s), PlmTook(plm', c, s), PyReads, PlmReads, in'.method = in.method,
           in'.read = IF py'.block = 0 \/ py'.size # py.size THEN 0 ELSE in.read + 1
    PROVE  BitsLeft' /\ Counts'
<1>1. Old' = Old /\ FirstCode' = FirstCode
  BY DEF FirstCode, Old
<1>2. PICK bits \in Nat, size \in Nat, block \in Nat, read \in Nat :
        /\ bits = py.bits /\ size = py.size /\ block = py.block /\ read = in.read
        /\ plm.bits = bits /\ plm.size = size /\ bits >= size
  BY SameBits
<1>3. py'.bits = plm'.bits
  <2>1. py'.bits = bits - size
    BY <1>2 DEF PyTook
  <2>2. PlmRest(plm.size) = bits - size
    BY <1>2, PlmRestIs
  <2> QED
    BY <2>1, <2>2 DEF PlmTook
<1>4. BitsLeft'
  BY <1>3 DEF BitsLeft
<1>5. py'.block = block + 1 /\ py'.block # 0 /\ plm'.block = (plm.block + 1) % LzwWrap
  BY <1>2 DEF PyTook, PlmTook
<1>6. plm'.block = py'.block % LzwWrap
  BY <1>2, <1>5, BlockGoesRound DEF LzwTogether, Counts
<1>7. ASSUME ~Old, ~py.done PROVE Counted1'
  <2>1. /\ read % LzwBlock = block % LzwBlock
        /\ py.prev = <<>> => block = 0 /\ py.dict = <<>>
        /\ py.prev # <<>> /\ PyNext < 2 ^ py.max => PyNext = LzwRoots + block
    BY <1>2, <1>7 DEF LzwTogether, Counts, Counted1
  <2>2. in'.read % LzwBlock = py'.block % LzwBlock
    <3>1. CASE PyWidens
      <4>1. py'.size # py.size
        BY <1>2, <3>1 DEF PyTook
      <4>2. in'.read = 0
        BY <4>1
      <4>3. 0 % LzwBlock = 0
        BY LzwNumbers
      <4>4. py'.block % LzwBlock = 0
        BY <1>2, <1>5, <1>7, <3>1, BlockFull
      <4> QED
        BY <4>2, <4>3, <4>4
    <3>2. CASE ~PyWidens
      <4>1. in'.read = read + 1
        BY <1>2, <1>5, <3>2 DEF PyTook
      <4>2. LzwBlock \in Nat \ {0} /\ read \in Int /\ block \in Int
        BY LzwNumbers
      <4>3. (read + 1) % LzwBlock = (block + 1) % LzwBlock
        BY <2>1, <4>2, ModNext, Zenon
      <4> QED
        BY <1>5, <4>1, <4>3, Zenon
    <3> QED
      BY <3>1, <3>2, Zenon
  <2>3. py'.prev = s /\ s # <<>> /\ py'.max = py.max
    BY DEF PyTook, Stands, LzwStrings
  <2>4. PyNext' < 2 ^ py'.max => PyNext' = LzwRoots + py'.block
    <3>1. PICK n \in Nat, roots \in Nat, top \in Nat :
            /\ n = Len(py.dict) /\ roots = LzwRoots /\ top = 2 ^ py.max
            /\ PyNext = roots + 1 + n /\ FirstCode = roots + 1
      BY <1>7, StringsAre, LzwNumbers, WidthsAre DEF LzwTogether
    <3>2. CASE PyGrows
      <4>1. py'.dict = Append(py.dict, Append(py.prev, s[1]))
        BY <3>2 DEF PyTook
      <4>2. Len(py'.dict) = n + 1
        <5>1. py.dict \in Seq(LzwStrings)
          BY StringsAre DEF LzwTogether
        <5>2. \A S, e : \A q \in Seq(S) : Len(Append(q, e)) = Len(q) + 1
          OBVIOUS
        <5> QED
          BY <3>1, <4>1, <5>1, <5>2
      <4>3. PyNext' = roots + 1 + (n + 1)
        BY <1>1, <3>1, <4>2 DEF PyNext
      <4>4. roots + 1 + n = roots + block
        BY <2>1, <3>1, <3>2 DEF PyGrows
      <4>5. roots + 1 + (n + 1) = roots + (block + 1)
        BY <4>4
      <4> QED
        BY <1>5, <3>1, <4>3, <4>5, Zenon
    <3>3. CASE ~PyGrows
      <4>1. py'.dict = py.dict
        BY <3>3 DEF PyTook
      <4>2. PyNext' = roots + 1 + n
        BY <1>1, <3>1, <4>1 DEF PyNext
      <4>3. CASE py.prev = <<>>
        <5>1. block = 0 /\ n = 0
          BY <2>1, <3>1, <4>3
        <5> QED
          BY <1>5, <3>1, <4>2, <5>1
      <4>4. CASE py.prev # <<>>
        <5>1. ~(roots + 1 + n < top)
          BY <3>1, <3>3, <4>4 DEF PyGrows
        <5> QED
          BY <2>3, <3>1, <4>2, <5>1
      <4> QED
        BY <4>3, <4>4
    <3> QED
      BY <3>2, <3>3
  <2> QED
    BY <2>2, <2>3, <2>4, Zenon DEF Counted1
<1>8. py'.done = py.done
  BY DEF PyTook
<1> QED
  BY <1>1, <1>4, <1>6, <1>7, <1>8 DEF Counts

LEMMA TakesTogether ==
    ASSUME LzwKind, LzwTogether, in.alone = 0, Old => LeftEnough, NEW c, NEW s,
           Stands(c, s), PyTook(py', s), PlmTook(plm', c, s), PyReads, PlmReads,
           in'.method = in.method, in'.alone = in.alone,
           in'.read = IF py'.block = 0 \/ py'.size # py.size THEN 0 ELSE in.read + 1
    PROVE  LzwTogether'
<1>1. Entries' /\ Previous'
  BY TableTakes
<1>2. Widths' /\ Room' /\ plm'.size = py'.size
  BY RoomTakes
<1>3. BitsLeft' /\ Counts'
  BY CountsTakes
<1>4. plm'.out = py'.out /\ plm'.done = py'.done /\ in'.alone = 0
  BY SameBits DEF PyTook, PlmTook
<1>5. LzwSame'
  BY <1>2, <1>4 DEF LzwSame
<1> QED
  BY <1>1, <1>2, <1>3, <1>5, Zenon DEF LzwTogether

\* An empty table leaves room in codes of any width used.
LEMMA StartRoom ==
    ASSUME NEW top \in Nat, Powers(top), NEW w \in Nat, LzwByte < w, w <= top
    PROVE  LzwRoots + 1 < 2 ^ w
<1>1. /\ LzwByte \in 0 .. top /\ LzwByte \in Nat /\ LzwByte - 1 \in 0 .. top
      /\ (LzwByte - 1) + 1 = LzwByte /\ LzwByte + 1 <= w /\ LzwByte + 1 \in Nat /\ w <= top + 1
  BY LzwNumbers
<1>2. 2 ^ (LzwByte + 1) = 2 * LzwRoots
  BY <1>1 DEF Powers, LzwRoots
<1>3. 2 ^ LzwByte = 2 * 2 ^ (LzwByte - 1) /\ 2 ^ (LzwByte - 1) \in Nat \ {0}
  BY <1>1 DEF Powers
<1>4. 2 ^ (LzwByte + 1) <= 2 ^ w
  BY <1>1, PowersGrow
<1>5. PICK x \in Nat \ {0} : x = 2 ^ (LzwByte - 1)
  BY <1>3
<1>6. LzwRoots = 2 * x
  BY <1>3, <1>5 DEF LzwRoots
<1>7. 2 ^ w \in Nat
  BY <1>1, PowersAre
<1>8. PICK y \in Nat : y = 2 ^ w
  BY <1>7
<1>9. 4 * x <= y
  BY <1>2, <1>4, <1>6, <1>8
<1>10. 2 * x + 1 < y
  BY <1>9
<1> QED
  BY <1>6, <1>8, <1>10

LEMMA ClearsTogether ==
    ASSUME LzwKind, LzwTogether, in.alone = 0, ~Old, NEW codes \in Nat,
           PyCleared(py', codes), PlmCleared(plm', codes), PyReads, PlmReads,
           in'.method = in.method, in'.alone = in.alone,
           in'.read = IF py'.block = 0 \/ py'.size # py.size THEN 0 ELSE in.read + 1
    PROVE  LzwTogether'
<1>1. Old' = Old /\ FirstCode' = FirstCode /\ (Old => LeftEnough)
  BY DEF FirstCode, Old
<1>2. /\ py'.dict = <<>> /\ plm'.entries = <<>> /\ py'.prev = <<>> /\ plm'.prev = -1
      /\ py'.size = LzwInitBits /\ plm'.size = LzwInitBits /\ py'.max = py.max /\ plm'.max = plm.max
      /\ py'.block = 0 /\ plm'.block = 0 /\ py'.out = <<>> /\ plm'.out = <<>>
      /\ py'.done = py.done /\ plm'.done = plm.done
  BY DEF PyCleared, PlmCleared
<1>3. /\ py.max \in Nat /\ py.max < 2 * LzwInitBits /\ py.size \in LzwInitBits .. py.max
      /\ LzwInitBits \in Nat /\ LzwByte < LzwInitBits /\ Powers(py.max) /\ LzwInitBits <= py.max
  BY WidthsAre, LzwNumbers DEF LzwTogether, Widths
<1>4. Entries' /\ Previous'
  <2>1. Len(py'.dict) = 0 /\ Len(plm'.entries) = 0 /\ 1 .. 0 = {}
    BY <1>2
  <2> QED
    BY <1>2, <2>1 DEF Entries, Previous
<1>5. Widths'
  <2>1. LzwInitBits \in LzwInitBits .. py.max
    BY <1>3
  <2>2. py.max \in LzwMaxBits \union {SquashBits} /\ plm.max = py.max
    BY DEF LzwTogether, Widths
  <2>3. ~Old'
    BY <1>1
  <2>4. /\ py'.max \in LzwMaxBits \union {SquashBits} /\ plm'.max = py'.max
        /\ py'.size \in LzwInitBits .. py'.max
    BY <1>2, <2>1, <2>2
  <2> QED
    BY <2>3, <2>4 DEF Widths
<1>6. Room'
  <2>1. LzwRoots + 1 < 2 ^ LzwInitBits
    BY <1>3, StartRoom
  <2>2. PyNext' = FirstCode
    <3>1. Len(py'.dict) = 0 /\ FirstCode \in Nat
      BY <1>2, LzwNumbers
    <3> QED
      BY <1>1, <3>1 DEF PyNext
  <2>3. FirstCode = LzwRoots + 1 /\ LzwRoots \in Nat
    BY LzwNumbers
  <2>4. 2 ^ LzwInitBits \in Nat
    BY <1>3, PowersAre
  <2>5. FirstCode < 2 ^ LzwInitBits /\ FirstCode <= 2 ^ LzwInitBits
    BY <2>1, <2>3, <2>4
  <2> QED
    BY <1>2, <2>2, <2>5, Zenon DEF Room
<1>7. BitsLeft'
  <2>1. PICK size \in Nat, bits \in Nat : size = py.size /\ plm.size = size /\ bits = py.bits /\ plm.bits = bits
    BY SameBits
  <2>2. size * (codes + 1) \in Nat
    OBVIOUS
  <2>3. plm'.bits = IF bits < size * (codes + 1) THEN 0 ELSE bits - size * (codes + 1)
    BY <2>1, <2>2, PlmRestIs DEF PlmCleared
  <2>4. IF bits < size * (codes + 1) THEN py'.bits < size ELSE py'.bits = bits - size * (codes + 1)
    BY <2>1 DEF PyCleared
  <2>5. CASE bits < size * (codes + 1)
    <3>1. plm'.bits = 0 /\ py'.bits < size
      BY <2>3, <2>4, <2>5
    <3>2. py'.bits \in Nat
      BY DEF PyCleared, LzwPys
    <3>3. py'.bits < 2 * LzwInitBits
      BY <1>3, <2>1, <3>1, <3>2
    <3> QED
      BY <1>1, <1>2, <3>1, <3>3 DEF BitsLeft
  <2>6. CASE ~(bits < size * (codes + 1))
    BY <2>3, <2>4, <2>6 DEF BitsLeft
  <2> QED
    BY <2>5, <2>6
<1>8. Counts'
  <2>1. 0 % LzwWrap = 0 /\ 0 % LzwBlock = 0
    BY LzwNumbers
  <2>2. in'.read = 0
    BY <1>2
  <2>3. Counted1'
    BY <1>2, <2>1, <2>2 DEF Counted1
  <2>4. plm'.block = py'.block % LzwWrap
    BY <1>2, <2>1
  <2> QED
    BY <2>3, <2>4, Zenon DEF Counts
<1>9. LzwSame'
  BY <1>2, SameBits DEF LzwSame
<1> QED
  BY <1>4, <1>5, <1>6, <1>7, <1>8, <1>9, Zenon DEF LzwTogether

LEMMA BreaksTogether ==
    ASSUME LzwKind, LzwTogether, in.alone = 0, py' = PyBreaks, plm' = PlmEnds,
           in'.method = in.method, in'.alone = in.alone
    PROVE  LzwTogether'
<1>1. /\ py'.done /\ py'.out = <<>> /\ py'.bits = py.bits /\ py'.size = py.size /\ py'.max = py.max
      /\ py'.prev = py.prev /\ py'.dict = py.dict /\ py'.block = py.block
      /\ plm'.done /\ plm'.out = <<>> /\ plm'.bits = plm.bits /\ plm'.size = plm.size
      /\ plm'.max = plm.max /\ plm'.prev = plm.prev /\ plm'.entries = plm.entries
      /\ plm'.block = plm.block
  BY BreaksAre, Zenon
<1>2. Old' = Old /\ FirstCode' = FirstCode /\ PyNext' = PyNext
  BY <1>1 DEF FirstCode, Old, PyNext
<1>3. \A k, m : LzwKnown(k, m)' <=> LzwKnown(k, m)
  BY <1>2 DEF LzwKnown
<1>4. \A k : StringIs(k)' = StringIs(k)
  BY <1>1, <1>2 DEF StringIs, StringIn
<1>5. Entries'
  BY <1>1, <1>3, <1>4 DEF LzwTogether, Entries
<1>6. Previous'
  BY <1>1, <1>3, <1>4 DEF LzwTogether, Previous
<1>7. Widths' /\ Room' /\ BitsLeft'
  BY <1>1, <1>2 DEF LzwTogether, Widths, Room, BitsLeft
<1>8. Counts'
  <2>1. plm'.block = py'.block % LzwWrap
    BY <1>1 DEF LzwTogether, Counts
  <2> QED
    BY <1>1, <2>1, Zenon DEF Counts
<1>9. LzwSame'
  <2>1. plm.size = py.size
    BY DEF LzwTogether, LzwSame
  <2>2. py'.done \in BOOLEAN /\ plm'.done \in BOOLEAN
    BY BreaksAre DEF LzwPys, LzwPlms
  <2> QED
    BY <1>1, <2>1, <2>2 DEF LzwSame
<1> QED
  BY <1>5, <1>6, <1>7, <1>8, <1>9, Zenon DEF LzwTogether

\* A code, as both see it
Clears(c) == ~Old /\ c = Clear
Takes(c) == PyKnows(c) \/ (c = PyNext /\ py.prev # <<>>)

LEMMA BothSee ==
    ASSUME LzwKind, LzwTogether, in.alone = 0, Old => LeftEnough, NEW c \in Nat, ~Clears(c)
    PROVE  /\ PyKnows(c) <=> LzwKnown(c, Len(py.dict))
           /\ c < PlmNext <=> LzwKnown(c, Len(py.dict))
           /\ Takes(c) <=> c < PlmNext \/ (c = PlmNext /\ plm.prev # -1)
<1>1. PICK n \in Nat, first \in Nat, roots \in Nat :
        /\ n = Len(py.dict) /\ first = FirstCode /\ roots = LzwRoots
        /\ PyNext = first + n /\ PlmNext = first + n /\ first \in roots .. roots + 1
        /\ (Old => first = roots) /\ (~Old => first = roots + 1)
  BY StringsAre, LzwNumbers, GrowsAlike DEF LzwTogether
<1>2. first = roots \/ c # roots
  BY <1>1 DEF Clears, Clear
<1>3. LzwKnown(c, Len(py.dict)) <=> c \in 0 .. roots - 1 \/ c \in first .. first + n - 1
  BY <1>1, Zenon DEF LzwKnown
<1>4. PyKnows(c) <=> c < roots \/ c \in first .. first + n - 1
  <2>1. PyKnows(c) <=> c < LzwRoots \/ c \in FirstCode .. PyNext - 1
    BY Zenon DEF PyKnows
  <2> QED
    BY <1>1, <2>1
<1>5. c < roots <=> c \in 0 .. roots - 1
  OBVIOUS
<1>6. c < first + n <=> c \in 0 .. roots - 1 \/ c \in first .. first + n - 1
  BY <1>1, <1>2
<1>7. PyKnows(c) <=> c < PlmNext
  BY <1>1, <1>4, <1>5, <1>6, Zenon
<1>8. Takes(c) <=> c < PlmNext \/ (c = PlmNext /\ plm.prev # -1)
  BY <1>7, GrowsAlike DEF Takes
<1> QED
  BY <1>1, <1>3, <1>4, <1>5, <1>6, <1>8, Zenon

LEMMA StandsFor ==
    ASSUME LzwKind, LzwTogether, in.alone = 0, Old => LeftEnough, NEW c \in Nat, c < 2 ^ py.size,
           ~Clears(c), Takes(c)
    PROVE  \E s : Stands(c, s) /\ s = PyString(c) /\ s = PlmString(c)
<1> DEFINE n == Len(py.dict)
<1>1. /\ LzwKnown(c, n) => PlmString(c) = StringIs(c)
      /\ LzwKnown(plm.prev, n) /\ c = PyNext =>
           PlmString(c) = Append(StringIs(plm.prev), StringIs(plm.prev)[1])
  BY PlmStringIs DEF LzwTogether, LzwSame
<1>2. CASE LzwKnown(c, n)
  <2>1. StringIs(c) \in LzwStrings
    BY <1>2, StringsAre DEF LzwTogether
  <2>2. PyString(c) = StringIs(c)
    BY <1>2, BothSee DEF PyString, StringIs, StringIn
  <2>3. Stands(c, StringIs(c))
    BY <1>2, <2>1 DEF Stands
  <2> QED
    BY <1>1, <1>2, <2>2, <2>3, Zenon
<1>3. CASE ~LzwKnown(c, n)
  <2>1. c = PyNext /\ py.prev # <<>> /\ ~PyKnows(c)
    BY <1>3, BothSee DEF Takes
  <2>2. LzwKnown(plm.prev, n) /\ py.prev = StringIs(plm.prev)
    BY <2>1 DEF LzwTogether, Previous
  <2>3. PlmString(c) = Append(py.prev, py.prev[1])
    BY <1>1, <2>1, <2>2, Zenon
  <2>4. PyString(c) = Append(py.prev, py.prev[1])
    BY <2>1 DEF PyString, PyKnows
  <2>5. Append(py.prev, py.prev[1]) \in LzwStrings
    <3>1. py.prev \in Seq(Int)
      BY DEF LzwKind, LzwPys
    <3>2. py.prev[1] \in Int
      BY <2>1, <3>1
    <3>3. Append(py.prev, py.prev[1]) \in Seq(Int) /\ Append(py.prev, py.prev[1]) # <<>>
      BY <3>1, <3>2
    <3> QED
      BY <3>3 DEF LzwStrings
  <2>6. Stands(c, Append(py.prev, py.prev[1]))
    BY <2>1, <2>5 DEF Stands
  <2> QED
    BY <2>3, <2>4, <2>6, Zenon
<1> QED
  BY <1>2, <1>3

LEMMA TellingIs ==
    ASSUME NEW width \in Nat, NEW next, 2 ^ width \in Nat, NEW c \in Telling(width, next)
    PROVE  c \in Nat /\ c < 2 ^ width
BY DEF Telling, Bits

LEMMA BothKeeps ==
    ASSUME LzwInv, Old => LeftEnough, LzwBoth
    PROVE  LzwInv'
<1>1. LzwKind /\ in.alone = 0 /\ LzwTogether /\ PyReads /\ PlmReads
  BY DEF LzwInv, LzwBoth
<1>2. PICK c \in Telling(py.size, PyNext) : py' = PyLzw(c) /\ plm' = PlmLzw(c) /\ in' = Counted(c)
  BY DEF LzwBoth
<1>3. c \in Nat /\ c < 2 ^ py.size
  BY <1>1, TellingIs, WidthsAre DEF LzwTogether
<1>4. /\ in' \in LzwIns /\ in'.method = in.method /\ in'.alone = 0 /\ in'.alone = in.alone
      /\ in'.read = IF py'.block = 0 \/ py'.size # py.size THEN 0 ELSE in.read + 1
  BY <1>1, <1>2, CountedIs
<1>5. CASE Clears(c)
  <2>1. py' = PyClears /\ plm' = PlmClears /\ ~Old
    BY <1>2, <1>5, Zenon DEF Clears, PyLzw, PlmLzw
  <2>2. PICK codes \in Nat : codes = Padding(py.block + 1)
    <3>1. py.block + 1 \in Int
      BY <1>1, SameBits
    <3> QED
      BY <3>1, PaddingIs, Zenon
  <2>3. PyCleared(py', codes)
    BY <1>1, <2>1, <2>2, PyClearsIs, SameBits
  <2>4. Padding((plm.block + 1) % LzwWrap) = codes
    <3>1. ((plm.block + 1) % LzwWrap) % LzwBlock = (py.block + 1) % LzwBlock
      BY <1>1, BlockGoesRound DEF LzwTogether, Counts
    <3> QED
      BY <2>2, <3>1, Zenon DEF Padding
  <2>5. PlmCleared(plm', codes)
    BY <1>1, <2>1, <2>4, PlmClearsIs, Zenon
  <2>6. LzwTogether'
    BY <1>1, <1>4, <2>1, <2>3, <2>5, ClearsTogether
  <2>7. LzwKind'
    BY <1>4, <2>3, <2>5 DEF LzwKind, PyCleared, PlmCleared
  <2> QED
    BY <1>4, <2>6, <2>7 DEF LzwInv
<1>6. CASE ~Clears(c) /\ Takes(c)
  <2>1. PICK s : Stands(c, s) /\ s = PyString(c) /\ s = PlmString(c)
    BY <1>1, <1>3, <1>6, StandsFor
  <2>2. py' = PyTakes(c) /\ plm' = PlmTakes(c)
    <3>1. c < PlmNext \/ (c = PlmNext /\ plm.prev # -1)
      BY <1>1, <1>3, <1>6, BothSee
    <3> QED
      BY <1>2, <1>6, <3>1, Zenon DEF Clears, Takes, PyLzw, PlmLzw
  <2>3. s \in LzwStrings /\ c \in Int
    BY <2>1 DEF Stands
  <2>4. PyTook(py', s)
    BY <1>1, <2>1, <2>2, <2>3, PyTakesIs, SameBits
  <2>5. PlmTook(plm', c, s)
    BY <1>1, <2>1, <2>2, <2>3, PlmTakesIs, Zenon
  <2>6. LzwTogether'
    BY <1>1, <1>4, <2>1, <2>4, <2>5, TakesTogether
  <2>7. LzwKind'
    BY <1>4, <2>4, <2>5 DEF LzwKind, PyTook, PlmTook
  <2> QED
    BY <1>4, <2>6, <2>7 DEF LzwInv
<1>7. CASE ~Clears(c) /\ ~Takes(c)
  <2>1. py' = PyBreaks /\ plm' = PlmEnds
    <3>1. ~(c < PlmNext \/ (c = PlmNext /\ plm.prev # -1))
      BY <1>1, <1>3, <1>7, BothSee
    <3> QED
      BY <1>2, <1>7, <3>1, Zenon DEF Clears, Takes, PyLzw, PlmLzw
  <2>2. LzwTogether'
    BY <1>1, <1>4, <2>1, BreaksTogether
  <2>3. LzwKind'
    BY <1>1, <1>4, <2>1, BreaksAre DEF LzwKind
  <2> QED
    BY <1>4, <2>2, <2>3 DEF LzwInv
<1> QED
  BY <1>5, <1>6, <1>7

\* Past the end of the data the CP/M program finishes a code that was cut, at most.
LEMMA PlmAloneKeeps ==
    ASSUME LzwInv, Old => LeftEnough, LzwPlmAlone
    PROVE  LzwInv'
<1>1. LzwKind /\ in.alone = 0 /\ LzwTogether /\ ~PyReads /\ PlmReads
  BY DEF LzwInv, LzwPlmAlone, LzwApart
<1>2. PICK c \in Telling(plm.size, PlmNext) : plm' = PlmLzw(c)
  BY DEF LzwPlmAlone
<1>3. in' = [in EXCEPT !.alone = @ + 1] /\ py' = PyBreaks
  BY DEF LzwPlmAlone
<1>4. plm.size = py.size /\ plm.done = py.done
  BY <1>1 DEF LzwTogether, LzwSame
<1>5. c \in Nat /\ c < 2 ^ py.size
  BY <1>1, <1>4, TellingIs, WidthsAre DEF LzwTogether
<1>6. in' \in LzwIns /\ in'.alone = 1
  BY <1>1, <1>3 DEF LzwKind, LzwIns
<1>7. py' \in LzwPys /\ ~PyReads'
  BY <1>1, <1>3, BreaksAre DEF PyReads
<1>8. plm.bits < plm.size
  <2>1. ~plm.done /\ plm.bits \div LzwByte > 0 /\ 0 \div LzwByte = 0
    BY <1>1, LzwNumbers DEF PlmReads
  <2>2. plm.bits = py.bits
    BY <1>1, <2>1 DEF LzwTogether, BitsLeft
  <2>3. ~(py.bits >= py.size) /\ py.bits \in Nat /\ py.size \in Nat
    BY <1>1, <1>4, <2>1 DEF PyReads, LzwKind, LzwPys
  <2> QED
    BY <1>4, <2>2, <2>3
<1>9. PICK bits \in Nat, size \in Nat : bits = plm.bits /\ size = plm.size /\ bits < size
  BY <1>1, <1>8 DEF LzwKind, LzwPlms
<1>10. \A x \in LzwPlms : x.bits = 0 \/ x.done => ~(~x.done /\ x.bits \div LzwByte > 0)
  <2>1. 0 \div LzwByte = 0
    BY LzwNumbers
  <2> QED
    BY <2>1
<1>11. plm' \in LzwPlms /\ (plm'.bits = 0 \/ plm'.done)
  <2>1. CASE Clears(c)
    <3>1. plm' = PlmClears
      BY <1>2, <2>1, Zenon DEF Clears, PlmLzw
    <3>2. PICK codes \in Nat : codes = Padding((plm.block + 1) % LzwWrap)
      <4>1. plm.block + 1 \in Int
        BY <1>1 DEF LzwKind, LzwPlms
      <4>2. (plm.block + 1) % LzwWrap \in Int
        BY <4>1, LzwNumbers
      <4> QED
        BY <4>2, PaddingIs, Zenon
    <3>3. PlmCleared(plm', codes)
      BY <1>1, <3>1, <3>2, PlmClearsIs, Zenon
    <3>4. size * (codes + 1) \in Nat /\ bits < size * (codes + 1)
      <4>1. size * (codes + 1) = size * codes + size /\ size * codes \in Nat
        OBVIOUS
      <4> QED
        BY <1>9, <4>1
    <3>5. plm'.bits = 0
      BY <1>1, <1>9, <3>3, <3>4, PlmRestIs DEF PlmCleared
    <3> QED
      BY <3>3, <3>5 DEF PlmCleared
  <2>2. CASE ~Clears(c) /\ Takes(c)
    <3>1. PICK s : Stands(c, s) /\ s = PlmString(c)
      BY <1>1, <1>5, <2>2, StandsFor
    <3>2. plm' = PlmTakes(c)
      <4>1. c < PlmNext \/ (c = PlmNext /\ plm.prev # -1)
        BY <1>1, <1>5, <2>2, BothSee
      <4> QED
        BY <1>2, <2>2, <4>1, Zenon DEF Clears, PlmLzw
    <3>3. s \in LzwStrings /\ c \in Int
      BY <3>1 DEF Stands
    <3>4. PlmTook(plm', c, s)
      BY <1>1, <3>1, <3>2, <3>3, PlmTakesIs, Zenon
    <3>5. plm'.bits = 0
      BY <1>1, <1>9, <3>4, PlmRestIs DEF PlmTook
    <3> QED
      BY <3>4, <3>5 DEF PlmTook
  <2>3. CASE ~Clears(c) /\ ~Takes(c)
    <3>1. plm' = PlmEnds
      <4>1. ~(c < PlmNext \/ (c = PlmNext /\ plm.prev # -1))
        BY <1>1, <1>5, <2>3, BothSee
      <4> QED
        BY <1>2, <2>3, <4>1, Zenon DEF Clears, PlmLzw
    <3> QED
      BY <1>1, <3>1, BreaksAre
  <2> QED
    BY <2>1, <2>2, <2>3
<1>12. ~PlmReads'
  BY <1>10, <1>11 DEF PlmReads
<1> QED
  BY <1>6, <1>7, <1>11, <1>12 DEF LzwInv, LzwKind, LzwApart

\* Cut padding is too short for two of the shortest codes.
LEMMA PyAloneKeeps ==
    ASSUME LzwInv, Old => LeftEnough, LzwPyAlone
    PROVE  LzwInv'
<1>1. LzwKind /\ in.alone = 0 /\ LzwTogether /\ PyReads /\ ~PlmReads
  BY DEF LzwInv, LzwPyAlone, LzwApart
<1>2. PICK c \in Telling(py.size, PyNext) : py' = PyLzw(c)
  BY DEF LzwPyAlone
<1>3. in' = [in EXCEPT !.alone = @ + 1] /\ plm' = PlmEnds
  BY DEF LzwPyAlone
<1>4. c \in Nat /\ c < 2 ^ py.size
  BY <1>1, TellingIs, WidthsAre DEF LzwTogether
<1>5. in' \in LzwIns /\ in'.alone = 1
  BY <1>1, <1>3 DEF LzwKind, LzwIns
<1>6. plm' \in LzwPlms /\ ~PlmReads'
  BY <1>1, <1>3, BreaksAre DEF PlmReads
<1>7. PICK bits \in Nat, size \in Nat, init \in Nat :
        /\ bits = py.bits /\ size = py.size /\ init = LzwInitBits /\ bits >= size /\ LzwByte < size
        /\ size # 0
  BY <1>1, WidthsAre, LzwNumbers DEF LzwTogether, PyReads, LzwKind, LzwPys
<1>8. bits < 2 * init /\ size = init /\ ~Old
  <2>1. py.bits # plm.bits
    <3>1. plm.bits \div LzwByte > 0 <=> plm.bits >= LzwByte
      <4>1. plm.bits \in Nat /\ LzwByte \in Nat \ {0}
        BY <1>1, LzwNumbers DEF LzwKind, LzwPlms
      <4>2. \A x \in Nat, d \in Nat \ {0} : x \div d > 0 <=> x >= d
        <5> SUFFICES ASSUME NEW x \in Nat, NEW d \in Nat \ {0} PROVE x \div d > 0 <=> x >= d
          OBVIOUS
        <5>1. PICK q \in Int, r \in 0 .. d - 1 : x = d * q + r /\ x % d = r /\ x \div d = q
          BY ModParts
        <5>2. CASE q >= 1
          <6>1. PICK k \in Nat : q = k + 1
            <7>1. q - 1 \in Nat /\ q = (q - 1) + 1
              BY <5>2
            <7> QED
              BY <7>1
          <6>2. d * (k + 1) = d * k + d /\ d * k \in Nat
            OBVIOUS
          <6> QED
            BY <5>1, <5>2, <6>1, <6>2
        <5>3. CASE q <= 0
          <6>1. PICK k \in Nat : q = -k
            <7>1. -q \in Nat /\ q = -(-q)
              BY <5>3
            <7> QED
              BY <7>1
          <6>2. d * (-k) = -(d * k) /\ d * k \in Nat
            OBVIOUS
          <6> QED
            BY <5>1, <5>3, <6>1, <6>2
        <5> QED
          BY <5>2, <5>3
      <4> QED
        BY <4>1, <4>2, Zenon
    <3>2. plm.done = py.done
      BY <1>1 DEF LzwTogether, LzwSame
    <3>3. ~(plm.bits >= LzwByte)
      BY <1>1, <3>1, <3>2 DEF PyReads, PlmReads
    <3> QED
      BY <1>7, <3>3, LzwNumbers
  <2> QED
    BY <1>1, <1>7, <2>1 DEF LzwTogether, BitsLeft
<1>9. py' \in LzwPys /\ (py'.done \/ (py'.bits < init /\ py'.size >= init))
  <2>1. CASE Clears(c)
    <3>1. py' = PyClears
      BY <1>2, <2>1, Zenon DEF Clears, PyLzw
    <3>2. PyCleared(py', Padding(py.block + 1))
      BY <1>1, <1>7, <3>1, PyClearsIs
    <3>3. py' \in LzwPys /\ py'.bits <= bits - size /\ py'.size = init
      BY <1>7, <3>2 DEF PyCleared
    <3>4. py'.bits \in Nat
      BY <3>3 DEF LzwPys
    <3> QED
      BY <1>7, <1>8, <3>3, <3>4
  <2>2. CASE ~Clears(c) /\ Takes(c)
    <3>1. PICK s : Stands(c, s) /\ s = PyString(c)
      BY <1>1, <1>4, <2>2, StandsFor
    <3>2. py' = PyTakes(c)
      BY <1>2, <2>2, Zenon DEF Clears, Takes, PyLzw
    <3>3. s \in LzwStrings
      BY <3>1 DEF Stands
    <3>4. PyTook(py', s)
      BY <1>1, <1>7, <3>1, <3>2, <3>3, PyTakesIs
    <3>5. py'.bits = bits - size /\ py'.size >= size /\ py' \in LzwPys
      BY <1>7, <3>4 DEF PyTook
    <3> QED
      BY <1>7, <1>8, <3>5
  <2>3. CASE ~Clears(c) /\ ~Takes(c)
    <3>1. py' = PyBreaks
      BY <1>2, <2>3, Zenon DEF Clears, Takes, PyLzw
    <3> QED
      BY <1>1, <3>1, BreaksAre
  <2> QED
    BY <2>1, <2>2, <2>3
<1>10. ~PyReads'
  <2>1. py'.bits \in Nat /\ py'.size \in Nat
    BY <1>9 DEF LzwPys
  <2>2. py'.bits < init /\ py'.size >= init => ~(py'.bits >= py'.size)
    BY <2>1
  <2> QED
    BY <1>9, <2>2 DEF PyReads
<1> QED
  BY <1>5, <1>6, <1>9, <1>10 DEF LzwInv, LzwKind, LzwApart

LEMMA EndKeeps ==
    ASSUME LzwInv, Old => LeftEnough, LzwEnd
    PROVE  LzwInv'
<1>1. LzwKind /\ in' = in /\ py' = PyBreaks /\ plm' = PlmEnds
  BY DEF LzwInv, LzwEnd
<1>2. LzwKind' /\ ~PyReads' /\ ~PlmReads'
  BY <1>1, BreaksAre DEF LzwKind, PyReads, PlmReads
<1>3. CASE in.alone = 0
  <2>1. LzwTogether
    BY <1>3 DEF LzwInv
  <2>2. LzwTogether'
    BY <1>1, <1>3, <2>1, BreaksTogether
  <2> QED
    BY <1>1, <1>2, <1>3, <2>2 DEF LzwInv
<1>4. CASE in.alone # 0
  BY <1>1, <1>2, <1>4 DEF LzwInv, LzwApart
<1> QED
  BY <1>3, <1>4

LEMMA LzwStep == ASSUME LzwHolds, LzwNext PROVE LzwHolds'
<1>1. in' \in LzwIns /\ in'.method = in.method
  <2>1. in \in LzwIns
    BY DEF LzwHolds
  <2>2. \A n \in Nat : /\ [in EXCEPT !.read = n] \in LzwIns /\ [in EXCEPT !.read = n].method = in.method
                       /\ [in EXCEPT !.alone = n] \in LzwIns
                       /\ [in EXCEPT !.alone = n].method = in.method
    BY <2>1 DEF LzwIns
  <2>3. in.read + 1 \in Nat /\ in.alone + 1 \in Nat /\ 0 \in Nat
    BY <2>1 DEF LzwIns
  <2>4. CASE LzwBoth
    <3>1. PICK c : in' = Counted(c)
      BY <2>4 DEF LzwBoth
    <3>2. PICK n \in Nat : n = IF py'.block = 0 \/ py'.size # py.size THEN 0 ELSE in.read + 1
      BY <2>3
    <3>3. in' = [in EXCEPT !.read = n]
      BY <3>1, <3>2, Zenon DEF Counted
    <3> QED
      BY <2>2, <3>3, Zenon
  <2>5. CASE LzwPlmAlone \/ LzwPyAlone
    <3>1. in' = [in EXCEPT !.alone = in.alone + 1]
      BY <2>5, Zenon DEF LzwPlmAlone, LzwPyAlone
    <3> QED
      BY <2>2, <2>3, <3>1, Zenon
  <2>6. CASE LzwEnd
    BY <2>1, <2>6 DEF LzwEnd
  <2> QED
    BY <2>4, <2>5, <2>6 DEF LzwNext
<1>2. Old' = Old
  BY <1>1 DEF Old
<1>3. ASSUME Old => LeftEnough PROVE LzwInv'
  <2>1. LzwInv
    BY <1>3 DEF LzwHolds
  <2> QED
    BY <1>3, <2>1, BothKeeps, PlmAloneKeeps, PyAloneKeeps, EndKeeps DEF LzwNext
<1> QED
  BY <1>1, <1>2, <1>3, Zenon DEF LzwHolds, LeftEnough

LEMMA LzwInit == ASSUME LzwStart PROVE LzwHolds
<1>1. PICK method \in Methods, size \in 0 .. LzwSize, most \in LzwMaxBits, left \in LzwLeft :
        LET width == IF method = "old" THEN LzwOldBits ELSE LzwInitBits
            max == CASE method = "old" -> LzwOldBits [] method = "crunched" -> most
                     [] method = "squashed" -> SquashBits
        IN  /\ in = [method |-> method, read |-> 0, alone |-> 0]
            /\ py = [dict |-> <<>>, size |-> width, max |-> max, prev |-> <<>>, block |-> 0,
                     bits |-> LzwByte * size, done |-> FALSE, out |-> <<>>]
            /\ plm = [entries |-> <<>>, size |-> width, max |-> IF method = "old" THEN left ELSE max,
                      prev |-> -1, block |-> 0, bits |-> LzwByte * size, done |-> FALSE, out |-> <<>>]
  BY DEF LzwStart
<1>2. in \in LzwIns /\ in.method = method /\ in.alone = 0 /\ in.read = 0 /\ (Old <=> method = "old")
  BY <1>1 DEF LzwIns, Old
<1>3. PICK width \in Nat, max \in Nat, top \in Nat, bits \in Nat :
        /\ width = IF method = "old" THEN LzwOldBits ELSE LzwInitBits
        /\ IF method = "old" THEN max = LzwOldBits /\ top = left
           ELSE max \in LzwMaxBits \union {SquashBits} /\ top = max
        /\ py = [dict |-> <<>>, size |-> width, max |-> max, prev |-> <<>>, block |-> 0,
                 bits |-> bits, done |-> FALSE, out |-> <<>>]
        /\ plm = [entries |-> <<>>, size |-> width, max |-> top,
                  prev |-> -1, block |-> 0, bits |-> bits, done |-> FALSE, out |-> <<>>]
  <2>1. LzwByte * size \in Nat
    <3>1. size \in Nat /\ LzwByte \in Nat
      BY LzwAssumption, LzwNumbers
    <3> QED
      BY <3>1
  <2>2. /\ LzwMaxBits \subseteq Nat /\ LzwLeft \subseteq Nat /\ SquashBits \in Nat
        /\ LzwOldBits \in Nat /\ LzwInitBits \in Nat
    BY LzwAssumption
  <2>3. CASE method = "old"
    BY <1>1, <2>1, <2>2, <2>3
  <2>4. CASE method = "crunched"
    BY <1>1, <2>1, <2>2, <2>4
  <2>5. CASE method = "squashed"
    BY <1>1, <2>1, <2>2, <2>5
  <2> QED
    BY <2>3, <2>4, <2>5 DEF Methods
<1>4. LzwKind
  <2>1. <<>> \in Seq(Int) /\ <<>> \in Seq(LzwStrings) /\ <<>> \in Seq([prefix : Int, suffix : Int])
    OBVIOUS
  <2>2. py \in LzwPys
    BY <1>3, <2>1 DEF LzwPys
  <2>3. plm \in LzwPlms
    BY <1>3, <2>1 DEF LzwPlms
  <2> QED
    BY <1>2, <2>2, <2>3 DEF LzwKind
<1>5. /\ py.dict = <<>> /\ py.size = width /\ py.max = max /\ py.prev = <<>> /\ py.block = 0
      /\ py.bits = bits /\ py.done = FALSE /\ py.out = <<>>
      /\ plm.entries = <<>> /\ plm.size = width /\ plm.max = top /\ plm.prev = -1 /\ plm.block = 0
      /\ plm.bits = bits /\ plm.done = FALSE /\ plm.out = <<>>
  BY <1>3
<1>6. ASSUME Old => LeftEnough PROVE LzwTogether
  <2>1. LzwSame
    BY <1>2, <1>5 DEF LzwSame
  <2>2. Entries /\ Previous
    <3>1. Len(py.dict) = 0 /\ Len(plm.entries) = 0 /\ 1 .. 0 = {}
      BY <1>5
    <3> QED
      BY <1>5, <3>1 DEF Entries, Previous
  <2>3. Widths
    <3>1. CASE Old
      BY <1>2, <1>3, <1>5, <3>1 DEF Widths
    <3>2. CASE ~Old
      <4>1. max \in LzwMaxBits \union {SquashBits} /\ top = max /\ width = LzwInitBits
        BY <1>2, <1>3, <3>2
      <4>2. LzwInitBits \in LzwInitBits .. max
        BY <4>1, LzwAssumption
      <4> QED
        BY <1>5, <3>2, <4>1, <4>2 DEF Widths
    <3> QED
      BY <3>1, <3>2
  <2>4. Room
    <3>1. /\ py.size \in Nat /\ py.max \in Nat /\ py.size <= py.max /\ LzwByte < py.size
          /\ Powers(py.max) /\ 2 ^ py.size \in Nat
      BY <1>4, <1>6, <2>3, WidthsAre
    <3>2. LzwRoots + 1 < 2 ^ py.size
      BY <3>1, StartRoom
    <3>3. PyNext = FirstCode
      <4>1. Len(py.dict) = 0 /\ FirstCode \in Nat
        BY <1>5, LzwNumbers
      <4> QED
        BY <4>1 DEF PyNext
    <3>4. FirstCode \in LzwRoots .. LzwRoots + 1 /\ LzwRoots \in Nat
      BY LzwNumbers
    <3>5. PyNext < 2 ^ py.size /\ PyNext <= 2 ^ py.size
      BY <3>1, <3>2, <3>3, <3>4
    <3> QED
      BY <3>5, Zenon DEF Room
  <2>5. BitsLeft
    BY <1>5 DEF BitsLeft
  <2>6. Counts
    <3>1. 0 % LzwWrap = 0
      BY LzwNumbers
    <3> QED
      BY <1>2, <1>5, <3>1 DEF Counts, Counted1
  <2> QED
    BY <2>1, <2>2, <2>3, <2>4, <2>5, <2>6, Zenon DEF LzwTogether
<1> QED
  BY <1>2, <1>4, <1>6 DEF LzwHolds, LzwInv

LEMMA BlocksSkipped == ASSUME LzwHolds PROVE LzwBlocks
<1> SUFFICES ASSUME ~Old, ~py.done, in.alone = 0
             PROVE  \A side \in {py, plm} : in.read % LzwBlock = side.block % LzwBlock
  BY DEF LzwBlocks
<1>1. LzwKind /\ LzwTogether
  BY DEF LzwHolds, LzwInv
<1>2. in.read % LzwBlock = py.block % LzwBlock /\ plm.block = py.block % LzwWrap
  BY <1>1 DEF LzwTogether, Counts, Counted1
<1>3. plm.block % LzwBlock = py.block % LzwBlock
  BY <1>1, <1>2, BlockGoesRound
<1> QED
  BY <1>2, <1>3

LEMMA SameStrings == ASSUME LzwHolds, Old => LeftEnough PROVE LzwSame
BY DEF LzwHolds, LzwInv, LzwTogether, LzwApart, LzwSame

LEMMA LzwStays == ASSUME LzwHolds, UNCHANGED lvars PROVE LzwHolds'
<1>1. in' = in /\ plm' = plm /\ py' = py
  BY DEF lvars
<1>2. Old' = Old /\ FirstCode' = FirstCode
  BY <1>1 DEF Old, FirstCode
<1>3. PyNext' = PyNext /\ PlmNext' = PlmNext
  BY <1>1, <1>2 DEF PyNext, PlmNext
<1>4. LzwKind' = LzwKind
  BY <1>1 DEF LzwKind
<1>5. LzwSame' = LzwSame
  BY <1>1 DEF LzwSame
<1>6. Entries' = Entries
  BY <1>1, <1>2, Zenon DEF Entries, LzwKnown, StringIs, StringIn, FirstCode, Old
<1>7. Previous' = Previous
  BY <1>1, <1>2, Zenon DEF Previous, LzwKnown, StringIs, StringIn, FirstCode, Old
<1>8. Widths' = Widths /\ Room' = Room
  BY <1>1, <1>2, <1>3 DEF Widths, Room
<1>9. BitsLeft' = BitsLeft /\ Counts' = Counts
  BY <1>1, <1>2, <1>3 DEF BitsLeft, Counts, Counted1
<1>10. LzwApart' = LzwApart
  BY <1>1 DEF LzwApart, PyReads, PlmReads
<1>11. LzwTogether' = LzwTogether
  BY <1>5, <1>6, <1>7, <1>8, <1>9 DEF LzwTogether
<1>12. LzwInv' = LzwInv
  BY <1>1, <1>4, <1>10, <1>11 DEF LzwInv
<1> QED
  BY <1>1, <1>2, <1>12 DEF LzwHolds
-----------------------------------------------------------------------------
(* Crunch V1.  The two hashes are one function, so both programs fill the  *)
(* same slots.                                                             *)
LEMMA V1Numbers ==
    /\ V1Bits \in Nat \ {0} /\ V1Bytes \in Nat \ {0} /\ V1Probe \in Nat
    /\ 2 ^ V1Bits \in Nat \ {0} /\ V1Bytes < 2 ^ V1Bits /\ 2 ^ V1Shift \in Nat \ {0}
    /\ V1Word \in Nat \ {0} /\ V1Word = 2 ^ V1Bits * 2 ^ V1Shift /\ V1Root \in Nat \ V1Slots
    /\ V1High \in Nat \ {0} /\ 2 ^ (V1Shift + 2) = 4 * 2 ^ V1Shift
<1> DEFINE top == V1Bits + V1Shift
<1>1. /\ V1Bits \in Nat \ {0} /\ V1Bytes \in Nat \ {0} /\ V1Probe \in Nat /\ V1Shift \in Nat \ {0}
      /\ V1Bytes < 2 ^ V1Bits /\ Powers(top)
  BY V1Assumption
<1>2. top \in Nat /\ V1Shift <= top /\ V1Bits <= top /\ V1Shift + 2 <= top + 1 /\ V1Bits - 1 \in Nat
  BY <1>1
<1> HIDE DEF top
<1>3. 2 ^ V1Bits \in Nat \ {0} /\ 2 ^ V1Shift \in Nat \ {0} /\ 2 ^ (V1Bits - 1) \in Nat \ {0}
  BY <1>1, <1>2, PowersAre
<1>4. 2 ^ (V1Bits + V1Shift) = 2 ^ V1Bits * 2 ^ V1Shift
  BY <1>1, <1>2, PowersAdd DEF top
<1>5. 2 ^ (V1Shift + 1) = 2 * 2 ^ V1Shift /\ 2 ^ ((V1Shift + 1) + 1) = 2 * 2 ^ (V1Shift + 1)
  <2>1. V1Shift \in 0 .. top /\ V1Shift + 1 \in 0 .. top
    BY <1>1, <1>2
  <2> QED
    BY <1>1, <2>1 DEF Powers
<1>6. (V1Shift + 1) + 1 = V1Shift + 2
  BY <1>1
<1>7. 2 ^ V1Shift # 1
  <2>1. V1Shift - 1 \in 0 .. top /\ (V1Shift - 1) + 1 = V1Shift
    BY <1>1, <1>2
  <2>2. 2 ^ (V1Shift - 1) \in Nat /\ 2 ^ ((V1Shift - 1) + 1) = 2 * 2 ^ (V1Shift - 1)
    BY <1>1, <2>1 DEF Powers
  <2>3. 2 ^ V1Shift = 2 * 2 ^ (V1Shift - 1)
    BY <2>1, <2>2, Zenon
  <2>4. PICK e \in Nat : e = 2 ^ (V1Shift - 1)
    BY <2>2
  <2> QED
    BY <2>3, <2>4
<1>8. PICK b \in Nat \ {0}, p \in Nat \ {0} : b = 2 ^ V1Bits /\ p = 2 ^ V1Shift
  BY <1>3
<1>9. b * p \in Nat \ {0} /\ b * p - 1 \in Nat \ (0 .. b - 1)
  <2>1. p >= 2
    BY <1>7, <1>8
  <2>2. b * p = b * (p - 2) + 2 * b /\ b * (p - 2) >= 0
    BY <1>8, <2>1
  <2> QED
    BY <1>8, <2>2
<1> QED
  <2>1. V1Word = b * p /\ V1Root = b * p - 1 /\ V1Slots = 0 .. b - 1 /\ V1High = 2 ^ (V1Bits - 1)
    BY <1>4, <1>8 DEF V1Word, V1Root, V1Slots, V1High
  <2>2. 2 ^ (V1Shift + 2) = 4 * 2 ^ V1Shift
    BY <1>3, <1>5, <1>6
  <2> QED
    BY <1>1, <1>3, <1>8, <1>9, <2>1, <2>2

\* Bits from the middle of a number, of as many bits as they need
LEMMA MiddleBits ==
    ASSUME NEW b \in Nat \ {0}, NEW p \in Nat \ {0}, NEW x \in Nat
    PROVE  ((x % (b * p)) \div p) % b = (x \div p) % b
<1> DEFINE n == b * p
<1>1. n \in Nat \ {0} /\ n = b * p
  OBVIOUS
<1> HIDE DEF n
<1>2. PICK q \in Int, y \in 0 .. n - 1 : x = n * q + y /\ x % n = y /\ x \div n = q
  <2>1. x \in Int
    OBVIOUS
  <2> QED
    BY <1>1, <2>1, ModParts, Zenon
<1>3. PICK z \in Int, w \in 0 .. p - 1 : y = p * z + w /\ y % p = w /\ y \div p = z
  <2>1. y \in Int
    OBVIOUS
  <2> QED
    BY <2>1, ModParts, Zenon
<1>4. x = p * (b * q + z) + w /\ b * q + z \in Int
  <2>1. PICK s \in Int : s = b * q
    OBVIOUS
  <2>2. n * q = p * s
    BY <1>1, <2>1
  <2>3. p * (s + z) = p * s + p * z
    OBVIOUS
  <2> QED
    BY <1>2, <1>3, <2>1, <2>2, <2>3
<1>5. x \div p = b * q + z
  <2>1. PICK t \in Int : t = b * q + z
    BY <1>4
  <2>2. x = p * t + w
    BY <1>4, <2>1
  <2>3. x \div p = t
    BY <2>2, ModIs
  <2> QED
    BY <2>1, <2>3
<1>6. PICK k \in Int, v \in 0 .. b - 1 : z = b * k + v /\ z % b = v /\ z \div b = k
  BY ModParts, Zenon
<1>7. b * q + z = b * (q + k) + v /\ q + k \in Int
  BY <1>6
<1>8. (b * q + z) % b = v
  BY <1>7, ModIs
<1> QED
  BY <1>1, <1>2, <1>3, <1>5, <1>6, <1>8

\* The square of a number, from its halves
LEMMA SquareOfHalves ==
    ASSUME NEW p \in Nat \ {0}, NEW v \in Nat
    PROVE  /\ (v \div 2) * ((v \div 2) + (v % 2)) \in Nat
           /\ (v * v) \div (4 * p) = ((v \div 2) * ((v \div 2) + (v % 2))) \div p
<1>1. PICK a \in Int, r \in 0 .. 1 : v = 2 * a + r /\ v % 2 = r /\ v \div 2 = a
  OBVIOUS
<1>2. a \in Nat
  BY <1>1
<1> DEFINE x == a * (a + r)
<1>3. x \in Nat
  BY <1>2
<1>4. v * v = 4 * x + r
  <2>1. CASE r = 0
    BY <1>1, <1>2, <2>1
  <2>2. CASE r = 1
    <3>1. v * v = (2 * a + 1) * (2 * a + 1) /\ x = a * (a + 1)
      BY <1>1, <2>2
    <3>2. (2 * a + 1) * (2 * a + 1) = 4 * (a * a) + 4 * a + 1 /\ a * (a + 1) = a * a + a /\ a * a \in Nat
      BY <1>2
    <3> QED
      BY <1>2, <2>2, <3>1, <3>2
  <2> QED
    BY <2>1, <2>2
<1> HIDE DEF x
<1>5. PICK z \in Int, w \in 0 .. p - 1 : x = p * z + w /\ x % p = w /\ x \div p = z
  <2>1. x \in Int
    BY <1>3
  <2> QED
    BY <2>1, ModParts, Zenon
<1>6. v * v = (4 * p) * z + (4 * w + r) /\ 4 * w + r \in 0 .. 4 * p - 1 /\ 4 * p \in Nat \ {0}
  <2>1. 4 * (p * z) = (4 * p) * z /\ p * z \in Int
    OBVIOUS
  <2> QED
    BY <1>4, <1>5, <2>1
<1>7. (v * v) \div (4 * p) = z
  BY <1>6, ModIs
<1> QED
  BY <1>1, <1>3, <1>5, <1>7 DEF x

LEMMA HashesAre ==
    ASSUME NEW prefix \in Int, NEW suffix \in Int
    PROVE  /\ PyHash(prefix, suffix) \in V1Slots
           /\ PlmHash(prefix, suffix) = PyHash(prefix, suffix)
<1>1. V1Mixed(prefix, suffix) \in Nat
  <2>1. (prefix + suffix) % V1Word \in Nat
    BY V1Numbers
  <2> QED
    BY <2>1, V1Numbers DEF V1Mixed
<1>2. PICK v \in Nat : v = V1Mixed(prefix, suffix)
  BY <1>1
<1>3. PICK b \in Nat \ {0}, p \in Nat \ {0} :
         b = 2 ^ V1Bits /\ p = 2 ^ V1Shift /\ V1Word = b * p /\ 2 ^ (V1Shift + 2) = 4 * p
  BY V1Numbers
<1> DEFINE x == (v \div 2) * ((v \div 2) + (v % 2))
<1>4. x \in Nat /\ (v * v) \div (4 * p) = x \div p
  BY SquareOfHalves
<1>5. PyHash(prefix, suffix) = ((v * v) \div (4 * p)) % b
  BY <1>2, <1>3 DEF PyHash
<1>6. PlmHash(prefix, suffix) = ((x % (b * p)) \div p) % b
  BY <1>2, <1>3 DEF PlmHash
<1> HIDE DEF x
<1>7. PlmHash(prefix, suffix) = (x \div p) % b
  BY <1>4, <1>6, MiddleBits
<1>8. x \div p \in Int
  BY <1>4
<1>9. (x \div p) % b \in 0 .. b - 1
  BY <1>8, ModRange
<1> QED
  BY <1>3, <1>4, <1>5, <1>7, <1>9 DEF V1Slots

\* What a loop has after each of its turns
Turns(g, top, a, f) == g[0] = a /\ \A n \in 1 .. top : g[n] = f[n][g[n - 1]]

LEMMA LoopRuns ==
    ASSUME NEW A, NEW a \in A, NEW f \in [Nat -> [A -> A]], NEW top \in Nat
    PROVE  \E g \in [0 .. top -> A] : Turns(g, top, a, f)
<1> DEFINE Bad == {n \in Nat : ~\E g \in [0 .. n -> A] : Turns(g, n, a, f)}
<1>1. Bad = {}
  <2> SUFFICES ASSUME Bad # {} PROVE FALSE
    OBVIOUS
  <2>1. PICK n \in Bad : \A m \in Bad : n <= m
    <3>1. Bad \subseteq Nat
      OBVIOUS
    <3> HIDE DEF Bad
    <3> QED
      BY <3>1, LeastOf
  <2>2. n \in Nat /\ ~\E g \in [0 .. n -> A] : Turns(g, n, a, f)
    BY <2>1
  <2>3. CASE n = 0
    <3> DEFINE g == [m \in 0 .. 0 |-> a]
    <3>1. g \in [0 .. 0 -> A] /\ Turns(g, 0, a, f)
      BY DEF Turns
    <3> QED
      BY <2>2, <2>3, <3>1
  <2>4. CASE n # 0
    <3>1. n - 1 \in Nat /\ ~(n <= n - 1)
      BY <2>2, <2>4
    <3>2. n - 1 \notin Bad
      <4> HIDE DEF Bad
      <4> QED
        BY <2>1, <3>1
    <3>3. PICK g \in [0 .. n - 1 -> A] : Turns(g, n - 1, a, f)
      BY <3>1, <3>2
    <3> DEFINE h == [m \in 0 .. n |-> IF m = n THEN f[n][g[n - 1]] ELSE g[m]]
    <3>4. /\ n - 1 \in 0 .. n - 1 /\ 0 \in 0 .. n /\ 0 # n
          /\ \A m \in 0 .. n : m # n => m \in 0 .. n - 1
      BY <2>2, <2>4
    <3>5. h \in [0 .. n -> A]
      <4>1. g[n - 1] \in A
        BY <3>4
      <4>2. f[n][g[n - 1]] \in A
        BY <2>2, <4>1
      <4> QED
        BY <3>4, <4>2
    <3>6. ASSUME NEW m \in 1 .. n PROVE h[m] = f[m][h[m - 1]]
      <4>1. m \in 0 .. n /\ m - 1 \in 0 .. n /\ m - 1 # n
        BY <2>2
      <4>2. h[m - 1] = g[m - 1]
        BY <4>1
      <4>3. CASE m = n
        BY <4>1, <4>2, <4>3
      <4>4. CASE m # n
        <5>1. m \in 1 .. n - 1 /\ h[m] = g[m]
          BY <2>2, <4>1, <4>4
        <5> HIDE DEF h
        <5> QED
          BY <3>3, <4>2, <5>1 DEF Turns
      <4> QED
        BY <4>3, <4>4
    <3>7. h[0] = a
      BY <3>3, <3>4 DEF Turns
    <3> HIDE DEF h
    <3>8. Turns(h, n, a, f)
      BY <3>6, <3>7 DEF Turns
    <3> QED
      BY <2>2, <3>5, <3>8
  <2> QED
    BY <2>3, <2>4
<1>2. top \notin Bad
  BY <1>1
<1> QED
  BY <1>2

\* The tables there may be
V1Marks == {Empty, TakenSlot, V1Root}
V1Tables == [prefix : [V1Slots -> V1Slots \union V1Marks], suffix : [V1Slots -> Int],
             link : [V1Slots -> V1Slots], left : Int, full : BOOLEAN, failed : BOOLEAN,
             prev : V1Slots, first : Int, done : BOOLEAN, out : Seq(Int)]

\* A walk along the links
LinkedOn(t, s) == IF t.link[s] = 0 THEN s ELSE t.link[s]
Path(t, slot, g) == g = [n \in V1Slots |-> IF n = 0 THEN slot ELSE LinkedOn(t, g[n - 1])]

LEMMA PathIs ==
    ASSUME NEW t, t.link \in [V1Slots -> V1Slots], NEW slot \in V1Slots
    PROVE  /\ ChainFrom(t, slot) \in [V1Slots -> V1Slots]
           /\ ChainFrom(t, slot)[0] = slot
           /\ \A n \in V1Slots : n + 1 \in V1Slots =>
                 ChainFrom(t, slot)[n + 1] = LinkedOn(t, ChainFrom(t, slot)[n])
<1>1. PICK top \in Nat : V1Slots = 0 .. top
  <2>1. 2 ^ V1Bits - 1 \in Nat
    BY V1Numbers
  <2> QED
    BY <2>1 DEF V1Slots
<1> DEFINE f == [n \in Nat |-> [s \in V1Slots |-> LinkedOn(t, s)]]
<1>2. f \in [Nat -> [V1Slots -> V1Slots]]
  BY DEF LinkedOn
<1>3. PICK g \in [0 .. top -> V1Slots] : Turns(g, top, slot, f)
  <2> HIDE DEF f
  <2> QED
    BY <1>2, LoopRuns, Zenon
<1>4. ASSUME NEW n \in V1Slots PROVE g[n] = IF n = 0 THEN slot ELSE LinkedOn(t, g[n - 1])
  <2>1. CASE n = 0
    BY <1>3, <2>1 DEF Turns
  <2>2. CASE n # 0
    <3>1. n \in 1 .. top /\ n - 1 \in 0 .. top /\ n \in Nat
      BY <1>1, <2>2
    <3>2. g[n - 1] \in V1Slots
      BY <1>3, <3>1
    <3>3. g[n] = f[n][g[n - 1]]
      BY <1>3, <3>1 DEF Turns
    <3> QED
      BY <2>2, <3>1, <3>2, <3>3
  <2> QED
    BY <2>1, <2>2
<1>5. Path(t, slot, g)
  <2>1. g = [n \in V1Slots |-> g[n]]
    BY <1>1, <1>3
  <2> QED
    BY <1>4, <2>1 DEF Path
<1>6. ChainFrom(t, slot) = CHOOSE h : Path(t, slot, h)
  BY DEF ChainFrom, Path, LinkedOn
<1>7. Path(t, slot, ChainFrom(t, slot))
  BY <1>5, <1>6
<1>8. PICK p : p = ChainFrom(t, slot)
  OBVIOUS
<1>9. p = [n \in V1Slots |-> IF n = 0 THEN slot ELSE LinkedOn(t, p[n - 1])]
  BY <1>7, <1>8 DEF Path
<1> DEFINE Out == {n \in V1Slots : p[n] \notin V1Slots}
<1>10. Out = {}
  <2> SUFFICES ASSUME Out # {} PROVE FALSE
    OBVIOUS
  <2>1. PICK n \in Out : \A m \in Out : n <= m
    <3>1. Out \subseteq Nat
      BY <1>1
    <3> HIDE DEF Out
    <3> QED
      BY <3>1, LeastOf
  <2>2. n \in V1Slots /\ p[n] \notin V1Slots
    BY <2>1
  <2>3. n # 0
    BY <1>9, <2>2
  <2>4. n - 1 \in V1Slots /\ ~(n <= n - 1)
    BY <1>1, <2>2, <2>3
  <2>5. p[n - 1] \in V1Slots
    BY <2>1, <2>4
  <2>6. p[n] = LinkedOn(t, p[n - 1])
    BY <1>9, <2>2, <2>3
  <2> QED
    BY <2>2, <2>5, <2>6 DEF LinkedOn
<1>11. p \in [V1Slots -> V1Slots]
  <2>1. p = [n \in V1Slots |-> p[n]]
    BY <1>9
  <2> QED
    BY <1>10, <2>1
<1>12. ASSUME NEW n \in V1Slots, n + 1 \in V1Slots PROVE p[n + 1] = LinkedOn(t, p[n])
  <2>1. n + 1 # 0 /\ (n + 1) - 1 = n
    BY <1>1
  <2> QED
    BY <1>9, <1>12, <2>1
<1>13. p[0] = slot
  <2>1. 0 \in V1Slots
    BY <1>1
  <2> QED
    BY <1>9, <2>1
<1> QED
  BY <1>8, <1>11, <1>12, <1>13

\* A walk along the prefixes
Steps == [at : V1Slots \union V1Marks, text : Seq(Int)]
Begun(code) == [at |-> code, text |-> <<>>]
WalkedOn(t, w) == IF w.at \notin V1Slots THEN w
                  ELSE [at |-> t.prefix[w.at], text |-> <<t.suffix[w.at]>> \o w.text]
Walk(t, code, g) == g = [n \in 0 .. 2 ^ V1Bits |-> IF n = 0 THEN Begun(code) ELSE WalkedOn(t, g[n - 1])]
StringOf(w) == IF w.at = V1Root THEN w.text ELSE <<Empty>>

LEMMA WalkedOnIs ==
    ASSUME NEW t \in V1Tables, NEW w \in Steps
    PROVE  WalkedOn(t, w) \in Steps
<1>1. CASE w.at \notin V1Slots
  BY <1>1 DEF WalkedOn
<1>2. CASE w.at \in V1Slots
  <2>1. t.prefix[w.at] \in V1Slots \union V1Marks /\ t.suffix[w.at] \in Int
    BY <1>2 DEF V1Tables
  <2>2. <<t.suffix[w.at]>> \o w.text \in Seq(Int)
    BY <2>1 DEF Steps
  <2> QED
    BY <1>2, <2>1, <2>2 DEF WalkedOn, Steps
<1> QED
  BY <1>1, <1>2

LEMMA WalkIs ==
    ASSUME NEW t \in V1Tables, NEW code \in V1Slots
    PROVE  \E g \in [0 .. 2 ^ V1Bits -> Steps] :
              /\ g[0] = Begun(code)
              /\ \A n \in 1 .. 2 ^ V1Bits : g[n] = WalkedOn(t, g[n - 1])
              /\ V1String(t, code) = StringOf(g[2 ^ V1Bits])
<1>1. PICK top \in Nat : top = 2 ^ V1Bits
  BY V1Numbers
<1> DEFINE f == [n \in Nat |-> [w \in Steps |-> WalkedOn(t, w)]]
<1>2. f \in [Nat -> [Steps -> Steps]]
  BY WalkedOnIs
<1>3. Begun(code) \in Steps
  BY DEF Begun, Steps
<1>4. PICK g \in [0 .. top -> Steps] : Turns(g, top, Begun(code), f)
  <2> HIDE DEF f
  <2> QED
    BY <1>2, <1>3, LoopRuns, Zenon
<1>5. ASSUME NEW n \in 0 .. top
      PROVE  g[n] = IF n = 0 THEN Begun(code) ELSE WalkedOn(t, g[n - 1])
  <2>1. CASE n = 0
    BY <1>4, <2>1 DEF Turns
  <2>2. CASE n # 0
    <3>1. n \in 1 .. top /\ n - 1 \in 0 .. top /\ n \in Nat
      BY <2>2
    <3>2. g[n - 1] \in Steps
      BY <1>4, <3>1
    <3>3. g[n] = f[n][g[n - 1]]
      BY <1>4, <3>1 DEF Turns
    <3> QED
      BY <2>2, <3>1, <3>2, <3>3
  <2> QED
    BY <2>1, <2>2
<1>6. Walk(t, code, g)
  <2>1. g = [n \in 0 .. top |-> g[n]]
    BY <1>4
  <2> QED
    BY <1>1, <1>5, <2>1 DEF Walk
<1>7. V1String(t, code) = StringOf((CHOOSE h : Walk(t, code, h))[2 ^ V1Bits])
  BY DEF V1String, Walk, WalkedOn, Begun, StringOf
<1>8. PICK p : p = CHOOSE h : Walk(t, code, h)
  OBVIOUS
<1>9. p = [n \in 0 .. top |-> IF n = 0 THEN Begun(code) ELSE WalkedOn(t, p[n - 1])]
  <2>1. Walk(t, code, p)
    BY <1>6, <1>8
  <2> QED
    BY <1>1, <2>1 DEF Walk
<1> DEFINE Out == {n \in 0 .. top : p[n] \notin Steps}
<1>10. Out = {}
  <2> SUFFICES ASSUME Out # {} PROVE FALSE
    OBVIOUS
  <2>1. PICK n \in Out : \A m \in Out : n <= m
    <3>1. Out \subseteq Nat
      OBVIOUS
    <3> HIDE DEF Out
    <3> QED
      BY <3>1, LeastOf
  <2>2. n \in 0 .. top /\ p[n] \notin Steps
    BY <2>1
  <2>3. n # 0
    BY <1>3, <1>9, <2>2
  <2>4. n - 1 \in 0 .. top /\ ~(n <= n - 1)
    BY <2>2, <2>3
  <2>5. p[n - 1] \in Steps
    BY <2>1, <2>4
  <2>6. p[n] = WalkedOn(t, p[n - 1])
    BY <1>9, <2>2, <2>3
  <2> QED
    BY <2>2, <2>5, <2>6, WalkedOnIs
<1>11. p \in [0 .. top -> Steps]
  <2>1. p = [n \in 0 .. top |-> p[n]]
    BY <1>9
  <2> QED
    BY <1>10, <2>1
<1>12. \A n \in 1 .. top : p[n] = WalkedOn(t, p[n - 1])
  BY <1>9
<1>13. p[0] = Begun(code)
  BY <1>9
<1> QED
  BY <1>1, <1>7, <1>8, <1>11, <1>12, <1>13

LEMMA StringTyped ==
    ASSUME NEW t \in V1Tables, NEW code \in V1Slots
    PROVE  V1String(t, code) \in Seq(Int) /\ V1String(t, code)[1] \in Int
<1>1. PICK top \in Nat \ {0} : top = 2 ^ V1Bits
  BY V1Numbers
<1>2. PICK g \in [0 .. top -> Steps] :
         /\ g[0] = Begun(code)
         /\ \A n \in 1 .. top : g[n] = WalkedOn(t, g[n - 1])
         /\ V1String(t, code) = StringOf(g[top])
  BY <1>1, WalkIs
<1>3. PICK w : w = g[top - 1]
  OBVIOUS
<1>4. w \in Steps /\ g[top] = WalkedOn(t, w)
  BY <1>1, <1>2, <1>3
<1>5. ASSUME NEW s \in Seq(Int), s # <<>> PROVE s \in Seq(Int) /\ s[1] \in Int
  BY <1>5
<1> DEFINE Bare == {n \in 0 .. top : g[n].at \notin V1Slots /\ g[n].text = <<>>}
<1>6. Bare = {}
  <2> SUFFICES ASSUME Bare # {} PROVE FALSE
    OBVIOUS
  <2>1. PICK n \in Bare : \A m \in Bare : n <= m
    <3>1. Bare \subseteq Nat
      OBVIOUS
    <3> HIDE DEF Bare
    <3> QED
      BY <3>1, LeastOf
  <2>2. n \in 0 .. top /\ g[n].at \notin V1Slots /\ g[n].text = <<>>
    BY <2>1
  <2>3. n # 0
    BY <1>2, <2>2 DEF Begun
  <2>4. n - 1 \in 0 .. top /\ n \in 1 .. top /\ ~(n <= n - 1)
    BY <2>2, <2>3
  <2>5. PICK v : v = g[n - 1]
    OBVIOUS
  <2>6. v \in Steps /\ g[n] = WalkedOn(t, v)
    BY <1>2, <2>4, <2>5
  <2>7. ~(v.at \notin V1Slots /\ v.text = <<>>)
    BY <2>1, <2>4, <2>5
  <2>8. v.at \in V1Slots
    BY <2>2, <2>6, <2>7 DEF WalkedOn
  <2>9. g[n].text = <<t.suffix[v.at]>> \o v.text
    BY <2>6, <2>8 DEF WalkedOn
  <2>10. t.suffix[v.at] \in Int /\ v.text \in Seq(Int)
    BY <2>6, <2>8 DEF V1Tables, Steps
  <2> QED
    BY <2>2, <2>9, <2>10
<1>7. top \in 0 .. top /\ g[top] \in Steps
  BY <1>2
<1>8. CASE g[top].at = V1Root
  <2>1. g[top].text # <<>>
    BY <1>6, <1>7, <1>8, V1Numbers
  <2>2. g[top].text \in Seq(Int)
    BY <1>7 DEF Steps
  <2>3. V1String(t, code) = g[top].text
    BY <1>2, <1>8 DEF StringOf
  <2> QED
    BY <1>5, <2>1, <2>2, <2>3
<1>9. CASE g[top].at # V1Root
  <2>1. V1String(t, code) = <<Empty>>
    BY <1>2, <1>9 DEF StringOf
  <2> QED
    BY <2>1 DEF Empty
<1> QED
  BY <1>8, <1>9

\* The search for a free slot passes all of them.
LEMMA FreeIs ==
    ASSUME NEW t \in V1Tables, NEW end \in V1Slots
    PROVE  /\ FreeFrom(t, end) \subseteq {s \in V1Slots : t.prefix[s] = Empty}
           /\ (\E s \in V1Slots : t.prefix[s] = Empty) => FreeFrom(t, end) # {}
<1>1. PICK b \in Nat \ {0} : b = 2 ^ V1Bits /\ V1Slots = 0 .. b - 1
  BY V1Numbers DEF V1Slots
<1>2. PICK c \in Nat : c = end + V1Probe
  BY V1Numbers, <1>1
<1> DEFINE at(n) == (c + n) % b
           hits == {n \in V1Slots : t.prefix[at(n)] = Empty}
<1>3. FreeFrom(t, end) = {at(n) : n \in {m \in hits : \A k \in hits : m <= k}}
  BY <1>1, <1>2, Zenon DEF FreeFrom
<1>4. ASSUME NEW n \in V1Slots PROVE at(n) \in V1Slots
  <2>1. c + n \in Int
    BY <1>1
  <2>2. at(n) \in 0 .. b - 1
    BY <2>1, ModRange, Zenon
  <2> QED
    BY <1>1, <2>2
<1>5. ASSUME NEW s \in V1Slots, t.prefix[s] = Empty PROVE FreeFrom(t, end) # {}
  <2> DEFINE n == (s - c) % b
  <2>1. n \in V1Slots
    <3>1. s - c \in Int
      BY <1>1
    <3>2. n \in 0 .. b - 1
      BY <3>1, ModRange, Zenon
    <3> QED
      BY <1>1, <3>2
  <2>2. at(n) = s
    <3>1. s - c \in Int /\ c \in Int
      BY <1>1
    <3>2. (((s - c) % b) + c) % b = ((s - c) + c) % b
      BY <3>1, ModOn, Zenon
    <3>3. (s - c) + c = s /\ s % b = s
      BY <1>1, ModSmall
    <3>4. n + c = c + n
      BY <1>1, <2>1
    <3> QED
      BY <3>2, <3>3, <3>4
  <2>3. n \in hits
    BY <1>5, <2>1, <2>2
  <2>4. PICK m \in hits : \A k \in hits : m <= k
    <3>1. hits \subseteq Nat
      BY <1>1
    <3> HIDE DEF hits
    <3> QED
      BY <2>3, <3>1, LeastOf
  <2>5. at(m) \in FreeFrom(t, end)
    <3> HIDE DEF at, hits
    <3> QED
      BY <1>3, <2>4
  <2> QED
    BY <2>5
<1>6. FreeFrom(t, end) \subseteq {s \in V1Slots : t.prefix[s] = Empty}
  <2> SUFFICES ASSUME NEW s \in FreeFrom(t, end) PROVE s \in V1Slots /\ t.prefix[s] = Empty
    OBVIOUS
  <2>1. PICK n \in hits : s = at(n)
    BY <1>3
  <2> QED
    BY <1>4, <2>1
<1> QED
  BY <1>5, <1>6

LEMMA EndTyped ==
    ASSUME NEW t \in V1Tables, NEW slot \in V1Slots
    PROVE  ChainEnd(t, slot) \in V1Slots
<1>1. 2 ^ V1Bits - 1 \in V1Slots
  BY V1Numbers DEF V1Slots
<1>2. t.link \in [V1Slots -> V1Slots]
  BY DEF V1Tables
<1> QED
  BY <1>1, <1>2, PathIs DEF ChainEnd

\* What an entry put into a slot changes
EntersAt(u, t, home, slot, prefix, suffix) ==
    /\ slot \in V1Slots /\ t.prefix[slot] = Empty /\ (slot = home <=> t.prefix[home] = Empty)
    /\ u.prefix = [t.prefix EXCEPT ![slot] = prefix] /\ u.suffix = [t.suffix EXCEPT ![slot] = suffix]
    /\ u.link = IF slot = home THEN t.link ELSE [t.link EXCEPT ![ChainEnd(t, home)] = slot]
    /\ u.left = t.left - 1 /\ u.full = (t.full \/ t.left = 1) /\ u.failed = t.failed
    /\ u.prev = t.prev /\ u.first = t.first /\ u.done = t.done /\ u.out = t.out

LEMMA InsertIs ==
    ASSUME NEW t \in V1Tables, NEW home \in V1Slots, NEW prefix \in V1Slots \union V1Marks,
           NEW suffix \in Int
    PROVE  /\ V1Insert(t, home, prefix, suffix) \in V1Tables
           /\ (\E s \in V1Slots : t.prefix[s] = Empty) =>
                 \E slot : EntersAt(V1Insert(t, home, prefix, suffix), t, home, slot, prefix, suffix)
<1> DEFINE end == ChainEnd(t, home)
           free == IF t.prefix[home] = Empty THEN {home} ELSE FreeFrom(t, end)
           slot == CHOOSE s \in free : TRUE
           links == IF slot = home THEN t.link ELSE [t.link EXCEPT ![end] = slot]
           new == [t EXCEPT !.link = IF slot = home THEN @ ELSE [@ EXCEPT ![end] = slot],
                            !.prefix[slot] = prefix, !.suffix[slot] = suffix,
                            !.left = @ - 1, !.full = @ \/ t.left = 1]
<1>1. V1Insert(t, home, prefix, suffix) = IF free = {} THEN [t EXCEPT !.failed = TRUE] ELSE new
  BY DEF V1Insert
<1>2. end \in V1Slots
  BY EndTyped
<1>3. free \subseteq {s \in V1Slots : t.prefix[s] = Empty}
  BY <1>2, FreeIs
<1>4. (\E s \in V1Slots : t.prefix[s] = Empty) => free # {}
  BY <1>2, FreeIs
<1>5. CASE free = {}
  <2>1. [t EXCEPT !.failed = TRUE] \in V1Tables
    BY DEF V1Tables
  <2> QED
    BY <1>1, <1>4, <1>5, <2>1
<1>6. CASE free # {}
  <2>1. slot \in free
    BY <1>6
  <2>2. slot \in V1Slots /\ t.prefix[slot] = Empty
    BY <1>3, <2>1
  <2>3. slot = home <=> t.prefix[home] = Empty
    <3>1. t.prefix[home] = Empty => free = {home}
      OBVIOUS
    <3> HIDE DEF slot, free
    <3> QED
      BY <2>1, <2>2, <3>1
  <2> HIDE DEF slot, free, end
  <2>4. links \in [V1Slots -> V1Slots]
    BY <1>2, <2>2 DEF V1Tables
  <2>5. /\ [t.prefix EXCEPT ![slot] = prefix] \in [V1Slots -> V1Slots \union V1Marks]
        /\ [t.suffix EXCEPT ![slot] = suffix] \in [V1Slots -> Int]
    BY <2>2 DEF V1Tables
  <2>6. t.left - 1 \in Int /\ (t.full \/ t.left = 1) \in BOOLEAN
    BY DEF V1Tables
  <2>7. /\ new.prefix = [t.prefix EXCEPT ![slot] = prefix]
        /\ new.suffix = [t.suffix EXCEPT ![slot] = suffix]
        /\ new.link = links /\ new.left = t.left - 1 /\ new.full = (t.full \/ t.left = 1)
        /\ new.failed = t.failed /\ new.prev = t.prev /\ new.first = t.first
        /\ new.done = t.done /\ new.out = t.out
    BY DEF V1Tables
  <2>8. new \in V1Tables
    BY <2>4, <2>5, <2>6 DEF V1Tables
  <2>9. EntersAt(new, t, home, slot, prefix, suffix)
    <3> HIDE DEF new
    <3> QED
      BY <2>2, <2>3, <2>7 DEF EntersAt, end
  <2> QED
    BY <1>1, <1>6, <2>8, <2>9
<1> QED
  BY <1>5, <1>6

(* The table.  Links lead to slots that were filled later, so a chain has  *)
(* an end; prefixes lead to slots filled before, so a string has one.      *)
Vacant(t) == {s \in V1Slots : t.prefix[s] = Empty}
Held(t) == {s \in V1Slots : t.prefix[s] \notin {Empty, TakenSlot}}

V1Counts(t) == /\ t.left = Cardinality(Vacant(t)) /\ t.full = (t.left = 0)
               /\ \A s \in V1Slots : t.prefix[s] = TakenSlot <=> s = 0

\* How many slots were filled before each
Turned(t, turn) ==
    \A s \in V1Slots :
      /\ IF t.prefix[s] = Empty THEN t.link[s] = 0 ELSE turn[s] < 2 ^ V1Bits - t.left
      /\ t.link[s] # 0 => t.prefix[t.link[s]] # Empty /\ turn[s] < turn[t.link[s]]
V1Linked(t) == \E turn \in [V1Slots -> Nat] : Turned(t, turn)

Placed(t) == \A s \in Held(t) : OnChain(t, PyHash(t.prefix[s], t.suffix[s]), s)

Spells(t, text) ==
    \A s \in Held(t) :
      /\ text[s] \in Seq(Int) /\ Len(text[s]) \in 1 .. 2 ^ V1Bits - t.left
      /\ IF t.prefix[s] = V1Root THEN text[s] = <<t.suffix[s]>>
         ELSE t.prefix[s] \in Held(t) /\ text[s] = Append(text[t.prefix[s]], t.suffix[s])

V1Sound(t) == t \in V1Tables /\ V1Counts(t) /\ V1Linked(t) /\ Placed(t)

LEMMA ChainIs ==
    ASSUME NEW t \in V1Tables, NEW slot \in V1Slots
    PROVE  \E p \in [V1Slots -> V1Slots] :
              /\ p = ChainFrom(t, slot) /\ p[0] = slot
              /\ \A m \in V1Slots : m + 1 \in V1Slots => p[m + 1] = LinkedOn(t, p[m])
<1>1. t.link \in [V1Slots -> V1Slots]
  BY DEF V1Tables
<1>2. /\ ChainFrom(t, slot) \in [V1Slots -> V1Slots] /\ ChainFrom(t, slot)[0] = slot
      /\ \A n \in V1Slots : n + 1 \in V1Slots =>
            ChainFrom(t, slot)[n + 1] = LinkedOn(t, ChainFrom(t, slot)[n])
  BY <1>1, PathIs
<1> QED
  BY <1>2, Zenon

LEMMA TurnedAt ==
    ASSUME NEW t \in V1Tables, NEW turn \in [V1Slots -> Nat], Turned(t, turn), NEW s \in V1Slots
    PROVE  /\ turn[s] \in Nat /\ t.link[s] \in V1Slots /\ turn[t.link[s]] \in Nat
           /\ IF t.prefix[s] = Empty THEN t.link[s] = 0 ELSE turn[s] < 2 ^ V1Bits - t.left
           /\ t.link[s] # 0 => t.prefix[t.link[s]] # Empty /\ turn[s] < turn[t.link[s]]
<1>1. t.link[s] \in V1Slots
  BY DEF V1Tables
<1>2. turn[s] \in Nat /\ turn[t.link[s]] \in Nat
  BY <1>1
<1> QED
  BY <1>1, <1>2, Zenon DEF Turned

\* A chain is walked to its end, and no further.
Leads(t, slot, n) == \A m \in V1Slots : m < n => t.link[ChainFrom(t, slot)[m]] # 0

LEMMA LeadsOn ==
    ASSUME NEW t \in V1Tables, NEW turn \in [V1Slots -> Nat], Turned(t, turn), NEW slot \in V1Slots,
           NEW n \in V1Slots, Leads(t, slot, n)
    PROVE  n <= turn[ChainFrom(t, slot)[n]]
<1>1. PICK top \in Nat : V1Slots = 0 .. top
  <2>1. 2 ^ V1Bits - 1 \in Nat
    BY V1Numbers
  <2> QED
    BY <2>1 DEF V1Slots
<1>2. PICK p \in [V1Slots -> V1Slots] :
         /\ p = ChainFrom(t, slot)
         /\ \A m \in V1Slots : m + 1 \in V1Slots => p[m + 1] = LinkedOn(t, p[m])
  BY ChainIs
<1> DEFINE Bad == {m \in V1Slots : m <= n /\ ~(m <= turn[p[m]])}
<1>3. Bad = {}
  <2> SUFFICES ASSUME Bad # {} PROVE FALSE
    OBVIOUS
  <2>1. PICK m \in Bad : \A k \in Bad : m <= k
    <3>1. Bad \subseteq Nat
      BY <1>1
    <3> HIDE DEF Bad
    <3> QED
      BY <3>1, LeastOf
  <2>2. m \in V1Slots /\ m <= n /\ ~(m <= turn[p[m]])
    BY <2>1
  <2>3. m # 0
    <3>1. turn[p[m]] \in Nat
      BY <1>2, <2>2
    <3> QED
      BY <2>2, <3>1
  <2>4. m - 1 \in V1Slots /\ (m - 1) + 1 = m /\ m - 1 < n /\ m - 1 <= n /\ ~(m <= m - 1)
    BY <1>1, <2>2, <2>3
  <2>5. m - 1 <= turn[p[m - 1]]
    BY <2>1, <2>4
  <2>6. t.link[p[m - 1]] # 0
    BY <1>2, <2>4 DEF Leads
  <2>7. p[m] = t.link[p[m - 1]]
    BY <1>2, <2>2, <2>4, <2>6 DEF LinkedOn
  <2>8. \E a \in Nat, b \in Nat : turn[p[m - 1]] = a /\ turn[p[m]] = b /\ a < b
    <3>1. PICK s \in V1Slots : s = p[m - 1]
      BY <1>2, <2>4
    <3>2. t.link[s] # 0 /\ p[m] = t.link[s]
      BY <2>6, <2>7, <3>1
    <3>3. PICK a \in Nat, b \in Nat : a = turn[s] /\ b = turn[t.link[s]] /\ a < b
      BY <3>2, TurnedAt
    <3>4. turn[p[m - 1]] = a /\ turn[p[m]] = b
      BY <3>1, <3>2, <3>3, Zenon
    <3> QED
      BY <3>3, <3>4, Zenon
  <2>9. PICK a \in Nat, b \in Nat : turn[p[m - 1]] = a /\ turn[p[m]] = b /\ a < b
    BY <2>8
  <2>10. m - 1 <= a /\ ~(m <= b)
    BY <2>2, <2>5, <2>9, Zenon
  <2> QED
    BY <1>1, <2>2, <2>9, <2>10
<1>4. n <= n
  BY <1>1
<1> QED
  BY <1>2, <1>3, <1>4

LEMMA EndIs ==
    ASSUME NEW t \in V1Tables, t.left \in Nat, NEW turn \in [V1Slots -> Nat], Turned(t, turn),
           NEW slot \in V1Slots
    PROVE  \E n \in V1Slots :
              /\ Leads(t, slot, n) /\ n <= turn[ChainEnd(t, slot)]
              /\ ChainFrom(t, slot)[n] = ChainEnd(t, slot) /\ t.link[ChainEnd(t, slot)] = 0
              /\ \A k \in V1Slots : k >= n => ChainFrom(t, slot)[k] = ChainEnd(t, slot)
<1>1. PICK top \in Nat : V1Slots = 0 .. top /\ 2 ^ V1Bits = top + 1
  <2>1. 2 ^ V1Bits - 1 \in Nat /\ 2 ^ V1Bits \in Nat
    BY V1Numbers
  <2> QED
    BY <2>1 DEF V1Slots
<1>2. PICK p \in [V1Slots -> V1Slots] :
         /\ p = ChainFrom(t, slot)
         /\ \A m \in V1Slots : m + 1 \in V1Slots => p[m + 1] = LinkedOn(t, p[m])
  BY ChainIs
<1>3. ChainEnd(t, slot) = p[top] /\ top \in V1Slots
  <2>1. 2 ^ V1Bits - 1 = top /\ top \in V1Slots
    BY <1>1
  <2>2. ChainEnd(t, slot) = p[2 ^ V1Bits - 1]
    BY <1>2, Zenon DEF ChainEnd
  <2> QED
    BY <2>1, <2>2, Zenon
<1> DEFINE Last0 == {n \in V1Slots : t.link[p[n]] = 0}
<1>4. Last0 # {}
  <2> SUFFICES ASSUME Last0 = {} PROVE FALSE
    OBVIOUS
  <2>1. Leads(t, slot, top)
    BY <1>2 DEF Leads
  <2>2. top <= turn[p[top]]
    BY <1>2, <1>3, <2>1, LeadsOn
  <2>3. p[top] \in V1Slots /\ t.link[p[top]] # 0
    BY <1>2, <1>3
  <2>4. t.link[p[top]] \in V1Slots
    BY <2>3, TurnedAt
  <2>5. /\ t.prefix[t.link[p[top]]] # Empty /\ turn[p[top]] < turn[t.link[p[top]]]
        /\ turn[p[top]] \in Nat /\ turn[t.link[p[top]]] \in Nat
    <3>1. PICK s \in V1Slots : s = p[top]
      BY <2>3
    <3>2. /\ turn[s] \in Nat /\ turn[t.link[s]] \in Nat
          /\ turn[s] < turn[t.link[s]] /\ t.prefix[t.link[s]] # Empty
      BY <2>3, <3>1, TurnedAt
    <3> QED
      BY <3>1, <3>2, Zenon
  <2>6. turn[t.link[p[top]]] < top + 1 - t.left
    <3>1. PICK r \in V1Slots : r = t.link[p[top]]
      BY <2>4
    <3>2. t.prefix[r] # Empty
      BY <2>5, <3>1
    <3>3. turn[r] < 2 ^ V1Bits - t.left
      BY <3>2, TurnedAt
    <3>4. turn[r] < top + 1 - t.left
      <4>1. PICK c \in Nat, l \in Nat, e \in Nat : c = turn[r] /\ l = t.left /\ e = 2 ^ V1Bits
        BY V1Numbers
      <4>2. c < e - l
        BY <3>3, <4>1, Zenon
      <4>3. e = top + 1
        BY <1>1, <4>1, Zenon
      <4>4. c < top + 1 - l
        BY <4>1, <4>2, <4>3
      <4> QED
        BY <4>1, <4>4, Zenon
    <3> QED
      BY <3>1, <3>4, Zenon
  <2> QED
    BY <2>2, <2>5, <2>6
<1>5. PICK n \in Last0 : \A k \in Last0 : n <= k
  <2>1. Last0 \subseteq Nat
    BY <1>1
  <2> HIDE DEF Last0
  <2> QED
    BY <1>4, <2>1, LeastOf
<1>6. n \in V1Slots /\ t.link[p[n]] = 0 /\ Leads(t, slot, n)
  <2>1. \A m \in V1Slots : m < n => ~(n <= m)
    BY <1>1, <1>5
  <2> QED
    BY <1>2, <1>5, <2>1 DEF Leads
<1> DEFINE Moved == {k \in V1Slots : k >= n /\ p[k] # p[n]}
<1>7. Moved = {}
  <2> SUFFICES ASSUME Moved # {} PROVE FALSE
    OBVIOUS
  <2>1. PICK k \in Moved : \A m \in Moved : k <= m
    <3>1. Moved \subseteq Nat
      BY <1>1
    <3> HIDE DEF Moved
    <3> QED
      BY <3>1, LeastOf
  <2>2. k \in V1Slots /\ k >= n /\ p[k] # p[n]
    BY <2>1
  <2>3. k # n
    BY <2>2
  <2>4. k - 1 \in V1Slots /\ (k - 1) + 1 = k /\ k - 1 >= n /\ ~(k <= k - 1)
    BY <1>1, <1>6, <2>2, <2>3
  <2>5. p[k - 1] = p[n]
    BY <2>1, <2>4
  <2>6. p[k] = LinkedOn(t, p[k - 1])
    BY <1>2, <2>2, <2>4
  <2> QED
    BY <1>6, <2>2, <2>5, <2>6 DEF LinkedOn
<1>8. \A k \in V1Slots : k >= n => p[k] = p[n]
  BY <1>7
<1>9. p[top] = p[n]
  BY <1>1, <1>6, <1>8
<1>10. n <= turn[p[n]]
  BY <1>2, <1>6, LeadsOn
<1> QED
  BY <1>2, <1>3, <1>6, <1>8, <1>9, <1>10

\* A link that was there stays, and so does the way along it.
LEMMA LeadsStill ==
    ASSUME NEW t \in V1Tables, NEW u \in V1Tables, NEW slot \in V1Slots, NEW n \in V1Slots,
           \A s \in V1Slots : t.link[s] # 0 => u.link[s] = t.link[s], Leads(t, slot, n)
    PROVE  ChainFrom(u, slot)[n] = ChainFrom(t, slot)[n]
<1>1. PICK top \in Nat : V1Slots = 0 .. top
  <2>1. 2 ^ V1Bits - 1 \in Nat
    BY V1Numbers
  <2> QED
    BY <2>1 DEF V1Slots
<1>2. PICK p \in [V1Slots -> V1Slots] :
         /\ p = ChainFrom(t, slot) /\ p[0] = slot
         /\ \A m \in V1Slots : m + 1 \in V1Slots => p[m + 1] = LinkedOn(t, p[m])
  BY ChainIs
<1>3. PICK q \in [V1Slots -> V1Slots] :
         /\ q = ChainFrom(u, slot) /\ q[0] = slot
         /\ \A m \in V1Slots : m + 1 \in V1Slots => q[m + 1] = LinkedOn(u, q[m])
  BY ChainIs
<1> DEFINE Bad == {m \in V1Slots : m <= n /\ q[m] # p[m]}
<1>4. Bad = {}
  <2> SUFFICES ASSUME Bad # {} PROVE FALSE
    OBVIOUS
  <2>1. PICK m \in Bad : \A k \in Bad : m <= k
    <3>1. Bad \subseteq Nat
      BY <1>1
    <3> HIDE DEF Bad
    <3> QED
      BY <3>1, LeastOf
  <2>2. m \in V1Slots /\ m <= n /\ q[m] # p[m]
    BY <2>1
  <2>3. m # 0
    BY <1>2, <1>3, <2>2
  <2>4. m - 1 \in V1Slots /\ (m - 1) + 1 = m /\ m - 1 < n /\ m - 1 <= n /\ ~(m <= m - 1)
    BY <1>1, <2>2, <2>3
  <2>5. q[m - 1] = p[m - 1]
    BY <2>1, <2>4
  <2>6. t.link[p[m - 1]] # 0
    BY <1>2, <2>4 DEF Leads
  <2>7. p[m - 1] \in V1Slots
    BY <1>2, <2>4
  <2>8. u.link[p[m - 1]] = t.link[p[m - 1]]
    BY <2>6, <2>7
  <2>9. p[m] = LinkedOn(t, p[m - 1]) /\ q[m] = LinkedOn(u, q[m - 1])
    BY <1>2, <1>3, <2>2, <2>4
  <2> QED
    BY <2>2, <2>5, <2>6, <2>8, <2>9 DEF LinkedOn
<1>5. n <= n
  BY <1>1
<1> QED
  BY <1>2, <1>3, <1>4, <1>5

(* One more entry.                                                         *)
Names(t, prefix) == prefix = V1Root \/ prefix \in Held(t)

LEMMA RoomIs ==
    ASSUME NEW t \in V1Tables, V1Counts(t)
    PROVE  /\ t.left \in Nat /\ IsFiniteSet(Vacant(t)) /\ t.left = Cardinality(Vacant(t))
           /\ t.left <= 2 ^ V1Bits - 1 /\ (t.left # 0 <=> \E s \in V1Slots : t.prefix[s] = Empty)
<1>1. PICK top \in Nat : V1Slots = 0 .. top /\ 2 ^ V1Bits - 1 = top
  <2>1. 2 ^ V1Bits - 1 \in Nat
    BY V1Numbers
  <2> QED
    BY <2>1 DEF V1Slots
<1>2. IsFiniteSet(1 .. top) /\ Cardinality(1 .. top) = top
  BY <1>1, FS_Interval
<1>3. Vacant(t) \subseteq 1 .. top
  <2> SUFFICES ASSUME NEW s \in Vacant(t) PROVE s \in 1 .. top
    OBVIOUS
  <2>1. s \in V1Slots /\ t.prefix[s] = Empty
    BY DEF Vacant
  <2>2. s # 0
    BY <2>1 DEF V1Counts, Empty, TakenSlot
  <2> QED
    BY <1>1, <2>1, <2>2
<1>4. IsFiniteSet(Vacant(t)) /\ Cardinality(Vacant(t)) <= top /\ Cardinality(Vacant(t)) \in Nat
  BY <1>2, <1>3, FS_Subset, FS_CardinalityType
<1>5. Cardinality(Vacant(t)) = 0 <=> Vacant(t) = {}
  BY <1>4, FS_EmptySet
<1> QED
  BY <1>1, <1>4, <1>5 DEF V1Counts, Vacant

LEMMA MarksApart == V1Root # Empty /\ V1Root # TakenSlot /\ Empty # TakenSlot /\ V1Root \notin V1Slots
                    /\ Empty \notin V1Slots /\ TakenSlot \notin V1Slots
<1>1. PICK top \in Nat : V1Slots = 0 .. top
  <2>1. 2 ^ V1Bits - 1 \in Nat
    BY V1Numbers
  <2> QED
    BY <2>1 DEF V1Slots
<1> QED
  BY <1>1, V1Numbers DEF Empty, TakenSlot

LEMMA CountsEnter ==
    ASSUME NEW t \in V1Tables, V1Counts(t), NEW u \in V1Tables, NEW home \in V1Slots, NEW slot,
           NEW prefix, Names(t, prefix), NEW suffix, EntersAt(u, t, home, slot, prefix, suffix)
    PROVE  /\ V1Counts(u) /\ u.left = t.left - 1 /\ slot # 0 /\ slot \notin Held(t)
           /\ Vacant(u) = Vacant(t) \ {slot} /\ Held(u) = Held(t) \union {slot}
<1>1. slot \in V1Slots /\ t.prefix[slot] = Empty
  BY DEF EntersAt
<1>2. slot # 0 /\ slot \notin Held(t)
  BY <1>1, MarksApart DEF V1Counts, Held
<1>3. prefix \notin {Empty, TakenSlot}
  BY MarksApart DEF Names, Held
<1>4. \A s \in V1Slots : u.prefix[s] = IF s = slot THEN prefix ELSE t.prefix[s]
  BY <1>1 DEF EntersAt, V1Tables
<1>5. Vacant(u) = Vacant(t) \ {slot} /\ Held(u) = Held(t) \union {slot}
  BY <1>1, <1>3, <1>4 DEF Vacant, Held
<1>6. slot \in Vacant(t)
  BY <1>1 DEF Vacant
<1>7. Cardinality(Vacant(u)) = Cardinality(Vacant(t)) - 1
  BY <1>5, <1>6, RoomIs, FS_RemoveElement
<1>8. u.left = t.left - 1 /\ u.left = Cardinality(Vacant(u))
  BY <1>7, RoomIs DEF EntersAt
<1>9. u.full = (u.left = 0)
  <2>1. t.left \in Nat /\ t.left # 0
    BY <1>1, RoomIs
  <2>2. t.full = FALSE
    BY <2>1 DEF V1Counts
  <2>3. u.full = (t.left = 1)
    BY <2>2 DEF EntersAt
  <2> QED
    BY <1>8, <2>1, <2>3
<1>10. \A s \in V1Slots : u.prefix[s] = TakenSlot <=> s = 0
  BY <1>2, <1>3, <1>4 DEF V1Counts
<1> QED
  BY <1>2, <1>5, <1>8, <1>9, <1>10 DEF V1Counts

LEMMA EndHeld ==
    ASSUME NEW t \in V1Tables, V1Counts(t), NEW turn \in [V1Slots -> Nat], Turned(t, turn),
           NEW slot \in V1Slots, t.prefix[slot] # Empty
    PROVE  /\ ChainEnd(t, slot) \in V1Slots /\ t.prefix[ChainEnd(t, slot)] # Empty
           /\ turn[ChainEnd(t, slot)] < 2 ^ V1Bits - t.left
<1>1. PICK top \in Nat : V1Slots = 0 .. top
  <2>1. 2 ^ V1Bits - 1 \in Nat
    BY V1Numbers
  <2> QED
    BY <2>1 DEF V1Slots
<1>2. PICK p \in [V1Slots -> V1Slots] :
         /\ p = ChainFrom(t, slot) /\ p[0] = slot
         /\ \A m \in V1Slots : m + 1 \in V1Slots => p[m + 1] = LinkedOn(t, p[m])
  BY ChainIs
<1> DEFINE Bare == {n \in V1Slots : t.prefix[p[n]] = Empty}
<1>3. Bare = {}
  <2> SUFFICES ASSUME Bare # {} PROVE FALSE
    OBVIOUS
  <2>1. PICK n \in Bare : \A m \in Bare : n <= m
    <3>1. Bare \subseteq Nat
      BY <1>1
    <3> HIDE DEF Bare
    <3> QED
      BY <3>1, LeastOf
  <2>2. n \in V1Slots /\ t.prefix[p[n]] = Empty
    BY <2>1
  <2>3. n # 0
    BY <1>2, <2>2
  <2>4. n - 1 \in V1Slots /\ (n - 1) + 1 = n /\ ~(n <= n - 1)
    BY <1>1, <2>2, <2>3
  <2>5. PICK s \in V1Slots : s = p[n - 1]
    BY <1>2, <2>4
  <2>6. t.prefix[s] # Empty
    BY <2>1, <2>4, <2>5
  <2>7. p[n] = LinkedOn(t, s)
    BY <1>2, <2>2, <2>4, <2>5
  <2>8. t.link[s] # 0 => t.prefix[t.link[s]] # Empty
    BY TurnedAt
  <2> QED
    BY <2>2, <2>6, <2>7, <2>8 DEF LinkedOn
<1>4. PICK e \in V1Slots : e = ChainEnd(t, slot)
  BY EndTyped
<1>5. t.prefix[e] # Empty
  <2>1. t.left \in Nat
    BY RoomIs
  <2>2. PICK n \in V1Slots : ChainFrom(t, slot)[n] = ChainEnd(t, slot)
    BY <2>1, EndIs
  <2> QED
    BY <1>2, <1>3, <1>4, <2>2
<1>6. turn[e] < 2 ^ V1Bits - t.left
  BY <1>5, TurnedAt
<1> QED
  BY <1>4, <1>5, <1>6, Zenon

LEMMA LinkedEnter ==
    ASSUME NEW t \in V1Tables, V1Counts(t), V1Linked(t), NEW u \in V1Tables, NEW home \in V1Slots,
           NEW slot, NEW prefix, Names(t, prefix), NEW suffix,
           EntersAt(u, t, home, slot, prefix, suffix)
    PROVE  V1Linked(u) /\ \A s \in V1Slots : t.link[s] # 0 => u.link[s] = t.link[s]
<1>1. PICK turn \in [V1Slots -> Nat] : Turned(t, turn)
  BY DEF V1Linked
<1>2. slot \in V1Slots /\ t.prefix[slot] = Empty /\ (slot = home <=> t.prefix[home] = Empty)
  BY DEF EntersAt
<1>3. prefix # Empty
  BY MarksApart DEF Names, Held
<1>4. \A s \in V1Slots : u.prefix[s] = IF s = slot THEN prefix ELSE t.prefix[s]
  BY <1>2 DEF EntersAt, V1Tables
<1>5. PICK n \in Nat : n = 2 ^ V1Bits - t.left
  BY RoomIs, V1Numbers
<1>6. 2 ^ V1Bits - u.left = n + 1
  <2>1. u.left = t.left - 1 /\ t.left \in Nat
    BY RoomIs DEF EntersAt
  <2> QED
    BY <1>5, <2>1, V1Numbers
<1> DEFINE next == [turn EXCEPT ![slot] = n]
<1>7. next \in [V1Slots -> Nat]
  BY <1>2
<1>8. \A s \in V1Slots : next[s] = IF s = slot THEN n ELSE turn[s]
  BY <1>2
<1>9. /\ t.link[slot] = 0
      /\ \A s \in V1Slots : t.link[s] # 0 => t.link[s] \in V1Slots /\ t.link[s] # slot /\ s # slot
  <2>1. t.link[slot] = 0
    BY <1>1, <1>2, TurnedAt
  <2>2. ASSUME NEW s \in V1Slots, t.link[s] # 0
        PROVE  t.link[s] \in V1Slots /\ t.link[s] # slot /\ s # slot
    <3>1. t.link[s] \in V1Slots /\ t.prefix[t.link[s]] # Empty
      BY <1>1, <2>2, TurnedAt
    <3> QED
      BY <1>2, <2>1, <2>2, <3>1
  <2> QED
    BY <2>1, <2>2
<1> HIDE DEF next
<1>10. ASSUME NEW s \in V1Slots
       PROVE  next[s] \in Nat /\ (u.prefix[s] # Empty => next[s] < n + 1)
  <2>1. CASE s = slot
    BY <1>8, <2>1
  <2>2. CASE s # slot
    <3>1. turn[s] \in Nat /\ (t.prefix[s] # Empty => turn[s] < 2 ^ V1Bits - t.left)
      BY <1>1, TurnedAt
    <3>2. t.prefix[s] # Empty => turn[s] < n
      BY <1>5, <3>1, Zenon
    <3>3. next[s] = turn[s] /\ u.prefix[s] = t.prefix[s]
      BY <1>4, <1>8, <2>2
    <3> QED
      BY <1>5, <3>1, <3>2, <3>3
  <2> QED
    BY <2>1, <2>2
\* Links that were there
<1>11. ASSUME NEW s \in V1Slots, t.link[s] # 0
       PROVE  u.prefix[t.link[s]] # Empty /\ next[s] < next[t.link[s]]
  <2>1. t.link[s] \in V1Slots /\ t.link[s] # slot /\ s # slot
    BY <1>9, <1>11
  <2>2. t.prefix[t.link[s]] # Empty /\ turn[s] < turn[t.link[s]]
    BY <1>1, <1>11, TurnedAt
  <2>3. next[s] = turn[s] /\ next[t.link[s]] = turn[t.link[s]]
    BY <1>8, <2>1
  <2>4. u.prefix[t.link[s]] = t.prefix[t.link[s]]
    BY <1>4, <2>1
  <2> QED
    BY <2>2, <2>3, <2>4
<1>12. CASE slot = home
  <2>1. u.link = t.link
    BY <1>12 DEF EntersAt
  <2>2. ASSUME NEW s \in V1Slots
        PROVE  /\ IF u.prefix[s] = Empty THEN u.link[s] = 0 ELSE next[s] < 2 ^ V1Bits - u.left
               /\ u.link[s] # 0 => u.prefix[u.link[s]] # Empty /\ next[s] < next[u.link[s]]
    <3>1. u.prefix[s] = Empty => u.link[s] = 0
      <4>1. t.prefix[s] = Empty => t.link[s] = 0
        BY <1>1, TurnedAt
      <4> QED
        BY <1>3, <1>4, <2>1, <4>1
    <3>2. u.prefix[s] # Empty => next[s] < 2 ^ V1Bits - u.left
      BY <1>6, <1>10, Zenon
    <3> QED
      BY <1>11, <2>1, <3>1, <3>2
  <2>3. Turned(u, next)
    BY <2>2 DEF Turned
  <2> QED
    BY <1>7, <2>1, <2>3 DEF V1Linked
<1>13. CASE slot # home
  <2>1. t.prefix[home] # Empty
    BY <1>2, <1>13
  <2>2. PICK e \in V1Slots : /\ e = ChainEnd(t, home) /\ t.prefix[e] # Empty /\ t.link[e] = 0
                             /\ turn[e] < 2 ^ V1Bits - t.left
    <3>1. t.left \in Nat
      BY RoomIs
    <3>2. t.link[ChainEnd(t, home)] = 0
      BY <1>1, <3>1, EndIs
    <3> QED
      BY <1>1, <2>1, <3>2, EndHeld
  <2>3. u.link = [t.link EXCEPT ![e] = slot]
    BY <1>13, <2>2 DEF EntersAt
  <2>4. \A s \in V1Slots : u.link[s] = IF s = e THEN slot ELSE t.link[s]
    BY <2>3 DEF V1Tables
  <2>5. e # slot
    BY <1>2, <2>2
  <2>6. next[e] < next[slot]
    <3>1. turn[e] < n
      BY <1>5, <2>2, Zenon
    <3> QED
      BY <1>2, <1>8, <2>5, <3>1
  <2>7. ASSUME NEW s \in V1Slots
        PROVE  /\ IF u.prefix[s] = Empty THEN u.link[s] = 0 ELSE next[s] < 2 ^ V1Bits - u.left
               /\ u.link[s] # 0 => u.prefix[u.link[s]] # Empty /\ next[s] < next[u.link[s]]
    <3>1. u.prefix[s] = Empty => u.link[s] = 0
      <4>1. t.prefix[s] = Empty => t.link[s] = 0
        BY <1>1, TurnedAt
      <4> QED
        BY <1>3, <1>4, <2>2, <2>4, <4>1
    <3>2. u.prefix[s] # Empty => next[s] < 2 ^ V1Bits - u.left
      BY <1>6, <1>10, Zenon
    <3>3. CASE s = e
      <4>1. u.link[s] = slot /\ u.prefix[slot] = prefix
        BY <1>2, <1>4, <2>4, <3>3
      <4> QED
        BY <1>3, <2>6, <3>1, <3>2, <3>3, <4>1
    <3>4. CASE s # e
      <4>1. u.link[s] = t.link[s]
        BY <2>4, <3>4
      <4> QED
        BY <1>11, <3>1, <3>2, <4>1
    <3> QED
      BY <3>3, <3>4
  <2>8. Turned(u, next)
    BY <2>7 DEF Turned
  <2>9. \A s \in V1Slots : t.link[s] # 0 => u.link[s] = t.link[s]
    BY <2>2, <2>4
  <2> QED
    BY <1>7, <2>8, <2>9 DEF V1Linked
<1> QED
  BY <1>12, <1>13

LEMMA ShortestWay ==
    ASSUME NEW t \in V1Tables, V1Counts(t), V1Linked(t), NEW h \in V1Slots, NEW s, OnChain(t, h, s)
    PROVE  \E k \in V1Slots : Leads(t, h, k) /\ ChainFrom(t, h)[k] = s
<1>1. PICK top \in Nat : V1Slots = 0 .. top
  <2>1. 2 ^ V1Bits - 1 \in Nat
    BY V1Numbers
  <2> QED
    BY <2>1 DEF V1Slots
<1>2. PICK turn \in [V1Slots -> Nat] : Turned(t, turn)
  BY DEF V1Linked
<1>3. PICK n \in V1Slots :
         /\ Leads(t, h, n) /\ ChainFrom(t, h)[n] = ChainEnd(t, h)
         /\ \A k \in V1Slots : k >= n => ChainFrom(t, h)[k] = ChainEnd(t, h)
  <2>1. t.left \in Nat
    BY RoomIs
  <2> QED
    BY <1>2, <2>1, EndIs
<1>4. PICK k \in V1Slots : ChainFrom(t, h)[k] = s
  BY DEF OnChain
<1>5. CASE k >= n
  BY <1>3, <1>4, <1>5
<1>6. CASE ~(k >= n)
  <2>1. \A m \in V1Slots : m < k => m < n
    BY <1>1, <1>6
  <2>2. Leads(t, h, k)
    BY <1>3, <2>1 DEF Leads
  <2> QED
    BY <1>4, <2>2
<1> QED
  BY <1>5, <1>6

LEMMA PrefixIsInt == V1Slots \union V1Marks \subseteq Int
<1>1. V1Root \in Int /\ Empty \in Int /\ TakenSlot \in Int
  BY V1Numbers DEF Empty, TakenSlot
<1>2. V1Slots \subseteq Int
  BY DEF V1Slots
<1> QED
  BY <1>1, <1>2 DEF V1Marks

LEMMA EnteredOnChain ==
    ASSUME NEW t \in V1Tables, V1Counts(t), V1Linked(t), NEW u \in V1Tables, NEW home \in V1Slots,
           NEW slot, NEW prefix, Names(t, prefix), NEW suffix,
           EntersAt(u, t, home, slot, prefix, suffix)
    PROVE  OnChain(u, home, slot)
<1>1. PICK top \in Nat : V1Slots = 0 .. top /\ 2 ^ V1Bits = top + 1
  <2>1. 2 ^ V1Bits - 1 \in Nat /\ 2 ^ V1Bits \in Nat
    BY V1Numbers
  <2> QED
    BY <2>1 DEF V1Slots
<1>2. PICK q \in [V1Slots -> V1Slots] :
         /\ q = ChainFrom(u, home) /\ q[0] = home
         /\ \A m \in V1Slots : m + 1 \in V1Slots => q[m + 1] = LinkedOn(u, q[m])
  BY ChainIs
<1>3. slot \in V1Slots /\ t.prefix[slot] = Empty /\ (slot = home <=> t.prefix[home] = Empty)
  BY DEF EntersAt
<1>4. CASE slot = home
  <2>1. 0 \in V1Slots
    BY <1>1
  <2> QED
    BY <1>2, <1>4, <2>1 DEF OnChain
<1>5. CASE slot # home
  <2>1. PICK turn \in [V1Slots -> Nat] : Turned(t, turn)
    BY DEF V1Linked
  <2>2. t.left \in Nat \ {0}
    BY <1>3, RoomIs
  <2>3. PICK e \in V1Slots : e = ChainEnd(t, home) /\ turn[e] < 2 ^ V1Bits - t.left
    BY <1>3, <1>5, <2>1, EndHeld
  <2>4. PICK n \in V1Slots : Leads(t, home, n) /\ n <= turn[e] /\ ChainFrom(t, home)[n] = e
    BY <2>1, <2>2, <2>3, EndIs
  <2>5. n + 1 \in V1Slots
    <3>1. PICK a \in Nat, l \in Nat \ {0}, b \in Nat : a = turn[e] /\ l = t.left /\ b = 2 ^ V1Bits
      BY <2>2, V1Numbers
    <3>2. a < b - l /\ n <= a
      BY <2>3, <2>4, <3>1, Zenon
    <3>3. b = top + 1
      BY <1>1, <3>1, Zenon
    <3>4. n \in 0 .. top
      BY <1>1, Zenon
    <3>5. n + 1 \in 0 .. top
      BY <3>1, <3>2, <3>3, <3>4
    <3> QED
      BY <1>1, <3>5, Zenon
  <2>6. \A s \in V1Slots : t.link[s] # 0 => u.link[s] = t.link[s]
    BY LinkedEnter
  <2>7. q[n] = e
    BY <1>2, <2>4, <2>6, LeadsStill
  <2>8. u.link[e] = slot
    BY <1>5, <2>3 DEF EntersAt, V1Tables
  <2>9. slot # 0
    BY CountsEnter
  <2>10. q[n + 1] = slot
    BY <1>2, <2>5, <2>7, <2>8, <2>9 DEF LinkedOn
  <2> QED
    BY <1>2, <2>5, <2>10 DEF OnChain
<1> QED
  BY <1>4, <1>5

LEMMA PlacedEnter ==
    ASSUME NEW t \in V1Tables, V1Counts(t), V1Linked(t), Placed(t), NEW u \in V1Tables,
           NEW slot, NEW prefix \in V1Slots \union V1Marks, Names(t, prefix), NEW suffix \in Int,
           EntersAt(u, t, PyHash(prefix, suffix), slot, prefix, suffix)
    PROVE  Placed(u)
<1>1. PyHash(prefix, suffix) \in V1Slots
  BY HashesAre, PrefixIsInt
<1>2. PICK home \in V1Slots : home = PyHash(prefix, suffix)
  BY <1>1
<1>3. EntersAt(u, t, home, slot, prefix, suffix)
  BY <1>2
<1>4. Held(u) = Held(t) \union {slot} /\ slot \notin Held(t) /\ slot \in V1Slots
  <2>1. Held(u) = Held(t) \union {slot} /\ slot \notin Held(t)
    BY <1>3, CountsEnter
  <2>2. slot \in V1Slots
    BY <1>3 DEF EntersAt
  <2> QED
    BY <2>1, <2>2
<1>5. \A s \in V1Slots : /\ u.prefix[s] = IF s = slot THEN prefix ELSE t.prefix[s]
                        /\ u.suffix[s] = IF s = slot THEN suffix ELSE t.suffix[s]
  BY <1>3, <1>4 DEF EntersAt, V1Tables
<1>6. ASSUME NEW s \in Held(t) PROVE OnChain(u, PyHash(u.prefix[s], u.suffix[s]), s)
  <2>1. s \in V1Slots /\ s # slot
    BY <1>4 DEF Held
  <2>2. t.prefix[s] \in V1Slots \union V1Marks /\ t.suffix[s] \in Int
    BY <2>1 DEF V1Tables
  <2>3. PICK h \in V1Slots : h = PyHash(t.prefix[s], t.suffix[s])
    BY <2>2, HashesAre, PrefixIsInt
  <2>4. OnChain(t, h, s)
    BY <2>3 DEF Placed
  <2>5. PICK k \in V1Slots : Leads(t, h, k) /\ ChainFrom(t, h)[k] = s
    BY <2>4, ShortestWay
  <2>6. \A r \in V1Slots : t.link[r] # 0 => u.link[r] = t.link[r]
    BY <1>3, LinkedEnter
  <2>7. ChainFrom(u, h)[k] = s
    BY <2>5, <2>6, LeadsStill
  <2>8. u.prefix[s] = t.prefix[s] /\ u.suffix[s] = t.suffix[s]
    BY <1>5, <2>1
  <2> QED
    BY <2>3, <2>7, <2>8 DEF OnChain
<1>7. OnChain(u, PyHash(u.prefix[slot], u.suffix[slot]), slot)
  <2>1. OnChain(u, home, slot)
    BY <1>3, EnteredOnChain
  <2>2. u.prefix[slot] = prefix /\ u.suffix[slot] = suffix
    BY <1>4, <1>5
  <2> QED
    BY <1>2, <2>1, <2>2
<1> QED
  BY <1>4, <1>6, <1>7 DEF Placed

\* The strings there were, and that of the entry
Enlarged(text2, text, t, slot, prefix, suffix) ==
    /\ \A s \in Held(t) : text2[s] = text[s]
    /\ text2[slot] = IF prefix = V1Root THEN <<suffix>> ELSE Append(text[prefix], suffix)

LEMMA SpellsEnter ==
    ASSUME NEW t \in V1Tables, V1Counts(t), NEW u \in V1Tables, NEW home \in V1Slots, NEW slot,
           NEW prefix, Names(t, prefix), NEW suffix \in Int,
           EntersAt(u, t, home, slot, prefix, suffix), NEW text, Spells(t, text), NEW text2,
           Enlarged(text2, text, t, slot, prefix, suffix)
    PROVE  Spells(u, text2)
<1>0. /\ \A s \in Held(t) : text2[s] = text[s]
      /\ text2[slot] = IF prefix = V1Root THEN <<suffix>> ELSE Append(text[prefix], suffix)
  BY DEF Enlarged
<1>1. /\ Held(u) = Held(t) \union {slot} /\ slot \notin Held(t) /\ slot \in V1Slots
      /\ u.left = t.left - 1
  <2>1. Held(u) = Held(t) \union {slot} /\ slot \notin Held(t) /\ u.left = t.left - 1
    BY CountsEnter
  <2>2. slot \in V1Slots
    BY DEF EntersAt
  <2> QED
    BY <2>1, <2>2
<1>2. \A s \in V1Slots : /\ u.prefix[s] = IF s = slot THEN prefix ELSE t.prefix[s]
                        /\ u.suffix[s] = IF s = slot THEN suffix ELSE t.suffix[s]
  BY <1>1 DEF EntersAt, V1Tables
<1>3. PICK n \in Nat : n = 2 ^ V1Bits - t.left
  BY RoomIs, V1Numbers
<1>4. 2 ^ V1Bits - u.left = n + 1
  BY <1>1, <1>3, RoomIs, V1Numbers
<1>5. ASSUME NEW s \in Held(t)
      PROVE  /\ text[s] \in Seq(Int) /\ Len(text[s]) \in 1 .. n
             /\ IF t.prefix[s] = V1Root THEN text[s] = <<t.suffix[s]>>
                ELSE t.prefix[s] \in Held(t) /\ text[s] = Append(text[t.prefix[s]], t.suffix[s])
  BY <1>3, Zenon DEF Spells
<1>6. ASSUME NEW s \in Held(t)
      PROVE  /\ text2[s] \in Seq(Int) /\ Len(text2[s]) \in 1 .. n + 1
             /\ IF u.prefix[s] = V1Root THEN text2[s] = <<u.suffix[s]>>
                ELSE u.prefix[s] \in Held(u) /\ text2[s] = Append(text2[u.prefix[s]], u.suffix[s])
  <2>1. s \in V1Slots /\ s # slot
    BY <1>1 DEF Held
  <2>2. u.prefix[s] = t.prefix[s] /\ u.suffix[s] = t.suffix[s] /\ text2[s] = text[s]
    BY <1>0, <1>2, <2>1
  <2>3. Len(text[s]) \in 1 .. n + 1
    BY <1>5
  <2>4. t.prefix[s] \in Held(t) => text2[t.prefix[s]] = text[t.prefix[s]]
    BY <1>0
  <2> QED
    BY <1>1, <1>5, <2>2, <2>3, <2>4, Zenon
<1>7. /\ text2[slot] \in Seq(Int) /\ Len(text2[slot]) \in 1 .. n + 1
      /\ IF u.prefix[slot] = V1Root THEN text2[slot] = <<u.suffix[slot]>>
         ELSE u.prefix[slot] \in Held(u) /\ text2[slot] = Append(text2[u.prefix[slot]], u.suffix[slot])
  <2>1. u.prefix[slot] = prefix /\ u.suffix[slot] = suffix
    BY <1>1, <1>2
  <2>2. CASE prefix = V1Root
    <3>1. text2[slot] = <<suffix>>
      BY <1>0, <2>2
    <3>2. <<suffix>> \in Seq(Int) /\ Len(<<suffix>>) \in 1 .. n + 1
      OBVIOUS
    <3> QED
      BY <2>1, <2>2, <3>1, <3>2
  <2>3. CASE prefix # V1Root
    <3>1. prefix \in Held(t) /\ text2[slot] = Append(text[prefix], suffix)
      BY <1>0, <2>3 DEF Names
    <3>2. text[prefix] \in Seq(Int) /\ Len(text[prefix]) \in 1 .. n /\ text2[prefix] = text[prefix]
      BY <1>0, <1>5, <3>1
    <3>3. PICK w \in Seq(Int) : w = text[prefix] /\ Len(w) \in 1 .. n
      BY <3>2
    <3>4. Append(w, suffix) \in Seq(Int) /\ Len(Append(w, suffix)) \in 1 .. n + 1
      BY <3>3
    <3> QED
      BY <1>1, <2>1, <2>3, <3>1, <3>2, <3>3, <3>4
  <2> QED
    BY <2>2, <2>3
<1> QED
  <2>1. \A s \in Held(u) : s \in Held(t) \/ s = slot
    BY <1>1
  <2> QED
    BY <1>4, <1>6, <1>7, <2>1, Zenon DEF Spells

\* A slot's string is the one that was entered.
LEMMA StringIsText ==
    ASSUME NEW t \in V1Tables, V1Counts(t), NEW text, Spells(t, text), NEW c \in Held(t)
    PROVE  V1String(t, c) = text[c]
<1>1. PICK top \in Nat : top = 2 ^ V1Bits /\ t.left <= top
  BY V1Numbers, RoomIs
<1>2. c \in V1Slots
  BY DEF Held
<1>3. PICK g \in [0 .. top -> Steps] :
         /\ g[0] = Begun(c) /\ \A n \in 1 .. top : g[n] = WalkedOn(t, g[n - 1])
         /\ V1String(t, c) = StringOf(g[top])
  BY <1>1, <1>2, WalkIs
<1>4. ASSUME NEW s \in Held(t)
      PROVE  /\ s \in V1Slots /\ text[s] \in Seq(Int) /\ Len(text[s]) \in 1 .. top
             /\ IF t.prefix[s] = V1Root THEN text[s] = <<t.suffix[s]>>
                ELSE t.prefix[s] \in Held(t) /\ text[s] = Append(text[t.prefix[s]], t.suffix[s])
  <2>1. text[s] \in Seq(Int) /\ Len(text[s]) \in 1 .. 2 ^ V1Bits - t.left
    BY Zenon DEF Spells
  <2>2. t.left \in Nat
    BY RoomIs
  <2>3. 1 .. 2 ^ V1Bits - t.left \subseteq 1 .. top
    BY <1>1, <2>2
  <2>4. IF t.prefix[s] = V1Root THEN text[s] = <<t.suffix[s]>>
        ELSE t.prefix[s] \in Held(t) /\ text[s] = Append(text[t.prefix[s]], t.suffix[s])
    BY Zenon DEF Spells
  <2> QED
    BY <2>1, <2>3, <2>4 DEF Held
<1> DEFINE Whole(w) == w.at = V1Root /\ w.text = text[c]
           Rest(w, n) == w.at \in Held(t) /\ text[w.at] \o w.text = text[c]
                         /\ Len(text[w.at]) <= Len(text[c]) - n
           Bad == {n \in 0 .. top : ~(Whole(g[n]) \/ Rest(g[n], n))}
<1>5. Bad = {}
  <2> SUFFICES ASSUME Bad # {} PROVE FALSE
    OBVIOUS
  <2>1. PICK n \in Bad : \A m \in Bad : n <= m
    <3>1. Bad \subseteq Nat
      OBVIOUS
    <3> HIDE DEF Bad
    <3> QED
      BY <3>1, LeastOf
  <2>2. n \in 0 .. top /\ ~(Whole(g[n]) \/ Rest(g[n], n))
    BY <2>1
  <2>3. CASE n = 0
    <3>1. g[0].at = c /\ g[0].text = <<>>
      BY <1>3 DEF Begun
    <3>2. text[c] \in Seq(Int) /\ Len(text[c]) \in Nat
      BY <1>4
    <3>3. text[c] \o <<>> = text[c] /\ Len(text[c]) <= Len(text[c]) - 0
      BY <3>2
    <3> QED
      BY <2>2, <2>3, <3>1, <3>3
  <2>4. CASE n # 0
    <3>1. n - 1 \in 0 .. top /\ n \in 1 .. top /\ ~(n <= n - 1)
      <4>1. n \in 0 .. top
        BY <2>2
      <4> HIDE DEF Bad, Whole, Rest
      <4> QED
        BY <2>4, <4>1
    <3>2. PICK w \in Steps : w = g[n - 1] /\ g[n] = WalkedOn(t, w)
      BY <1>3, <3>1
    <3>3. Whole(w) \/ Rest(w, n - 1)
      BY <2>1, <3>1, <3>2
    <3>4. CASE Whole(w)
      <4>1. g[n] = w
        BY <3>2, <3>4, MarksApart DEF WalkedOn
      <4> QED
        BY <2>2, <3>4, <4>1
    <3>5. CASE Rest(w, n - 1)
      <4>1. PICK s \in Held(t) : s = w.at
        BY <3>5
      <4>2. PICK v \in Seq(Int), x \in Int : v = w.text /\ x = t.suffix[s] /\ s \in V1Slots
        BY <1>4, <4>1 DEF Steps, V1Tables
      <4>3. g[n] = [at |-> t.prefix[s], text |-> <<x>> \o v]
        BY <3>2, <4>1, <4>2 DEF WalkedOn
      <4>4. g[n].at = t.prefix[s] /\ g[n].text = <<x>> \o v
        BY <4>3
      <4>5. CASE t.prefix[s] = V1Root
        <5>1. text[s] = <<x>>
          BY <1>4, <4>2, <4>5
        <5>2. g[n].text = text[c]
          BY <3>5, <4>1, <4>2, <4>4, <5>1
        <5> QED
          BY <2>2, <4>4, <4>5, <5>2
      <4>6. CASE t.prefix[s] # V1Root
        <5>1. PICK r \in Held(t) : r = t.prefix[s] /\ text[s] = Append(text[r], x)
          BY <1>4, <4>2, <4>6
        <5>2. PICK y \in Seq(Int) : y = text[r]
          BY <1>4
        <5>3. Append(y, x) \o v = y \o (<<x>> \o v) /\ Len(Append(y, x)) = Len(y) + 1
          <6>1. y \in Seq(Int) /\ v \in Seq(Int) /\ <<x>> \in Seq(Int) /\ x \in Int
            BY <4>2, <5>2
          <6>2. Append(y, x) = y \o <<x>> /\ Len(Append(y, x)) = Len(y) + 1
            BY <6>1
          <6>3. (y \o <<x>>) \o v = y \o (<<x>> \o v)
            BY <6>1, ConcatAssociative
          <6> QED
            BY <6>2, <6>3
        <5>4. text[r] \o g[n].text = text[c]
          BY <3>5, <4>1, <4>2, <4>4, <5>1, <5>2, <5>3
        <5>5. Len(text[r]) <= Len(text[c]) - n
          <6>1. PICK k \in Nat : k = Len(text[c])
            BY <1>4
          <6>2. Len(text[s]) <= k - (n - 1)
            BY <3>5, <4>1, <6>1, Zenon
          <6>3. Len(text[s]) = Len(y) + 1 /\ Len(y) \in Nat
            <7>1. text[s] = Append(y, x)
              BY <5>1, <5>2, Zenon
            <7>2. Len(y) \in Nat
              BY <5>2
            <7> QED
              BY <5>3, <7>1, <7>2, Zenon
          <6>4. PICK j \in Nat : j = Len(y)
            BY <6>3
          <6>5. j + 1 <= k - (n - 1)
            BY <6>2, <6>3, <6>4, Zenon
          <6>6. n \in Nat
            BY <3>1
          <6>7. j <= k - n
            BY <6>5, <6>6
          <6> QED
            BY <5>2, <6>1, <6>4, <6>7, Zenon
        <5>6. Rest(g[n], n)
          BY <4>4, <5>1, <5>4, <5>5
        <5> QED
          BY <2>2, <5>6
      <4> QED
        BY <4>5, <4>6
    <3> QED
      BY <3>3, <3>4, <3>5
  <2> QED
    BY <2>3, <2>4
<1>6. Whole(g[top]) \/ Rest(g[top], top)
  <2>1. top \in 0 .. top
    OBVIOUS
  <2> QED
    BY <1>5, <2>1
<1>7. ~Rest(g[top], top)
  <2> SUFFICES ASSUME Rest(g[top], top) PROVE FALSE
    OBVIOUS
  <2>1. PICK a \in 1 .. top, b \in 1 .. top : a = Len(text[g[top].at]) /\ b = Len(text[c])
    BY <1>4
  <2>2. a <= b - top
    BY <2>1
  <2> QED
    BY <2>1, <2>2
<1> QED
  BY <1>3, <1>6, <1>7 DEF StringOf

(* The table to begin with: the single bytes, one after another.           *)
EmptyTable == [prefix |-> [s \in V1Slots |-> IF s = 0 THEN TakenSlot ELSE Empty],
               suffix |-> [s \in V1Slots |-> 0], link |-> [s \in V1Slots |-> 0],
               left |-> 2 ^ V1Bits - 1, full |-> FALSE, failed |-> FALSE,
               prev |-> 0, first |-> 0, done |-> FALSE, out |-> <<>>]
Filling(g, home) == g = [n \in 0 .. V1Bytes |-> IF n = 0 THEN EmptyTable
                                              ELSE V1Insert(g[n - 1], home[n - 1], V1Root, n - 1)]

LEMMA EmptyTyped == EmptyTable \in V1Tables
<1>1. 0 \in V1Slots /\ 2 ^ V1Bits - 1 \in Int
  BY V1Numbers DEF V1Slots
<1>2. /\ [s \in V1Slots |-> IF s = 0 THEN TakenSlot ELSE Empty] \in [V1Slots -> V1Slots \union V1Marks]
      /\ [s \in V1Slots |-> 0] \in [V1Slots -> V1Slots] /\ [s \in V1Slots |-> 0] \in [V1Slots -> Int]
  BY <1>1 DEF V1Marks
<1>3. <<>> \in Seq(Int)
  OBVIOUS
<1> QED
  BY <1>1, <1>2, <1>3 DEF EmptyTable, V1Tables

LEMMA FilledIs ==
    ASSUME NEW home \in [0 .. V1Bytes - 1 -> V1Slots]
    PROVE  \E g \in [0 .. V1Bytes -> V1Tables] :
              /\ g[0] = EmptyTable
              /\ \A n \in 1 .. V1Bytes : g[n] = V1Insert(g[n - 1], home[n - 1], V1Root, n - 1)
              /\ V1Filled(home) = g[V1Bytes]
<1>1. PICK top \in Nat : top = V1Bytes
  BY V1Numbers
<1> DEFINE Enters(t, n) == V1Insert(t, home[n - 1], V1Root, n - 1)
           f == [n \in Nat |-> [t \in V1Tables |-> IF n \in 1 .. top THEN Enters(t, n) ELSE t]]
<1>2. ASSUME NEW t \in V1Tables, NEW n \in 1 .. top PROVE Enters(t, n) \in V1Tables
  <2>1. n - 1 \in 0 .. V1Bytes - 1 /\ n - 1 \in Int
    BY <1>1
  <2>2. home[n - 1] \in V1Slots /\ V1Root \in V1Slots \union V1Marks
    BY <2>1 DEF V1Marks
  <2> QED
    BY <2>1, <2>2, InsertIs
<1> HIDE DEF Enters
<1>3. f \in [Nat -> [V1Tables -> V1Tables]]
  BY <1>2
<1>4. PICK g \in [0 .. top -> V1Tables] : Turns(g, top, EmptyTable, f)
  <2> HIDE DEF f
  <2> QED
    BY <1>3, EmptyTyped, LoopRuns, Zenon
<1>5. ASSUME NEW n \in 0 .. top
      PROVE  g[n] = IF n = 0 THEN EmptyTable ELSE Enters(g[n - 1], n)
  <2>1. CASE n = 0
    BY <1>4, <2>1 DEF Turns
  <2>2. CASE n # 0
    <3>1. n \in 1 .. top /\ n - 1 \in 0 .. top /\ n \in Nat
      BY <2>2
    <3>2. g[n - 1] \in V1Tables
      BY <1>4, <3>1
    <3>3. g[n] = f[n][g[n - 1]]
      BY <1>4, <3>1 DEF Turns
    <3> QED
      BY <2>2, <3>1, <3>2, <3>3
  <2> QED
    BY <2>1, <2>2
<1>6. Filling(g, home)
  <2>1. g = [n \in 0 .. top |-> g[n]]
    BY <1>4
  <2>2. g = [n \in 0 .. top |-> IF n = 0 THEN EmptyTable ELSE Enters(g[n - 1], n)]
    BY <1>5, <2>1
  <2> QED
    BY <1>1, <2>2 DEF Filling, Enters
<1>7. V1Filled(home) = (CHOOSE h : Filling(h, home))[V1Bytes]
  BY DEF V1Filled, Filling, EmptyTable
<1>8. PICK p : p = CHOOSE h : Filling(h, home)
  OBVIOUS
<1>9. p = [n \in 0 .. top |-> IF n = 0 THEN EmptyTable ELSE Enters(p[n - 1], n)]
  <2>1. Filling(p, home)
    BY <1>6, <1>8
  <2> QED
    BY <1>1, <2>1 DEF Filling, Enters
<1> DEFINE Out == {n \in 0 .. top : p[n] \notin V1Tables}
<1>10. Out = {}
  <2> SUFFICES ASSUME Out # {} PROVE FALSE
    OBVIOUS
  <2>1. PICK n \in Out : \A m \in Out : n <= m
    <3>1. Out \subseteq Nat
      OBVIOUS
    <3> HIDE DEF Out
    <3> QED
      BY <3>1, LeastOf
  <2>2. n \in 0 .. top /\ p[n] \notin V1Tables
    BY <2>1
  <2>3. n # 0
    BY <1>9, <2>2, EmptyTyped
  <2>4. n - 1 \in 0 .. top /\ n \in 1 .. top /\ ~(n <= n - 1)
    BY <2>2, <2>3
  <2>5. p[n - 1] \in V1Tables
    BY <2>1, <2>4
  <2>6. p[n] = Enters(p[n - 1], n)
    BY <1>9, <2>2, <2>3
  <2> QED
    BY <1>2, <2>2, <2>4, <2>5, <2>6
<1>11. p \in [0 .. top -> V1Tables]
  <2>1. p = [n \in 0 .. top |-> p[n]]
    BY <1>9
  <2> QED
    BY <1>10, <2>1
<1>12. \A n \in 1 .. top : p[n] = Enters(p[n - 1], n)
  BY <1>9
<1>13. p[0] = EmptyTable
  BY <1>9
<1> QED
  BY <1>1, <1>7, <1>8, <1>11, <1>12, <1>13 DEF Enters

\* Nothing has been decoded yet.
Fresh(t) == t.prev = 0 /\ t.done = FALSE /\ t.failed = FALSE

LEMMA EmptySound ==
    /\ V1Sound(EmptyTable) /\ Fresh(EmptyTable) /\ EmptyTable.left = 2 ^ V1Bits - 1
    /\ \A text : Spells(EmptyTable, text)
<1> DEFINE t == EmptyTable
<1>1. PICK top \in Nat : V1Slots = 0 .. top /\ 2 ^ V1Bits - 1 = top /\ 2 ^ V1Bits = top + 1 /\ top # 0
  <2>1. 2 ^ V1Bits - 1 \in Nat \ {0} /\ 2 ^ V1Bits \in Nat
    BY V1Numbers
  <2> QED
    BY <2>1 DEF V1Slots
<1>2. /\ \A s \in V1Slots : t.prefix[s] = IF s = 0 THEN TakenSlot ELSE Empty
      /\ \A s \in V1Slots : t.link[s] = 0
      /\ t.left = top /\ t.full = FALSE /\ Fresh(t)
  BY <1>1 DEF EmptyTable, Fresh
<1>3. t \in V1Tables
  BY EmptyTyped
<1> HIDE DEF t
<1>4. V1Counts(t)
  <2>1. Vacant(t) = 1 .. top
    BY <1>1, <1>2, MarksApart DEF Vacant
  <2>2. Cardinality(1 .. top) = top
    BY <1>1, FS_Interval
  <2>3. \A s \in V1Slots : t.prefix[s] = TakenSlot <=> s = 0
    BY <1>2, MarksApart
  <2> QED
    BY <1>1, <1>2, <2>1, <2>2, <2>3 DEF V1Counts
<1>5. Held(t) = {}
  BY <1>2 DEF Held
<1>6. V1Linked(t)
  <2> DEFINE turn == [s \in V1Slots |-> 0]
  <2>1. turn \in [V1Slots -> Nat]
    OBVIOUS
  <2>2. 0 < 2 ^ V1Bits - t.left
    BY <1>1, <1>2
  <2>3. Turned(t, turn)
    BY <1>2, <2>2 DEF Turned
  <2> HIDE DEF turn
  <2> QED
    BY <2>1, <2>3 DEF V1Linked
<1>7. Placed(t) /\ \A text : Spells(t, text)
  BY <1>5 DEF Placed, Spells
<1>8. t.left = 2 ^ V1Bits - 1
  BY <1>1, <1>2
<1> QED
  BY <1>2, <1>3, <1>4, <1>6, <1>7, <1>8 DEF V1Sound, t

\* An entry leaves the table sound.
LEMMA SoundEnter ==
    ASSUME NEW t, V1Sound(t), NEW u \in V1Tables, NEW slot, NEW prefix \in V1Slots \union V1Marks,
           Names(t, prefix), NEW suffix \in Int,
           EntersAt(u, t, PyHash(prefix, suffix), slot, prefix, suffix)
    PROVE  V1Sound(u) /\ u.left = t.left - 1
<1>1. t \in V1Tables /\ V1Counts(t) /\ V1Linked(t) /\ Placed(t)
  BY DEF V1Sound
<1>2. PICK home \in V1Slots : home = PyHash(prefix, suffix)
  BY HashesAre, PrefixIsInt
<1>3. EntersAt(u, t, home, slot, prefix, suffix)
  BY <1>2
<1>4. V1Counts(u) /\ u.left = t.left - 1
  BY <1>1, <1>3, CountsEnter
<1>5. V1Linked(u)
  BY <1>1, <1>3, LinkedEnter
<1>6. Placed(u)
  BY <1>1, PlacedEnter
<1> QED
  BY <1>4, <1>5, <1>6 DEF V1Sound

LEMMA FilledSound ==
    ASSUME NEW home, home = [byte \in 0 .. V1Bytes - 1 |-> PyHash(V1Root, byte)]
    PROVE  V1Sound(V1Filled(home)) /\ Fresh(V1Filled(home)) /\ \E text : Spells(V1Filled(home), text)
<1>1. PICK top \in Nat, b \in Nat : top = V1Bytes /\ b = 2 ^ V1Bits /\ top < b
  BY V1Numbers
<1>2. V1Root \in Int /\ V1Root \in V1Slots \union V1Marks
  BY V1Numbers DEF V1Marks
<1>3. home \in [0 .. V1Bytes - 1 -> V1Slots]
  <2>1. ASSUME NEW byte \in 0 .. V1Bytes - 1 PROVE PyHash(V1Root, byte) \in V1Slots
    BY <1>2, HashesAre
  <2> QED
    BY <2>1
<1>4. PICK g \in [0 .. top -> V1Tables] :
         /\ g[0] = EmptyTable
         /\ \A n \in 1 .. top : g[n] = V1Insert(g[n - 1], home[n - 1], V1Root, n - 1)
         /\ V1Filled(home) = g[top]
  BY <1>1, <1>3, FilledIs
<1> DEFINE Right(t, n) == V1Sound(t) /\ Fresh(t) /\ t.left = b - 1 - n /\ \E text : Spells(t, text)
           Bad == {n \in 0 .. top : ~Right(g[n], n)}
<1>5. Bad = {}
  <2> SUFFICES ASSUME Bad # {} PROVE FALSE
    OBVIOUS
  <2>1. PICK n \in Bad : \A m \in Bad : n <= m
    <3>1. Bad \subseteq Nat
      OBVIOUS
    <3> HIDE DEF Bad
    <3> QED
      BY <3>1, LeastOf
  <2>2. n \in 0 .. top /\ ~Right(g[n], n)
    <3> HIDE DEF Right
    <3> QED
      BY <2>1
  <2>3. CASE n = 0
    <3>1. EmptyTable.left = b - 1 - 0
      BY <1>1, EmptySound
    <3> QED
      BY <1>4, <2>2, <2>3, <3>1, EmptySound
  <2>4. CASE n # 0
    <3>1. n - 1 \in 0 .. top /\ n \in 1 .. top /\ ~(n <= n - 1) /\ n - 1 \in 0 .. V1Bytes - 1
      <4>1. n \in 0 .. top
        BY <2>2
      <4> HIDE DEF Bad, Right
      <4> QED
        BY <1>1, <2>4, <4>1
    <3>2. PICK t \in V1Tables, u \in V1Tables : t = g[n - 1] /\ u = g[n]
      BY <3>1
    <3>3. Right(t, n - 1)
      <4> HIDE DEF Right
      <4> QED
        BY <2>1, <3>1, <3>2
    <3>4. u = V1Insert(t, PyHash(V1Root, n - 1), V1Root, n - 1)
      BY <1>4, <3>1, <3>2
    <3>5. n - 1 \in Int /\ PyHash(V1Root, n - 1) \in V1Slots
      BY <1>2, <3>1, HashesAre
    <3>6. t.left = b - 1 - (n - 1) /\ t.left # 0
      BY <1>1, <2>2, <3>3
    <3>7. \E s \in V1Slots : t.prefix[s] = Empty
      BY <3>3, <3>6, RoomIs DEF V1Sound
    <3>8. u \in V1Tables /\ \E slot : EntersAt(u, t, PyHash(V1Root, n - 1), slot, V1Root, n - 1)
      BY <1>2, <3>4, <3>5, <3>7, InsertIs
    <3>9. PICK slot : EntersAt(u, t, PyHash(V1Root, n - 1), slot, V1Root, n - 1)
      BY <3>8
    <3>10. Names(t, V1Root)
      BY DEF Names
    <3>11. V1Sound(u) /\ u.left = t.left - 1
      BY <1>2, <3>3, <3>5, <3>8, <3>9, <3>10, SoundEnter
    <3>12. Fresh(u)
      BY <3>3, <3>9 DEF Fresh, EntersAt
    <3>13. \E text : Spells(u, text)
      <4>1. PICK text : Spells(t, text)
        BY <3>3
      <4>2. slot \in V1Slots /\ slot \notin Held(t)
        <5>1. slot \notin Held(t)
          BY <3>3, <3>5, <3>8, <3>9, <3>10, CountsEnter DEF V1Sound
        <5> QED
          BY <3>9, <5>1 DEF EntersAt
      <4> DEFINE text2 == [s \in V1Slots |-> IF s = slot THEN <<n - 1>> ELSE text[s]]
      <4>3. (\A s \in Held(t) : text2[s] = text[s]) /\ text2[slot] = <<n - 1>>
        BY <4>2 DEF Held
      <4> HIDE DEF text2
      <4>4. Enlarged(text2, text, t, slot, V1Root, n - 1)
        BY <4>3 DEF Enlarged
      <4>5. V1Counts(t)
        BY <3>3 DEF V1Sound
      <4>6. PICK x \in Int, home2 \in V1Slots : x = n - 1 /\ home2 = PyHash(V1Root, n - 1)
        BY <3>5
      <4>7. EntersAt(u, t, home2, slot, V1Root, x) /\ Enlarged(text2, text, t, slot, V1Root, x)
        BY <3>9, <4>4, <4>6, Zenon
      <4>9. Spells(u, text2)
        BY <3>10, <4>1, <4>5, <4>7, SpellsEnter, Zenon
      <4> QED
        BY <4>9
    <3>14. u.left = b - 1 - n
      BY <2>2, <3>6, <3>11
    <3> QED
      BY <2>2, <3>2, <3>11, <3>12, <3>13, <3>14
  <2> QED
    BY <2>3, <2>4
<1>6. Right(g[top], top)
  <2>1. top \in 0 .. top
    OBVIOUS
  <2> HIDE DEF Right
  <2> QED
    BY <1>5, <2>1
<1> QED
  BY <1>4, <1>6

(* A code.                                                                 *)
\* The table after an entry for the code before, or without one
Moved(t2, t) ==
    \/ t2 = t
    \/ \E slot \in V1Slots, suffix \in Int :
         /\ t.prev \in Held(t) /\ t2 \in V1Tables
         /\ EntersAt(t2, t, PyHash(t.prev, suffix), slot, t.prev, suffix)

Ready(t) == V1Sound(t) /\ (t.prev = 0 \/ t.prev \in Held(t))

LEMMA CodeIs ==
    ASSUME NEW t, Ready(t), NEW c \in V1Slots \ {0}
    PROVE  \/ V1Code("80un", t, c) = V1Refuses(t)
           \/ \E t2 \in V1Tables, first \in Int, out \in Seq(Int) :
                 /\ V1Code("80un", t, c) = [t2 EXCEPT !.prev = c, !.first = first, !.out = out]
                 /\ Moved(t2, t) /\ c \in Held(t2)
<1>1. t \in V1Tables /\ V1Counts(t)
  BY DEF Ready, V1Sound
<1>2. c \in V1Slots /\ c # 0
  OBVIOUS
<1> DEFINE early == t.prefix[c] = Empty
           hash1 == V1Hash("80un", t.prev, t.first)
           t1 == IF early THEN V1Insert(t, hash1, t.prev, t.first) ELSE t
           string == V1String(t1, c)
           hash2 == V1Hash("80un", t.prev, string[1])
           t2 == IF early \/ t.prev = 0 \/ t1.full THEN t1
                 ELSE V1Insert(t1, hash2, t.prev, string[1])
<1>3. V1Code("80un", t, c) =
        IF (early /\ (t.prev = 0 \/ t.full)) \/ t1.prefix[c] = Empty THEN V1Refuses(t)
        ELSE [t2 EXCEPT !.prev = c, !.first = string[1], !.out = string]
  BY DEF V1Code
<1>4. CASE (early /\ (t.prev = 0 \/ t.full)) \/ t1.prefix[c] = Empty
  BY <1>3, <1>4
<1>5. CASE ~((early /\ (t.prev = 0 \/ t.full)) \/ t1.prefix[c] = Empty)
  <2>1. V1Code("80un", t, c) = [t2 EXCEPT !.prev = c, !.first = string[1], !.out = string]
    BY <1>3, <1>5
  <2>2. t.first \in Int /\ t.prev \in V1Slots
    BY <1>1 DEF V1Tables
  <2>3. t.full = FALSE => \E s \in V1Slots : t.prefix[s] = Empty
    BY <1>1, RoomIs DEF V1Counts
  <2>4. t.full \in BOOLEAN
    BY <1>1 DEF V1Tables
  <2>5. CASE early
    <3>1. t.prev # 0 /\ t.full = FALSE
      BY <1>5, <2>4, <2>5
    <3>2. t.prev \in Held(t)
      BY <3>1 DEF Ready
    <3>3. PICK h \in V1Slots : h = PyHash(t.prev, t.first)
      BY <2>2, HashesAre, PrefixIsInt
    <3>4. t1 = V1Insert(t, h, t.prev, t.first)
      BY <2>5, <3>3 DEF V1Hash
    <3>5. t1 \in V1Tables /\ \E slot : EntersAt(t1, t, h, slot, t.prev, t.first)
      <4> HIDE DEF t1
      <4> QED
        BY <1>1, <2>2, <2>3, <3>1, <3>4, InsertIs
    <3>6. Moved(t1, t)
      <4>1. PICK slot : EntersAt(t1, t, h, slot, t.prev, t.first)
        BY <3>5
      <4> HIDE DEF t1
      <4>2. slot \in V1Slots
        BY <4>1 DEF EntersAt
      <4>3. EntersAt(t1, t, PyHash(t.prev, t.first), slot, t.prev, t.first)
        BY <3>3, <4>1, Zenon
      <4> QED
        BY <2>2, <3>2, <3>5, <4>2, <4>3, Zenon DEF Moved
    <3>7. t2 = t1
      BY <2>5
    <3>8. c \in Held(t1)
      <4>1. PICK slot : EntersAt(t1, t, h, slot, t.prev, t.first)
        BY <3>5
      <4>2. Names(t, t.prev)
        BY <3>2 DEF Names
      <4>3. t1.prefix[c] # Empty
        BY <1>5
      <4> HIDE DEF t1
      <4>4. V1Counts(t1)
        BY <1>1, <3>5, <4>1, <4>2, CountsEnter
      <4> QED
        BY <1>2, <4>3, <4>4 DEF V1Counts, Held
    <3>9. string \in Seq(Int) /\ string[1] \in Int
      <4> HIDE DEF t1
      <4> QED
        BY <1>2, <3>5, StringTyped
    <3> HIDE DEF t1, t2, string
    <3> QED
      BY <2>1, <3>5, <3>6, <3>7, <3>8, <3>9
  <2>6. CASE ~early
    <3>1. t1 = t
      BY <2>6
    <3>2. c \in Held(t)
      BY <1>1, <1>2, <2>6 DEF V1Counts, Held
    <3>3. PICK s \in Seq(Int), f \in Int : s = string /\ f = string[1]
      <4> HIDE DEF t1
      <4> QED
        BY <1>1, <1>2, <3>1, StringTyped
    <3>4. CASE t.prev = 0 \/ t.full
      <4>1. t2 = t
        BY <3>1, <3>4
      <4> HIDE DEF t1, t2, string
      <4> QED
        BY <1>1, <2>1, <3>2, <3>3, <4>1 DEF Moved
    <3>5. CASE ~(t.prev = 0 \/ t.full)
      <4>1. t.prev \in Held(t) /\ t.full = FALSE
        BY <2>4, <3>5 DEF Ready
      <4>2. PICK h \in V1Slots : h = PyHash(t.prev, f)
        BY <2>2, HashesAre, PrefixIsInt
      <4>3. t2 = V1Insert(t, h, t.prev, f)
        <5>1. hash2 = h
          BY <3>3, <4>2 DEF V1Hash
        <5> HIDE DEF hash2, string
        <5> QED
          BY <2>6, <3>1, <3>3, <3>5, <5>1
      <4> HIDE DEF t2, t1, string
      <4>4. t2 \in V1Tables /\ \E slot : EntersAt(t2, t, h, slot, t.prev, f)
        BY <1>1, <2>2, <2>3, <4>1, <4>3, InsertIs
      <4>5. PICK slot : EntersAt(t2, t, h, slot, t.prev, f)
        BY <4>4
      <4>6. Moved(t2, t)
        <5>1. slot \in V1Slots
          BY <4>5 DEF EntersAt
        <5>2. EntersAt(t2, t, PyHash(t.prev, f), slot, t.prev, f)
          BY <4>2, <4>5, Zenon
        <5> QED
          BY <3>3, <4>1, <4>4, <5>1, <5>2, Zenon DEF Moved
      <4>7. c \in Held(t2)
        <5>1. Names(t, t.prev)
          BY <4>1 DEF Names
        <5>2. Held(t2) = Held(t) \union {slot}
          BY <1>1, <4>4, <4>5, <5>1, CountsEnter
        <5> QED
          BY <3>2, <5>2
      <4> QED
        BY <2>1, <3>3, <4>4, <4>6, <4>7
    <3> QED
      BY <3>4, <3>5
  <2> QED
    BY <2>5, <2>6
<1> QED
  BY <1>4, <1>5

\* Both programs take a code the same way.
LEMMA CodesAlike ==
    ASSUME NEW t, Ready(t), NEW c \in V1Slots
    PROVE  V1Code("80un.com", t, c) = V1Code("80un", t, c)
<1>1. t \in V1Tables
  BY DEF Ready, V1Sound
<1>2. t.prev \in Int /\ t.first \in Int /\ t.prev \in V1Slots
  BY <1>1, PrefixIsInt DEF V1Tables
<1> DEFINE hash1(p) == V1Hash(p, t.prev, t.first)
           t1(p) == IF t.prefix[c] = Empty THEN V1Insert(t, hash1(p), t.prev, t.first) ELSE t
           string(p) == V1String(t1(p), c)
           hash2(p) == V1Hash(p, t.prev, string(p)[1])
           t2(p) == IF t.prefix[c] = Empty \/ t.prev = 0 \/ t1(p).full THEN t1(p)
                    ELSE V1Insert(t1(p), hash2(p), t.prev, string(p)[1])
<1>3. \A p : V1Code(p, t, c) =
        IF (t.prefix[c] = Empty /\ (t.prev = 0 \/ t.full)) \/ t1(p).prefix[c] = Empty THEN V1Refuses(t)
        ELSE [t2(p) EXCEPT !.prev = c, !.first = string(p)[1], !.out = string(p)]
  BY DEF V1Code
<1>4. hash1("80un.com") = hash1("80un") /\ hash1("80un") \in V1Slots
  BY <1>2, HashesAre DEF V1Hash
<1> HIDE DEF hash1
<1>5. t1("80un.com") = t1("80un") /\ t1("80un") \in V1Tables
  <2>1. t1("80un.com") = t1("80un")
    BY <1>4
  <2>2. V1Insert(t, hash1("80un"), t.prev, t.first) \in V1Tables
    BY <1>1, <1>2, <1>4, InsertIs
  <2> QED
    BY <1>1, <2>1, <2>2
<1> HIDE DEF t1
<1>6. string("80un.com") = string("80un") /\ string("80un")[1] \in Int
  BY <1>5, StringTyped
<1> HIDE DEF string
<1>7. hash2("80un.com") = hash2("80un")
  <2>1. PlmHash(t.prev, string("80un")[1]) = PyHash(t.prev, string("80un")[1])
    BY <1>2, <1>6, HashesAre
  <2> QED
    BY <1>6, <2>1 DEF V1Hash
<1> HIDE DEF hash2
<1>8. t2("80un.com") = t2("80un")
  BY <1>5, <1>6, <1>7
<1> HIDE DEF t2
<1> QED
  BY <1>3, <1>5, <1>6, <1>8, Zenon

\* What does not touch the slots leaves the table sound.
SameSlots(u, t) == /\ u \in V1Tables /\ u.prefix = t.prefix /\ u.suffix = t.suffix
                   /\ u.link = t.link /\ u.left = t.left /\ u.full = t.full

LEMMA SoundStays ==
    ASSUME NEW t, V1Sound(t), NEW u, SameSlots(u, t)
    PROVE  V1Sound(u) /\ Held(u) = Held(t) /\ \A text : Spells(t, text) => Spells(u, text)
<1>1. /\ u \in V1Tables /\ u.prefix = t.prefix /\ u.suffix = t.suffix
      /\ u.link = t.link /\ u.left = t.left /\ u.full = t.full
  BY DEF SameSlots
<1>2. t \in V1Tables /\ V1Counts(t) /\ V1Linked(t) /\ Placed(t)
  BY DEF V1Sound
<1>3. Held(u) = Held(t) /\ Vacant(u) = Vacant(t)
  BY <1>1 DEF Held, Vacant
<1>4. V1Counts(u)
  BY <1>1, <1>2, <1>3 DEF V1Counts
<1>5. V1Linked(u)
  <2>1. PICK turn \in [V1Slots -> Nat] : Turned(t, turn)
    BY <1>2 DEF V1Linked
  <2>2. Turned(u, turn)
    BY <1>1, <2>1, Zenon DEF Turned
  <2> QED
    BY <2>2 DEF V1Linked
<1>6. Placed(u)
  <2> SUFFICES ASSUME NEW s \in Held(t) PROVE OnChain(u, PyHash(t.prefix[s], t.suffix[s]), s)
    BY <1>1, <1>3 DEF Placed
  <2>1. t.prefix[s] \in V1Slots \union V1Marks /\ t.suffix[s] \in Int
    BY <1>2 DEF V1Tables, Held
  <2>2. PICK h \in V1Slots : h = PyHash(t.prefix[s], t.suffix[s])
    BY <2>1, HashesAre, PrefixIsInt
  <2>3. OnChain(t, h, s)
    BY <1>2, <2>2 DEF Placed
  <2>4. PICK k \in V1Slots : Leads(t, h, k) /\ ChainFrom(t, h)[k] = s
    BY <1>2, <2>3, ShortestWay
  <2>5. \A r \in V1Slots : t.link[r] # 0 => u.link[r] = t.link[r]
    BY <1>1
  <2>6. ChainFrom(u, h)[k] = s
    BY <1>1, <1>2, <2>4, <2>5, LeadsStill
  <2> QED
    BY <2>2, <2>6 DEF OnChain
<1>7. ASSUME NEW text, Spells(t, text) PROVE Spells(u, text)
  BY <1>1, <1>3, <1>7, Zenon DEF Spells
<1> QED
  BY <1>1, <1>3, <1>4, <1>5, <1>6, <1>7 DEF V1Sound

LEMMA MovedSound ==
    ASSUME NEW t, V1Sound(t), NEW t2, Moved(t2, t)
    PROVE  V1Sound(t2)
<1>1. CASE t2 = t
  BY <1>1
<1>2. CASE t2 # t
  <2>1. PICK slot \in V1Slots, suffix \in Int :
           /\ t.prev \in Held(t) /\ t2 \in V1Tables
           /\ EntersAt(t2, t, PyHash(t.prev, suffix), slot, t.prev, suffix)
    BY <1>2 DEF Moved
  <2>2. Names(t, t.prev) /\ t.prev \in V1Slots \union V1Marks
    BY <2>1 DEF Names, Held
  <2> QED
    BY <2>1, <2>2, SoundEnter
<1> QED
  BY <1>1, <1>2

\* What every slot's string is, once u has come of t
Grown(text2, text, u, t) ==
    \A s \in V1Slots : text2[s] = IF t.prefix[s] = Empty /\ u.prefix[s] # Empty
                                  THEN V1String(t, u.prefix[s]) \o <<u.suffix[s]>> ELSE text[s]

LEMMA GrownSpells ==
    ASSUME NEW t, V1Sound(t), NEW t2, Moved(t2, t), NEW text \in [V1Slots -> Seq(Int)],
           Spells(t, text), NEW text2, Grown(text2, text, t2, t)
    PROVE  Spells(t2, text2) /\ \A s \in V1Slots : text2[s] \in Seq(Int)
<1>1. t \in V1Tables /\ V1Counts(t)
  BY DEF V1Sound
<1>2. \A s \in V1Slots : t.prefix[s] # Empty => text2[s] = text[s]
  BY DEF Grown
<1>3. CASE t2 = t
  <2>1. \A s \in V1Slots : text2[s] = text[s]
    BY <1>3, Zenon DEF Grown
  <2> SUFFICES ASSUME TRUE PROVE Spells(t, text2)
    BY <1>3, <2>1
  <2> SUFFICES ASSUME NEW s \in Held(t)
               PROVE  /\ text2[s] \in Seq(Int) /\ Len(text2[s]) \in 1 .. 2 ^ V1Bits - t.left
                      /\ IF t.prefix[s] = V1Root THEN text2[s] = <<t.suffix[s]>>
                         ELSE /\ t.prefix[s] \in Held(t)
                              /\ text2[s] = Append(text2[t.prefix[s]], t.suffix[s])
    BY Zenon DEF Spells
  <2>2. /\ text[s] \in Seq(Int) /\ Len(text[s]) \in 1 .. 2 ^ V1Bits - t.left
        /\ IF t.prefix[s] = V1Root THEN text[s] = <<t.suffix[s]>>
           ELSE t.prefix[s] \in Held(t) /\ text[s] = Append(text[t.prefix[s]], t.suffix[s])
    BY Zenon DEF Spells
  <2>3. \A r \in Held(t) : text2[r] = text[r]
    BY <2>1 DEF Held
  <2> QED
    BY <2>2, <2>3, Zenon
<1>4. CASE t2 # t
  <2>1. PICK slot \in V1Slots, suffix \in Int :
           /\ t.prev \in Held(t) /\ t2 \in V1Tables
           /\ EntersAt(t2, t, PyHash(t.prev, suffix), slot, t.prev, suffix)
    BY <1>4 DEF Moved
  <2>2. PICK q \in V1Slots : q = t.prev /\ q \in Held(t)
    BY <2>1 DEF Held
  <2>3. Names(t, q) /\ q # Empty /\ q # V1Root
    <3>1. q # V1Root
      BY MarksApart
    <3>2. q # Empty
      BY V1Numbers DEF Empty, V1Slots
    <3> QED
      BY <2>2, <3>1, <3>2 DEF Names
  <2>4. PICK h \in V1Slots : h = PyHash(q, suffix)
    BY HashesAre, PrefixIsInt
  <2>5. EntersAt(t2, t, h, slot, q, suffix)
    BY <2>1, <2>2, <2>4, Zenon
  <2>6. /\ t.prefix[slot] = Empty /\ t2.prefix = [t.prefix EXCEPT ![slot] = q]
        /\ t2.suffix = [t.suffix EXCEPT ![slot] = suffix]
    BY <2>5 DEF EntersAt
  <2>7. t2.prefix[slot] = q /\ t2.suffix[slot] = suffix
    BY <1>1, <2>6 DEF V1Tables
  <2>8. text2[slot] = V1String(t, q) \o <<suffix>>
    BY <2>3, <2>6, <2>7 DEF Grown
  <2>9. V1String(t, q) = text[q]
    BY <1>1, <2>2, StringIsText
  <2>10. text2[slot] = Append(text[q], suffix) /\ text2[slot] \in Seq(Int)
    BY <2>8, <2>9
  <2>11. ASSUME NEW s \in V1Slots, s # slot PROVE text2[s] = text[s]
    <3>1. t2.prefix[s] = t.prefix[s]
      BY <1>1, <2>6, <2>11 DEF V1Tables
    <3> QED
      BY <3>1 DEF Grown
  <2>12. Enlarged(text2, text, t, slot, q, suffix)
    BY <1>2, <2>3, <2>10 DEF Enlarged, Held
  <2>13. Spells(t2, text2)
    BY <1>1, <2>1, <2>3, <2>5, <2>12, SpellsEnter
  <2>14. \A s \in V1Slots : text2[s] \in Seq(Int)
    BY <2>10, <2>11
  <2> QED
    BY <2>13, <2>14
<1> QED
  BY <1>3, <1>4

V1Ins == [text : [V1Slots -> Seq(Int)]]
V1Inv == /\ in \in V1Ins /\ plm = py /\ Ready(py) /\ Spells(py, in.text)
         /\ py.failed => py.done

LEMMA V1Init == ASSUME V1Start PROVE V1Inv
<1>1. py = V1Table("80un") /\ plm = V1Table("80un.com")
      /\ in = [text |-> [s \in V1Slots |-> V1String(py, s)]]
  BY DEF V1Start
<1> DEFINE home(p) == [byte \in 0 .. V1Bytes - 1 |-> V1Hash(p, V1Root, byte)]
           pyhome == [byte \in 0 .. V1Bytes - 1 |-> PyHash(V1Root, byte)]
<1>2. ASSUME NEW byte \in 0 .. V1Bytes - 1 PROVE PlmHash(V1Root, byte) = PyHash(V1Root, byte)
  BY V1Numbers, HashesAre
<1>3. home("80un") = pyhome /\ home("80un.com") = pyhome
  BY <1>2 DEF V1Hash
<1>4. py = V1Filled(home("80un")) /\ plm = V1Filled(home("80un.com"))
  BY <1>1, Zenon DEF V1Table
<1> HIDE DEF home
<1>5. py = V1Filled(pyhome) /\ plm = py
  BY <1>3, <1>4, Zenon
<1>6. V1Sound(py) /\ Fresh(py) /\ \E text : Spells(py, text)
  BY <1>5, FilledSound, Zenon
<1>7. PICK text : Spells(py, text)
  BY <1>6
<1>8. py \in V1Tables /\ V1Counts(py)
  BY <1>6 DEF V1Sound
<1>9. \A s \in V1Slots : in.text[s] = V1String(py, s) /\ V1String(py, s) \in Seq(Int)
  BY <1>1, <1>8, StringTyped
<1>10. in \in V1Ins
  BY <1>1, <1>9 DEF V1Ins
<1>11. ASSUME NEW s \in Held(py) PROVE in.text[s] = text[s]
  BY <1>7, <1>8, <1>9, StringIsText DEF Held
<1>12. Spells(py, in.text)
  <2> SUFFICES ASSUME NEW s \in Held(py)
               PROVE  /\ in.text[s] \in Seq(Int) /\ Len(in.text[s]) \in 1 .. 2 ^ V1Bits - py.left
                      /\ IF py.prefix[s] = V1Root THEN in.text[s] = <<py.suffix[s]>>
                         ELSE /\ py.prefix[s] \in Held(py)
                              /\ in.text[s] = Append(in.text[py.prefix[s]], py.suffix[s])
    BY Zenon DEF Spells
  <2>1. /\ text[s] \in Seq(Int) /\ Len(text[s]) \in 1 .. 2 ^ V1Bits - py.left
        /\ IF py.prefix[s] = V1Root THEN text[s] = <<py.suffix[s]>>
           ELSE py.prefix[s] \in Held(py) /\ text[s] = Append(text[py.prefix[s]], py.suffix[s])
    BY <1>7, Zenon DEF Spells
  <2> QED
    BY <1>11, <2>1, Zenon
<1> QED
  BY <1>5, <1>6, <1>10, <1>12 DEF V1Inv, Ready, Fresh

LEMMA CodeKept ==
    ASSUME NEW t, Ready(t), t.failed => t.done, ~t.done, NEW c \in V1Slots \ {0},
           NEW u, u = V1Code("80un", t, c), NEW text \in [V1Slots -> Seq(Int)], Spells(t, text),
           NEW text2, Grown(text2, text, u, t)
    PROVE  /\ Ready(u) /\ (u.failed => u.done) /\ Spells(u, text2)
           /\ \A s \in V1Slots : text2[s] \in Seq(Int)
<1>1. t \in V1Tables /\ V1Sound(t) /\ (t.prev = 0 \/ t.prev \in Held(t))
  BY DEF Ready, V1Sound
<1>2. CASE u = V1Refuses(t)
  <2>1. /\ u \in V1Tables /\ u.prefix = t.prefix /\ u.suffix = t.suffix /\ u.link = t.link
        /\ u.left = t.left /\ u.full = t.full /\ u.prev = t.prev /\ u.done = TRUE
    <3>1. PICK none \in Seq(Int) : none = <<>>
      <4>1. <<>> \in Seq(Int)
        OBVIOUS
      <4> QED
        BY <4>1, Zenon
    <3>2. u = [t EXCEPT !.done = TRUE, !.failed = TRUE, !.out = none]
      BY <1>2, <3>1 DEF V1Refuses
    <3> QED
      BY <1>1, <3>2 DEF V1Tables
  <2>2. SameSlots(u, t) /\ Moved(t, t)
    BY <2>1 DEF SameSlots, Moved
  <2>3. Grown(text2, text, t, t)
    BY <2>1, Zenon DEF Grown
  <2>4. Spells(t, text2) /\ \A s \in V1Slots : text2[s] \in Seq(Int)
    BY <1>1, <2>2, <2>3, GrownSpells
  <2>5. V1Sound(u) /\ Held(u) = Held(t) /\ Spells(u, text2)
    BY <1>1, <2>2, <2>4, SoundStays
  <2> QED
    BY <1>1, <2>1, <2>4, <2>5 DEF Ready
<1>3. CASE u # V1Refuses(t)
  <2>1. PICK t2 \in V1Tables, first \in Int, out \in Seq(Int) :
          /\ u = [t2 EXCEPT !.prev = c, !.first = first, !.out = out]
          /\ Moved(t2, t) /\ c \in Held(t2)
    BY <1>3, CodeIs
  <2>2. /\ u \in V1Tables /\ u.prefix = t2.prefix /\ u.suffix = t2.suffix /\ u.link = t2.link
        /\ u.left = t2.left /\ u.full = t2.full /\ u.prev = c /\ u.failed = t2.failed
    BY <2>1 DEF V1Tables
  <2>3. SameSlots(u, t2) /\ V1Sound(t2)
    BY <1>1, <2>1, <2>2, MovedSound DEF SameSlots
  <2>4. t2.failed = t.failed
    BY <2>1 DEF Moved, EntersAt
  <2>5. Grown(text2, text, t2, t)
    BY <2>2, Zenon DEF Grown
  <2>6. Spells(t2, text2) /\ \A s \in V1Slots : text2[s] \in Seq(Int)
    BY <1>1, <2>1, <2>5, GrownSpells
  <2>7. V1Sound(u) /\ Held(u) = Held(t2) /\ Spells(u, text2)
    BY <2>3, <2>6, SoundStays
  <2> QED
    BY <2>1, <2>2, <2>4, <2>6, <2>7 DEF Ready
<1> QED
  BY <1>2, <1>3

LEMMA V1Step == ASSUME V1Inv, V1Next PROVE V1Inv'
<1>1. in \in V1Ins /\ plm = py /\ Ready(py) /\ Spells(py, in.text) /\ (py.failed => py.done)
  BY DEF V1Inv
<1>2. py \in V1Tables /\ V1Sound(py) /\ (py.prev = 0 \/ py.prev \in Held(py))
  BY <1>1 DEF Ready, V1Sound
<1>3. CASE V1Read
  <2>1. PICK c \in V1Slots \ {0} : /\ py' = V1Code("80un", py, c)
                                   /\ plm' = V1Code("80un.com", plm, c)
    BY <1>3 DEF V1Read
  <2>2. plm' = py'
    <3>1. c \in V1Slots
      OBVIOUS
    <3> QED
      BY <1>1, <2>1, <3>1, CodesAlike, Zenon
  <2>3. /\ in' = [text |-> in'.text] /\ DOMAIN in'.text = V1Slots
        /\ in'.text = [s \in V1Slots |-> IF py.prefix[s] = Empty /\ py'.prefix[s] # Empty
                                         THEN V1String(py, py'.prefix[s]) \o <<py'.suffix[s]>>
                                         ELSE in.text[s]]
    <3>1. in' = Entered
      BY <1>3 DEF V1Read
    <3>2. in \in [text : [V1Slots -> Seq(Int)]]
      BY <1>1 DEF V1Ins
    <3> QED
      BY <3>1, <3>2 DEF Entered
  <2>4. Grown(in'.text, in.text, py', py)
    BY <2>3, Zenon DEF Grown
  <2>5. in.text \in [V1Slots -> Seq(Int)]
    BY <1>1 DEF V1Ins
  <2>6. ~py.done
    BY <1>3 DEF V1Read
  <2>7. /\ Ready(py') /\ (py'.failed => py'.done) /\ Spells(py', in'.text)
        /\ \A s \in V1Slots : in'.text[s] \in Seq(Int)
    BY <1>1, <2>1, <2>4, <2>5, <2>6, CodeKept
  <2>8. in' \in V1Ins
    <3>1. in'.text \in [V1Slots -> Seq(Int)]
      BY <2>3, <2>7
    <3> QED
      BY <2>3, <3>1, Zenon DEF V1Ins
  <2> QED
    BY <2>2, <2>7, <2>8 DEF V1Inv
<1>4. CASE V1End
  <2>1. PICK cut \in BOOLEAN :
          /\ py' = [py EXCEPT !.done = TRUE, !.failed = cut, !.out = <<>>]
          /\ plm' = [plm EXCEPT !.done = TRUE, !.failed = cut, !.out = <<>>]
    BY <1>4 DEF V1End
  <2>2. plm' = py' /\ in' = in
    BY <1>1, <1>4, <2>1 DEF V1End
  <2>3. /\ py' \in V1Tables /\ py'.prefix = py.prefix /\ py'.suffix = py.suffix
        /\ py'.link = py.link /\ py'.left = py.left /\ py'.full = py.full
        /\ py'.prev = py.prev /\ py'.done = TRUE
    <3>1. PICK none \in Seq(Int) : none = <<>>
      <4>1. <<>> \in Seq(Int)
        OBVIOUS
      <4> QED
        BY <4>1, Zenon
    <3>2. py' = [py EXCEPT !.done = TRUE, !.failed = cut, !.out = none]
      BY <2>1, <3>1
    <3> QED
      BY <1>2, <3>2 DEF V1Tables
  <2>4. SameSlots(py', py)
    BY <2>3 DEF SameSlots
  <2>5. V1Sound(py') /\ Held(py') = Held(py) /\ Spells(py', in.text)
    BY <1>1, <1>2, <2>4, SoundStays
  <2>6. Ready(py')
    BY <1>2, <2>3, <2>5 DEF Ready
  <2> QED
    BY <1>1, <2>2, <2>3, <2>5, <2>6 DEF V1Inv
<1> QED
  BY <1>3, <1>4 DEF V1Next

LEMMA V1StringsHold == ASSUME V1Inv PROVE V1Strings
<1>1. /\ py \in V1Tables /\ V1Counts(py) /\ V1Linked(py) /\ Placed(py)
      /\ Spells(py, in.text) /\ (py.failed => py.done)
  BY DEF V1Inv, Ready, V1Sound
<1>2. /\ py.left = Cardinality({s \in V1Slots : py.prefix[s] = Empty})
      /\ py.full = (py.left = 0)
  BY <1>1 DEF V1Counts, Vacant
<1>3. ASSUME NEW s \in V1Slots, py.prefix[s] \notin {Empty, TakenSlot}
      PROVE  /\ V1String(py, s) = in.text[s]
             /\ OnChain(py, PyHash(py.prefix[s], py.suffix[s]), s)
             /\ py.link[ChainEnd(py, s)] = 0
  <2>1. s \in Held(py)
    BY <1>3 DEF Held
  <2>2. V1String(py, s) = in.text[s]
    BY <1>1, <2>1, StringIsText
  <2>3. OnChain(py, PyHash(py.prefix[s], py.suffix[s]), s)
    BY <1>1, <2>1 DEF Placed
  <2>4. py.link[ChainEnd(py, s)] = 0
    <3>1. PICK turn \in [V1Slots -> Nat] : Turned(py, turn)
      BY <1>1 DEF V1Linked
    <3>2. py.left \in Nat
      BY <1>1, RoomIs
    <3> QED
      BY <1>1, <1>3, <3>1, <3>2, EndIs
  <2> QED
    BY <2>2, <2>3, <2>4
<1> QED
  BY <1>1, <1>2, <1>3 DEF V1Strings

LEMMA V1Stays == ASSUME V1Inv, UNCHANGED lvars PROVE V1Inv'
BY DEF V1Inv, lvars, Ready, V1Sound, V1Counts, V1Linked, Turned, Placed, OnChain, Spells, Held, Vacant
-----------------------------------------------------------------------------
(* The job that was picked stays, and with it its invariant.               *)
JobsInv == /\ job \in {"lzw", "v1", "crlzh", "bas", "header"}
           /\ job = "crlzh" => LzhInv
           /\ job = "bas" => BasInv
           /\ job = "header" => HeadInv
           /\ job = "lzw" => LzwHolds
           /\ job = "v1" => V1Inv

LEMMA JobsKept == Spec => []JobsInv
<1>1. Init => JobsInv
  BY LzhInit, BasInit, HeadInit, LzwInit, V1Init DEF Init, JobsInv
<1>2. JobsInv /\ [Next]_lvars => JobsInv'
  <2> SUFFICES ASSUME JobsInv, [Next]_lvars PROVE JobsInv'
    OBVIOUS
  <2>1. CASE UNCHANGED lvars
    <3>1. job' = job
      BY <2>1 DEF lvars
    <3>5. LzhInv => LzhInv'
      BY <2>1 DEF lvars, LzhInv, LzhKind, LzhWindow, RingIsOutput, Ago, Coded, Low
    <3>2. BasInv => BasInv'
      <4> SUFFICES ASSUME BasInv PROVE BasInv'
        OBVIOUS
      <4>1. in' = in /\ plm' = plm /\ py' = py
        BY <2>1 DEF lvars
      <4>2. BasKind'
        BY <4>1 DEF BasInv, BasKind
      <4>3. Remembers' /\ PyRemembers' /\ Within' /\ Level'
        BY <4>1, Zenon DEF BasInv, Remembers, PyRemembers, Within, Level, PlmLeft, PlmKeeps, PyKeeps, Last
      <4>4. PlmApart(plm)' /\ PyApart(py)'
        BY <4>1, Zenon DEF BasInv, PlmApart, PyApart, Follows
      <4> QED
        BY <4>2, <4>3, <4>4 DEF BasInv
    <3>3. HeadInv => HeadInv'
      BY <2>1 DEF lvars, HeadInv, HeadSame
    <3>4. LzwHolds => LzwHolds'
      BY <2>1, LzwStays
    <3>6. V1Inv => V1Inv'
      BY <2>1, V1Stays
    <3> QED
      BY <3>1, <3>2, <3>3, <3>4, <3>5, <3>6 DEF JobsInv
  <2>2. CASE Next
    <3>1. job' = job
      BY <2>2 DEF Next
    <3>2. CASE job = "crlzh"
      <4>1. LzhNext /\ LzhInv
        BY <2>2, <3>2 DEF Next, JobsInv
      <4> QED
        BY <3>1, <3>2, <4>1, LzhStep DEF JobsInv
    <3>3. CASE job = "bas"
      <4>1. BasNext /\ BasInv
        BY <2>2, <3>3 DEF Next, JobsInv
      <4> QED
        BY <3>1, <3>3, <4>1, BasStep DEF JobsInv
    <3>4. CASE job = "header"
      <4>1. HeadNext /\ HeadInv
        BY <2>2, <3>4 DEF Next, JobsInv
      <4> QED
        BY <3>1, <3>4, <4>1, HeadStep DEF JobsInv
    <3>5. CASE job = "lzw"
      <4>1. LzwNext /\ LzwHolds
        BY <2>2, <3>5 DEF Next, JobsInv
      <4> QED
        BY <3>1, <3>5, <4>1, LzwStep DEF JobsInv
    <3>6. CASE job = "v1"
      <4>1. V1Next /\ V1Inv
        BY <2>2, <3>6 DEF Next, JobsInv
      <4> QED
        BY <3>1, <3>6, <4>1, V1Step DEF JobsInv
    <3> QED
      BY <3>2, <3>3, <3>4, <3>5, <3>6 DEF JobsInv
  <2> QED
    BY <2>1, <2>2
<1> QED
  BY <1>1, <1>2, PTL DEF Spec

(* Crunched by methods 7 and 8 or squashed, a member has its codes widen   *)
(* where a block of the narrower ones is full: the codes read at one width *)
(* and those either program has counted since the table was cleared differ *)
(* by whole blocks, so that skip_rest_of_block finds the padding of a      *)
(* clear code, however long the member is and whatever the widths.         *)
THEOREM LzwSkips == Spec => []LzwBlocksSkipped
<1>1. JobsInv => LzwBlocksSkipped
  BY BlocksSkipped DEF JobsInv, LzwBlocksSkipped
<1> QED
  BY <1>1, JobsKept, PTL

(* A match of CrLZH is of the output, as far back as its bits say, for any *)
(* size of the ring, any table of codes and either version.                *)
THEOREM LzhMatches == Spec => []LzhWindowKept
<1>1. JobsInv => LzhWindowKept
  BY DEF JobsInv, LzhWindowKept, LzhInv
<1> QED
  BY <1>1, JobsKept, PTL

(* Whatever the bytes of an MBASIC program, where it is cut and what the   *)
(* buffer holds: in 80UNBAS no word touches a letter, a digit or a word    *)
(* before it and no two spaces are side by side (need$space$before$kw,     *)
(* prev$tok); in Python a word touches one before it only in the cases     *)
(* BasWords names, a word that takes a space is not run into by another    *)
(* but AND, and no space is put right after one but a tab's.               *)
THEOREM BasApart == Spec => []BasWordsApart
<1>1. JobsInv => BasWordsApart
  BY ApartWords DEF JobsInv, BasWordsApart, BasInv
<1> QED
  BY <1>1, JobsKept, PTL

(* Crunch V1: every string stays where it was put, on a chain that comes   *)
(* to an end, and the count and the flag that stop the inserts are those   *)
(* of the table, so that no insert lacks a slot, no string loops and none  *)
(* names a slot without an entry, whatever codes a file holds.             *)
THEOREM V1TableKept == Spec => []V1StringsKept
<1>1. JobsInv => V1StringsKept
  BY V1StringsHold DEF JobsInv, V1StringsKept
<1> QED
  BY <1>1, JobsKept, PTL

(* Both programs decode the same data to the same.  ARC's LZW: the CP/M    *)
(* program's prefixes and suffixes spell the strings of the Python tool,   *)
(* and both refuse the same members.  Crunch V1: both hashes fill the same *)
(* slots.  MBASIC: as long as a program fits 80UNBAS's buffer, both come   *)
(* to the same place and write the same lines.  Headers: the codes are     *)
(* found at the same byte, or the file is one of those known to part the   *)
(* two.  Of the old ARC methods this is so when what the members before    *)
(* left in lzw$max$bits is enough.                                         *)
THEOREM DecodersAgree == Spec => []((job = "lzw" /\ Old => LeftEnough) => SameOutput)
<1>1. JobsInv => ((job = "lzw" /\ Old => LeftEnough) => SameOutput)
  <2> SUFFICES ASSUME JobsInv, job = "lzw" /\ Old => LeftEnough PROVE SameOutput
    OBVIOUS
  <2>1. job = "lzw" => LzwSame
    BY SameStrings DEF JobsInv
  <2>2. job = "v1" => V1Same
    BY DEF JobsInv, V1Inv, V1Same
  <2>3. job = "bas" => BasLines
    BY LevelLines DEF JobsInv, BasInv
  <2>4. job = "header" => HeadSame
    BY DEF JobsInv, HeadInv
  <2>5. job \in {"lzw", "v1", "crlzh", "bas", "header"}
    BY DEF JobsInv
  <2> QED
    BY <2>1, <2>2, <2>3, <2>4, <2>5 DEF SameOutput
<1> QED
  BY <1>1, JobsKept, PTL
=============================================================================
