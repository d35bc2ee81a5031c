------------------------------- MODULE LzhTree ------------------------------
(***************************************************************************)
(* The adaptive Huffman tree of CrLZH: init$tree, decode$char, update$tree *)
(* and reconst of src/plm/lzh.plm, and HuffmanTree of src/un80/crlzh.py.   *)
(*                                                                         *)
(* A node is an index, ordered by frequency; the sons of an inner node are *)
(* two neighbours, of which `son' gives the first; a leaf's son is its     *)
(* code, plus T.  A step is one turn of a loop of the program.             *)
(***************************************************************************)
EXTENDS Integers, FiniteSets, FiniteSetsExt

CONSTANTS NChar,      \* n$char: codes; 315 in the program
          MaxFreq     \* max$freq: 8000H in the program

ASSUME CodesAssumption == NChar \in Nat /\ NChar >= 2
\* Halving has to bring the root's frequency down again.
ASSUME FreqAssumption == MaxFreq \in Nat /\ MaxFreq > NChar

T == 2 * NChar - 1    \* lzh$t
R == T - 1            \* lzh$r, the root
Nodes == 0 .. R
Links == 0 .. T + NChar - 1
Sentinel == 2 * MaxFreq - 1   \* 0FFFFH

VARIABLES freq, son, prnt,
          phase,      \* which loop runs
          c,          \* the c of decode$char and of update$tree
          j,          \* the j of reconst
          sym,        \* the code the call of decode$char returns, plus T
          spent       \* the file has no more bits

vars == <<freq, son, prnt, phase, c, j, sym, spent>>
tree == <<freq, son, prnt>>

IsLeaf(i) == son[i] >= T
Kids(i) == IF IsLeaf(i) THEN {son[i]} ELSE {son[i], son[i] + 1}

\* init$tree pairs the leaves, then the pairs: node NChar + n is over the
\* nodes 2n and 2n + 1.
StartFreq[i \in 0 .. T] ==
    IF i = T THEN Sentinel
    ELSE IF i < NChar THEN 1
    ELSE StartFreq[2 * (i - NChar)] + StartFreq[2 * (i - NChar) + 1]

Init == /\ freq = StartFreq
        /\ son = [i \in Nodes |-> IF i < NChar THEN i + T ELSE 2 * (i - NChar)]
        /\ prnt = [k \in Links |-> IF k >= T THEN k - T
                                   ELSE IF k = R THEN 0
                                   ELSE NChar + (k \div 2)]
        /\ phase = "idle" /\ c = 0 /\ j = 0 /\ sym = T /\ spent = FALSE

\* The root's frequency meets max$freq exactly and is never past it: the test
\* in update$tree is for equality, and a 16-bit sum must not wrap.
TypeOK == /\ freq \in [0 .. T -> 0 .. Sentinel]
          /\ son \in [Nodes -> Links]
          /\ prnt \in [Links -> Nodes]
          /\ phase \in {"idle", "descend", "connect", "climb"}
          /\ c \in Links /\ j \in 0 .. T /\ sym \in T .. T + NChar - 1
          /\ spent \in BOOLEAN
          /\ freq[R] <= MaxFreq /\ freq[T] = Sentinel
-----------------------------------------------------------------------------
\* decode$char: c = son(lzh$r)
Decode == /\ phase = "idle"
          /\ phase' = "descend" /\ c' = son[R]
          /\ UNCHANGED <<tree, j, sym, spent>>

\* get_bit of src/un80, for a code or for a position after one: past the end of
\* the file the bits are zeros.
InputEnds == /\ phase \in {"idle", "descend"} /\ c < T
             /\ ~spent /\ spent' = TRUE
             /\ UNCHANGED <<tree, phase, c, j, sym>>

\* c = c + lzh$get$bit; c = son(c)
Descend == /\ phase = "descend" /\ c < T
           /\ \E bit \in IF spent THEN {0} ELSE {0, 1} : c' = son[c + bit]
           /\ UNCHANGED <<tree, phase, j, sym, spent>>

\* Mutant of Update: the code is not offset by T.
UpdateCode == /\ phase = "descend" /\ c >= T
              /\ freq[R] # MaxFreq
              /\ sym' = c - T /\ c' = prnt[c] /\ phase' = "climb"
              /\ UNCHANGED <<tree, j, spent>>

\* update$tree, when reconst is not called
Update == /\ phase = "descend" /\ c >= T
          /\ freq[R] # MaxFreq
          /\ sym' = c /\ c' = prnt[c] /\ phase' = "climb"
          /\ UNCHANGED <<tree, j, spent>>

\* reconst, first loop: the leaves, in order, go to the front, halved.
Leaves == {i \in Nodes : IsLeaf(i)}
NthLeaf(n) == CHOOSE i \in Leaves : Cardinality({x \in Leaves : x < i}) = n

Gather == /\ phase = "descend" /\ c >= T
          /\ freq[R] = MaxFreq
          /\ LET found == Cardinality(Leaves)
             IN /\ freq' = [i \in 0 .. T |-> IF i < found
                                             THEN (freq[NthLeaf(i)] + 1) \div 2
                                             ELSE freq[i]]
                /\ son' = [i \in Nodes |-> IF i < found THEN son[NthLeaf(i)]
                                                        ELSE son[i]]
          /\ sym' = c /\ j' = NChar /\ phase' = "connect"
          /\ UNCHANGED <<prnt, c, spent>>

\* reconst, second loop: the node over the pair at 2 * (j - NChar) goes after
\* the last node that is no heavier, and the nodes behind it move up.
Pair == 2 * (j - NChar)
PairFreq == freq[Pair] + freq[Pair + 1]

\* The search goes down from j - 1; PL/M stops it at 0 at the latest, Python
\* nowhere, but a pair's second node is never heavier than the pair.
Place == 1 + Max({0} \union {k \in 0 .. j - 1 : freq[k] <= PairFreq})

Shifted(f, at, x) == [i \in DOMAIN f |-> IF i = at THEN x
                                         ELSE IF at < i /\ i <= j THEN f[i - 1]
                                         ELSE f[i]]

\* Mutant of Connect: the next pair is never gone on to.
ConnectStays == /\ phase = "connect" /\ j < T
                /\ freq' = Shifted(freq, Place, PairFreq)
                /\ son' = Shifted(son, Place, Pair)
                /\ UNCHANGED <<prnt, phase, c, j, sym, spent>>

Connect == /\ phase = "connect" /\ j < T
           /\ freq' = Shifted(freq, Place, PairFreq)
           /\ son' = Shifted(son, Place, Pair)
           /\ j' = j + 1
           /\ UNCHANGED <<prnt, phase, c, sym, spent>>

\* reconst, third loop, and the rest of update$tree up to its loop
Over(k) == {i \in Nodes : k \in Kids(i)}

Reconnect == /\ phase = "connect" /\ j = T
             /\ prnt' = [k \in Links |-> IF Over(k) = {} THEN prnt[k]
                                                         ELSE Max(Over(k))]
             /\ c' = prnt'[sym] /\ phase' = "climb"
             /\ UNCHANGED <<freq, son, j, sym, spent>>

\* Mutants of Swap: the second son keeps its father; only frequencies change
\* places.
SwapFirstSons(l) ==
    /\ freq' = [freq EXCEPT ![c] = freq[l], ![l] = freq[c] + 1]
    /\ son' = [son EXCEPT ![c] = son[l], ![l] = son[c]]
    /\ prnt' = [prnt EXCEPT ![son[c]] = l, ![son[l]] = c]
SwapFreqs(l) ==
    /\ freq' = [freq EXCEPT ![c] = freq[l], ![l] = freq[c] + 1]
    /\ UNCHANGED <<son, prnt>>

\* update$tree, a turn of its loop.  A node that became heavier than its right
\* neighbour changes places with the last of the nodes lighter than it.
Swap(l) ==
    LET mine == Kids(c)
        other == Kids(l)
    IN /\ freq' = [freq EXCEPT ![c] = freq[l], ![l] = freq[c] + 1]
       /\ son' = [son EXCEPT ![c] = son[l], ![l] = son[c]]
       /\ prnt' = [k \in Links |-> IF k \in other THEN c
                                   ELSE IF k \in mine THEN l
                                   ELSE prnt[k]]

\* Mutant of Climb: a node changes places with its neighbour only.
ClimbByNeighbour ==
    /\ phase = "climb"
    /\ LET l == IF freq[c] + 1 > freq[c + 1] THEN c + 1 ELSE c
       IN /\ IF l = c
             THEN freq' = [freq EXCEPT ![c] = freq[c] + 1] /\ UNCHANGED <<son, prnt>>
             ELSE Swap(l)
          /\ c' = prnt'[l]
    /\ phase' = IF c' = 0 THEN "idle" ELSE "climb"
    /\ UNCHANGED <<j, sym, spent>>
Climb == /\ phase = "climb"
         /\ LET k == freq[c] + 1
                l == IF k > freq[c + 1]
                     THEN Min({x \in c + 1 .. R : k <= freq[x + 1]})
                     ELSE c
            IN /\ IF l = c
                  THEN freq' = [freq EXCEPT ![c] = k] /\ UNCHANGED <<son, prnt>>
                  ELSE Swap(l)
               /\ c' = prnt'[l]
         /\ phase' = IF c' = 0 THEN "idle" ELSE "climb"
         /\ UNCHANGED <<j, sym, spent>>

Next == \/ Decode \/ Descend \/ Update
        \/ Gather \/ Connect \/ Reconnect
        \/ Climb \/ InputEnds

Spec == Init /\ [][Next]_vars

\* The loops run on by themselves.  A caller need not decode another code,
\* except that uncrlzh of src/un80 goes on, past the end of the file too, until
\* it decodes the stop code.
FairSpec == Spec /\ WF_vars(Descend \/ Update \/ Gather \/ Connect
                                    \/ Reconnect \/ Climb)
                 /\ WF_vars(spent /\ Decode)
-----------------------------------------------------------------------------
WholeTree == phase # "connect"

(* The order the algorithm lives by: a node is never lighter than the one  *)
(* before it, in the middle of an update too, and while reconst connects   *)
(* the nodes it has connected are in order.                                *)
Ordered == \A i \in 0 .. (IF WholeTree THEN T ELSE j) - 2 : freq[i] <= freq[i + 1]

(* `son' and `prnt' stay inverse to each other through every swap, and the *)
(* sons of a node lie below it: decode$char comes to a leaf, and climbing  *)
(* comes to the root.  Node 0 has to be a leaf always, since the climb     *)
(* takes a father of 0 to be the root's.  A node weighs what its sons      *)
(* weigh: an update has counted the code in on the whole way up, on        *)
(* whichever path the swaps left it.                                       *)
Weighed == \A i \in Nodes :
             ~IsLeaf(i) => freq[i] = freq[son[i]] + freq[son[i] + 1]
                                     - (IF phase = "climb" /\ i = c THEN 1 ELSE 0)

Linked == WholeTree =>
            /\ \A i \in Nodes : /\ \A k \in Kids(i) : prnt[k] = i
                                /\ IsLeaf(i) \/ son[i] + 1 < i
            /\ prnt[R] = 0 /\ IsLeaf(0)
            /\ Weighed

(* An update counts the code that was decoded, once, and no other: the     *)
(* swaps move leaves about but change no other code's frequency.           *)
LeafFreq(k) == freq[prnt[k]]
CountsOne == [][phase = "climb" =>
                  \A k \in T .. T + NChar - 1 :
                    LeafFreq(k)' = LeafFreq(k)
                                     + (IF k = sym /\ prnt[k] = c THEN 1 ELSE 0)]_vars

(* A call of decode$char returns; and a file cut short comes to its end    *)
(* all the same.  uncrlzh has no test for the end of the file: it decodes  *)
(* zeros until they spell the stop code, which is any of the codes here.   *)
(* Zeros take the lighter son, and the code that is counted gets heavier,  *)
(* so their turn comes for all of them, given room before the frequencies  *)
(* are halved: the limit is a hundred times the codes in the program, and  *)
(* two and a half times is enough here (at twice, two codes can take turns *)
(* for ever).                                                              *)
Returns == /\ phase # "idle" ~> phase = "idle"
           /\ \A k \in T .. T + NChar - 1 : spent ~> sym = k
=============================================================================
