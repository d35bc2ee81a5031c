------------------------------ MODULE CrunchV1 ------------------------------
(***************************************************************************)
(* The Crunch V1 decoders: _V1Table and uncrunch_v1 (src/un80/crunch.py),  *)
(* and v1$insert, init$v1 and uncrunch$v1 (src/plm/crunch.plm), which do   *)
(* the same and differ in how they work out a hash.  A code is the slot of *)
(* a hash table its string was put into: the decoder has to put every      *)
(* string where the compressor did.                                        *)
(***************************************************************************)
EXTENDS Lockstep

CONSTANTS V1Bits,       \* 12: bits of a code, and of a slot's number
          V1Shift,      \* 4
          V1Bytes,      \* 256
          V1Probe       \* 101

V1Slots == 0 .. 2 ^ V1Bits - 1
V1Word == 2 ^ (V1Bits + V1Shift)        \* 65536
V1High == 2 ^ (V1Bits - 1)              \* 0800H

ASSUME V1Assumption == /\ {V1Bits, V1Shift, V1Bytes} \subseteq Nat \ {0} /\ V1Probe \in Nat
                       /\ V1Bytes < 2 ^ V1Bits /\ Powers(V1Bits + V1Shift)

Empty == -1
TakenSlot == -2             \* slot 0, which no string is put into
V1Root == V1Word - 1        \* 0FFFFH: the prefix of a single byte
-----------------------------------------------------------------------------
V1Mixed(prefix, suffix) ==
    LET v == (prefix + suffix) % V1Word
    IN  IF (v \div V1High) % 2 = 1 THEN v ELSE v + V1High

\* The middle of the square
PyHash(prefix, suffix) == LET v == V1Mixed(prefix, suffix)
                          IN  ((v * v) \div 2 ^ (V1Shift + 2)) % 2 ^ V1Bits

\* The product of its halves, in sixteen bits
PlmHash(prefix, suffix) ==
    LET v == V1Mixed(prefix, suffix)
    IN  ((((v \div 2) * ((v \div 2) + (v % 2))) % V1Word) \div 2 ^ V1Shift) % 2 ^ V1Bits

V1Hash(program, prefix, suffix) == IF program = "80un" THEN PyHash(prefix, suffix)
                                   ELSE PlmHash(prefix, suffix)
-----------------------------------------------------------------------------
\* The slot that n links from this one lead to, or the last one
ChainFrom(t, slot) ==
    LET path[n \in V1Slots] ==
          IF n = 0 THEN slot
          ELSE LET s == path[n - 1] IN IF t.link[s] = 0 THEN s ELSE t.link[s]
    IN  path
ChainEnd(t, slot) == ChainFrom(t, slot)[2 ^ V1Bits - 1]

\* The first empty slot from V1Probe past the end of a chain, wrapping round;
\* none if no slot is empty.
FreeFrom(t, end) ==
    LET at(n) == (end + V1Probe + n) % 2 ^ V1Bits
        hits == {n \in V1Slots : t.prefix[at(n)] = Empty}
    IN  {at(n) : n \in {m \in hits : \A k \in hits : m <= k}}

\* Mutant of V1Insert: a new string is not linked to the chain before it.
V1InsertLoose(t, home, prefix, suffix) ==
    LET end == ChainEnd(t, home)
        free == IF t.prefix[home] = Empty THEN {home} ELSE FreeFrom(t, end)
        slot == CHOOSE s \in free : TRUE
    IN  IF free = {} THEN [t EXCEPT !.failed = TRUE]
        ELSE [t EXCEPT !.prefix[slot] = prefix, !.suffix[slot] = suffix,
                       !.left = @ - 1, !.full = @ \/ t.left = 1]

(* insert: the hashed slot, or a free one that is put on the end of the    *)
(* chain that starts there.                                                *)
V1Insert(t, home, prefix, suffix) ==
    LET end == ChainEnd(t, home)
        free == IF t.prefix[home] = Empty THEN {home} ELSE FreeFrom(t, end)
        slot == CHOOSE s \in free : TRUE
    IN  IF free = {} THEN [t EXCEPT !.failed = TRUE]
        ELSE [t EXCEPT !.link = IF slot = home THEN @ ELSE [@ EXCEPT ![end] = slot],
                       !.prefix[slot] = prefix, !.suffix[slot] = suffix,
                       !.left = @ - 1, !.full = @ \/ t.left = 1]

V1Filled(home) ==
    LET empty == [prefix |-> [s \in V1Slots |-> IF s = 0 THEN TakenSlot ELSE Empty],
                  suffix |-> [s \in V1Slots |-> 0], link |-> [s \in V1Slots |-> 0],
                  left |-> 2 ^ V1Bits - 1, full |-> FALSE, failed |-> FALSE,
                  prev |-> 0, first |-> 0, done |-> FALSE, out |-> <<>>]
        table[n \in 0 .. V1Bytes] ==
          IF n = 0 THEN empty
          ELSE V1Insert(table[n - 1], home[n - 1], V1Root, n - 1)
    IN  table[V1Bytes]

\* The single bytes are entered first.
V1Table(program) == V1Filled([byte \in 0 .. V1Bytes - 1 |-> V1Hash(program, V1Root, byte)])

(* string and lzw$output: from the slot back to a single byte, or to a     *)
(* slot that holds none, or round and round.                               *)
V1String(t, code) ==
    LET walk[n \in 0 .. 2 ^ V1Bits] ==
          IF n = 0 THEN [at |-> code, text |-> <<>>]
          ELSE LET w == walk[n - 1]
               IN  IF w.at \notin V1Slots THEN w
                   ELSE [at |-> t.prefix[w.at], text |-> <<t.suffix[w.at]>> \o w.text]
        last == walk[2 ^ V1Bits]
    IN  IF last.at = V1Root THEN last.text ELSE <<Empty>>

V1Refuses(t) == [t EXCEPT !.done = TRUE, !.failed = TRUE, !.out = <<>>]

(* A pass of the loop for a code that is not the end's.  The compressor    *)
(* may use the string it is about to enter: it is entered first then, and  *)
(* has to come to the code's slot.                                         *)
V1Code(program, t, c) ==
    LET early == t.prefix[c] = Empty
        t1 == IF early THEN V1Insert(t, V1Hash(program, t.prev, t.first), t.prev, t.first) ELSE t
        string == V1String(t1, c)
        t2 == IF early \/ t.prev = 0 \/ t1.full THEN t1
              ELSE V1Insert(t1, V1Hash(program, t.prev, string[1]), t.prev, string[1])
    IN  IF (early /\ (t.prev = 0 \/ t.full)) \/ t1.prefix[c] = Empty THEN V1Refuses(t)
        ELSE [t2 EXCEPT !.prev = c, !.first = string[1], !.out = string]
-----------------------------------------------------------------------------
V1Start == /\ py = V1Table("80un") /\ plm = V1Table("80un.com")
           /\ in = [text |-> [s \in V1Slots |-> V1String(py, s)]]

\* History: what each slot's string was when it was entered.
Entered == [in EXCEPT !.text = [s \in V1Slots |-> IF py.prefix[s] = Empty /\ py'.prefix[s] # Empty
                                                  THEN V1String(py, py'.prefix[s]) \o <<py'.suffix[s]>>
                                                  ELSE @[s]]]

V1Read == /\ ~py.done /\ ~plm.done
          /\ \E c \in V1Slots \ {0} : /\ py' = V1Code("80un", py, c)
                                      /\ plm' = V1Code("80un.com", plm, c)
          /\ in' = Entered

\* Code 0, and the end of the data before one, which both refuse
V1End == /\ ~py.done /\ ~plm.done
         /\ \E cut \in BOOLEAN :
              /\ py' = [py EXCEPT !.done = TRUE, !.failed = cut, !.out = <<>>]
              /\ plm' = [plm EXCEPT !.done = TRUE, !.failed = cut, !.out = <<>>]
         /\ UNCHANGED in

V1Next == V1Read \/ V1End
-----------------------------------------------------------------------------
(* The two hashes fill the same slots, so a code is the same string to     *)
(* both (README.md: identical output), and a code that either refuses the  *)
(* other refuses.                                                          *)
V1Same == plm = py

\* Is slot s on the chain that starts at home?
OnChain(t, home, s) == \E n \in V1Slots : ChainFrom(t, home)[n] = s

(* A slot keeps the string that was entered for it, is on the chain its    *)
(* hash starts, and that chain comes to an end; while a code is still to   *)
(* come there is a slot for what it enters, the count and the flag that    *)
(* stop the inserts being those of the table.  So "no free slot", "string  *)
(* loops" and "names no entry" in string (src/un80/crunch.py) never        *)
(* happen, whatever codes a file holds.                                    *)
V1Strings ==
    /\ py.left = Cardinality({s \in V1Slots : py.prefix[s] = Empty})
    /\ py.full = (py.left = 0) /\ (py.failed => py.done)
    /\ \A s \in V1Slots : py.prefix[s] \notin {Empty, TakenSlot} =>
          /\ V1String(py, s) = in.text[s]
          /\ OnChain(py, PyHash(py.prefix[s], py.suffix[s]), s)
          /\ py.link[ChainEnd(py, s)] = 0
=============================================================================
