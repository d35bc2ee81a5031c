----------------------------- MODULE CrunchHash -----------------------------
(***************************************************************************)
(* What the two Crunch V2 decoders share, that of the CP/M program         *)
(* (src/plm/crunch.plm) and that of the Python tool (src/un80/crunch.py):  *)
(* how the codes are numbered, and the open-addressed hash table from a    *)
(* (prefix, suffix) pair to the code of its entry.                         *)
(***************************************************************************)
EXTENDS Integers, Sequences

CONSTANTS NRoots,       \* single bytes: 256
          NControl,     \* control codes: 4
          TableSize,    \* entries: 4096
          HashSize,     \* slots of the hash table: 5003, a prime
          Home(_, _),   \* crunch$hash: the first slot tried for a pair, never 0
          InitBits,     \* width of the first codes: 9
          MaxBits,      \* and of the widest: 12
          HighUnit      \* 256: what high(..) divides by

Seeds == NRoots + NControl
ASSUME SizeAssumption == /\ NRoots \in Nat \ {0} /\ NControl \in Nat /\ NControl >= 2
                         /\ HashSize \in Nat \ {0}
                         /\ TableSize \in Nat /\ Seeds <= TableSize
                         /\ TableSize <= 2 ^ MaxBits /\ Seeds + 2 <= 2 ^ InitBits
ASSUME BitsAssumption == /\ InitBits \in Nat /\ MaxBits \in Nat /\ InitBits <= MaxBits
                         /\ HighUnit \in Nat \ {0}
                         /\ HighUnit * (2 ^ InitBits \div HighUnit) = 2 ^ InitBits
\* What the provers need to know of powers of two.
ASSUME PowerAssumption == \A b \in InitBits .. MaxBits :
                             2 ^ b \in Nat \ {0} /\ 2 ^ (b + 1) = 2 * 2 ^ b

EofCode == NRoots                       \* 256
ResetCode == NRoots + 1                 \* 257
Control == NRoots .. Seeds - 1
Fillers == Control \ {EofCode, ResetCode}    \* 258, 259

Codes == 0 .. TableSize - 1
Slots == 0 .. HashSize - 1
None == -1            \* 0FFFFH: the prefix of a single byte, and no code before
Reserved == -2        \* 7FFFH: the prefix of the control codes
Free == -1            \* 80H in the high byte of a hash slot: never written
Blocked == -2         \* slot 0, set to 7FH so that it never reads as free
-----------------------------------------------------------------------------
(* The hash table.  crunch$probe adds the first slot's own distance to the *)
(* address and wraps it at HashSize, so the slots tried are its multiples. *)
Probe(p, s, k) == ((k + 1) * Home(p, s)) % HashSize

\* The first slot of the chain that is one of want, as a set: none if the
\* chain has no such slot.
FirstSlot(p, s, want) ==
    LET hits == {k \in Slots : Probe(p, s, k) \in want}
    IN  {Probe(p, s, k) : k \in {j \in hits : \A i \in hits : j <= i}}

\* crunch$hash$insert
HashInsert(h, p, s, code) ==
    LET free == FirstSlot(p, s, {i \in Slots : h[i] = Free})
    IN  [i \in Slots |-> IF i \in free THEN code ELSE h[i]]

\* init$crunch$hash and the seeds of init$crunch$lzw, entered in order
SeedHash ==
    LET seeded[n \in 0 .. Seeds] ==
          IF n = 0 THEN [i \in Slots |-> IF i = 0 THEN Blocked ELSE Free]
          ELSE IF n <= NRoots THEN HashInsert(seeded[n - 1], None, n - 1, n - 1)
          ELSE HashInsert(seeded[n - 1], Reserved, 0, n - 1)
    IN  seeded[Seeds]
-----------------------------------------------------------------------------
(* The walk from a code to its first byte, by the prefixes and suffixes of *)
(* the entries (lzw$output; emit): the bytes of the code's string, last    *)
(* byte found first.  The CP/M program gives up after TableSize of them.   *)
Walked(pre, suf, c) ==
    LET str[n \in 0 .. TableSize - 1] ==
          [k \in Codes |-> IF pre[k] = None \/ n = 0 THEN <<suf[k]>>
                           ELSE Append(str[n - 1][pre[k]], suf[k])]
    IN  str[TableSize - 1][c]
=============================================================================
