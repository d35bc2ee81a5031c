----------------------------- MODULE PyCrunchV2 -----------------------------
(***************************************************************************)
(* The Crunch V2 decoder of the Python tool (src/un80/crunch.py,           *)
(* uncrunch_lzw and its _LzwTable), from one code to the next.  It marks   *)
(* a missing entry in the table itself, where the CP/M program compares    *)
(* codes with lzw$next$code, and makes the entry a code names before its   *)
(* time inside emit.                                                       *)
(***************************************************************************)
EXTENDS CrunchHash

VARIABLES tab,          \* the _LzwTable
          prev_code, first_byte, skip_insert, py_replacing,
          stopped,      \* the loop has broken off
          result        \* the bytes the last code appended

py_vars == <<tab, prev_code, first_byte, skip_insert, py_replacing, stopped, result>>

Missing == -3         \* flags = _EMPTY: no entry here
Entries(t) == {c \in Codes : t.entry[c].prefix # Missing}
-----------------------------------------------------------------------------
\* Mutant of Insert: the width is tested before next_code has moved on.
InsertLate(t, p, s, flag) ==
    LET c == t.next_code
        full == (c + 1) \div HighUnit = t.threshold
        new == [prefix |-> p, suffix |-> s, used |-> flag]
    IN  [entry |-> IF c \in Codes THEN [t.entry EXCEPT ![c] = new] ELSE t.entry,
         hash |-> HashInsert(t.hash, p, s, c),
         next_code |-> c + 1,
         threshold |-> IF full THEN 2 * t.threshold ELSE t.threshold,
         code_size |-> IF full /\ t.code_size < MaxBits THEN t.code_size + 1 ELSE t.code_size,
         state |-> IF full /\ t.code_size >= MaxBits THEN "last pass" ELSE t.state]

(* _LzwTable.insert *)
Insert(t, p, s, flag) ==
    LET c == t.next_code
        full == (c + 2) \div HighUnit = t.threshold
        new == [prefix |-> p, suffix |-> s, used |-> flag]
    IN  [entry |-> IF c \in Codes THEN [t.entry EXCEPT ![c] = new] ELSE t.entry,
         hash |-> HashInsert(t.hash, p, s, c),
         next_code |-> c + 1,
         threshold |-> IF full THEN 2 * t.threshold ELSE t.threshold,
         code_size |-> IF full /\ t.code_size < MaxBits THEN t.code_size + 1 ELSE t.code_size,
         state |-> IF full /\ t.code_size >= MaxBits THEN "last pass" ELSE t.state]

(* _LzwTable.seed, clear included *)
SeededTable ==
    [entry |-> [c \in Codes |->
                  [prefix |-> IF c < NRoots THEN None ELSE IF c < Seeds THEN Reserved ELSE Missing,
                   suffix |-> IF c < NRoots THEN c ELSE 0,
                   used |-> c < Seeds]],
     hash |-> SeedHash, next_code |-> Seeds, threshold |-> 2 ^ InitBits \div HighUnit,
     code_size |-> InitBits, state |-> "filling"]

\* Mutant of Recycled: the new entry stays marked as the old one was not.
RecycledMarked(t, p, s) ==
    LET stops == {i \in Slots : t.hash[i] = Free \/ (/\ t.hash[i] \in Codes
                                                     /\ ~t.entry[t.hash[i]].used)}
        victims == {t.hash[i] : i \in FirstSlot(p, s, stops)} \ {Free}
        new == [prefix |-> p, suffix |-> s, used |-> TRUE]
    IN  [t EXCEPT !.entry = [c \in Codes |-> IF c \in victims THEN new ELSE @[c]]]

(* _LzwTable.replace *)
Recycled(t, p, s) ==
    LET stops == {i \in Slots : t.hash[i] = Free \/ (/\ t.hash[i] \in Codes
                                                     /\ ~t.entry[t.hash[i]].used)}
        victims == {t.hash[i] : i \in FirstSlot(p, s, stops)} \ {Free}
        new == [prefix |-> p, suffix |-> s, used |-> FALSE]
    IN  [t EXCEPT !.entry = [c \in Codes |-> IF c \in victims THEN new ELSE @[c]]]

\* The walk of emit, from an entry to its first byte.
Walk(t, c) == Walked([k \in Codes |-> t.entry[k].prefix],
                     [k \in Codes |-> t.entry[k].suffix], c)
-----------------------------------------------------------------------------
PyInit == /\ tab = SeededTable
          /\ prev_code = None /\ first_byte = 0
          /\ skip_insert = TRUE /\ py_replacing = FALSE
          /\ stopped = FALSE /\ result = <<>>

Marked(c) == [tab EXCEPT !.entry[c].used = TRUE]

\* emit makes a missing entry at once, whichever code asked for it.
Emitting(c) == IF c \in Entries(tab) THEN Marked(c)
               ELSE Insert(Marked(c), prev_code, first_byte, TRUE)

Skipping(c) == skip_insert \/ c \notin Entries(tab)

PyCode(c) ==
    /\ c \notin Control /\ c \in Entries(Emitting(c))
    /\ result' = Walk(Emitting(c), c)
    /\ first_byte' = Head(result')
    /\ prev_code' = c
    /\ IF py_replacing
       THEN /\ tab' = Recycled(Emitting(c), prev_code, first_byte')
            /\ skip_insert' = Skipping(c)
            /\ UNCHANGED py_replacing
       ELSE LET t == IF Skipping(c) THEN Emitting(c)
                     ELSE Insert(Emitting(c), prev_code, first_byte', FALSE)
            IN  /\ tab' = [t EXCEPT !.state = IF @ = "last pass" THEN "replacing" ELSE @]
                /\ py_replacing' = (t.state = "replacing")
                /\ skip_insert' = FALSE
    /\ UNCHANGED stopped

PyUnknown(c) == /\ c \notin Control /\ c \notin Entries(Emitting(c))
                /\ tab' = Emitting(c) /\ skip_insert' = TRUE
                /\ stopped' = TRUE /\ result' = <<>>
                /\ UNCHANGED <<prev_code, first_byte, py_replacing>>

PyReset(c) == /\ c = ResetCode
              /\ tab' = SeededTable
              /\ prev_code' = None /\ skip_insert' = TRUE /\ py_replacing' = FALSE
              /\ result' = <<>>
              /\ UNCHANGED <<first_byte, stopped>>

PyFiller(c) == c \in Fillers /\ UNCHANGED py_vars

PyEnd == /\ stopped' = TRUE /\ result' = <<>>
         /\ UNCHANGED <<tab, prev_code, first_byte, skip_insert, py_replacing>>

PyStep(c) == PyCode(c) \/ PyUnknown(c) \/ PyReset(c) \/ PyFiller(c)
=============================================================================
