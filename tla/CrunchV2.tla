------------------------------ MODULE CrunchV2 ------------------------------
(***************************************************************************)
(* The Crunch V2 decoder of the CP/M program (src/plm/crunch.plm), from    *)
(* one code to the next: an LZW dictionary that, once full, recycles       *)
(* entries no code has ever named, choosing each victim by walking the     *)
(* hash table the compressor chose it from.                                *)
(*                                                                         *)
(* The codes are numbered as in the program: the single bytes, four        *)
(* control codes, then the entries.  Which slot a (prefix, suffix) pair    *)
(* hashes to is a parameter, Home: nothing here depends on it.             *)
(***************************************************************************)
EXTENDS CrunchHash

VARIABLES prefix, suffix,   \* the dictionary
          used,             \* crunch$used: has a code named the entry?
          hash,             \* crunch$hash$hi and $lo: the entry in a slot
          next,             \* lzw$next$code
          bits,             \* lzw$code$size
          threshold,        \* crunch$threshold
          state,            \* crunch$state: 0, 0FEH, 0FFH
          replacing,        \* the dictionary is full: recycle
          prev,             \* prev$code
          done,
          out,              \* the bytes the last code wrote
          len               \* history: the length of each entry's string

table == <<prefix, suffix, hash, len>>
width == <<next, bits, threshold, state, replacing>>
vars == <<table, width, used, prev, done, out>>
-----------------------------------------------------------------------------
(* lzw$output and lzw$first$byte walk from an entry to its first byte.     *)
StringOf(c) == Walked(prefix, suffix, c)
FirstByte(c) == Head(StringOf(c))

\* init$crunch$lzw.  Entries past the seeds keep what they held.
Seeded(table1, roots, control) ==
    [c \in Codes |-> IF c < NRoots THEN roots[c]
                     ELSE IF c < Seeds THEN control ELSE table1[c]]

InitLzw(prefix0, suffix0, len0) ==
    /\ prefix' = Seeded(prefix0, [c \in Codes |-> None], Reserved)
    /\ suffix' = Seeded(suffix0, [c \in Codes |-> c], 0)
    /\ len' = Seeded(len0, [c \in Codes |-> 1], 0)
    /\ hash' = SeedHash
    /\ used' = [c \in Codes |-> c < Seeds]
    /\ next' = Seeds

Init == /\ prefix = Seeded([c \in Codes |-> Reserved], [c \in Codes |-> None], Reserved)
        /\ suffix = Seeded([c \in Codes |-> 0], [c \in Codes |-> c], 0)
        /\ len = Seeded([c \in Codes |-> 0], [c \in Codes |-> 1], 0)
        /\ hash = SeedHash
        /\ used = [c \in Codes |-> c < Seeds]
        /\ next = Seeds
        /\ bits = InitBits /\ threshold = 2 ^ InitBits \div HighUnit
        /\ state = "filling" /\ replacing = FALSE
        /\ prev = None /\ done = FALSE /\ out = <<>>

\* crunch$add$entry: a new entry, and wider codes or a full dictionary.
AddEntry(p, s) ==
    /\ hash' = HashInsert(hash, p, s, next)
    /\ prefix' = IF next \in Codes THEN [prefix EXCEPT ![next] = p] ELSE prefix
    /\ suffix' = IF next \in Codes THEN [suffix EXCEPT ![next] = s] ELSE suffix
    /\ len' = IF next \in Codes THEN [len EXCEPT ![next] = len[p] + 1] ELSE len
    /\ next' = next + 1
    /\ LET full == (next + 2) \div HighUnit = threshold IN     \* high(next$code + 1)
       /\ threshold' = IF full THEN 2 * threshold ELSE threshold
       /\ bits' = IF full /\ bits < MaxBits THEN bits + 1 ELSE bits
       \* The state goes on from 0FEH at once: it grants one more entry.
       /\ state' = IF (full /\ bits >= MaxBits) \/ state # "filling" THEN "last" ELSE state
       /\ replacing' = (state = "last" /\ ~(full /\ bits >= MaxBits))

\* Mutant of Victims: an entry a code has named may go too.
VictimsAny(p, s, isUsed) ==
    {hash[i] : i \in FirstSlot(p, s, {i \in Slots : hash[i] = Free \/ hash[i] \in Seeds .. TableSize - 1})}
      \ {Free}

\* crunch$replace: the first entry on the pair's probe chain that no code has
\* named is given the pair; a chain that comes to a free slot first, none.
Victims(p, s, isUsed) ==
    LET stops == {i \in Slots : \/ hash[i] = Free
                               \/ /\ hash[i] \in Codes
                                  /\ ~isUsed[hash[i]]}
    IN  {hash[i] : i \in FirstSlot(p, s, stops)} \ {Free}

Replace(p, s) ==
    LET victims == Victims(p, s, used') IN
    /\ prefix' = [c \in Codes |-> IF c \in victims THEN p ELSE prefix[c]]
    /\ suffix' = [c \in Codes |-> IF c \in victims THEN s ELSE suffix[c]]
    /\ len' = [c \in Codes |-> IF c \in victims THEN len[p] + 1 ELSE len[c]]
    /\ UNCHANGED <<hash, width>>
-----------------------------------------------------------------------------
\* A code that names nothing: not an entry, nor the one about to be made.
Unknown(c) == c > next \/ (c = next /\ prev = None)

\* Mutant of Text: the last byte in place of the first.
TextLast(c) == IF c < next THEN StringOf(c) ELSE Append(StringOf(prev), suffix[prev])

\* What the code stands for; the one about to be made is the last string
\* and its first byte.
Text(c) == IF c < next THEN StringOf(c) ELSE Append(StringOf(prev), FirstByte(prev))

\* Mutant of DecodeCode: no mark$used.
DecodeUnmarked(c) ==
    /\ c \notin Control /\ ~Unknown(c)
    /\ used' = used
    /\ out' = Text(c)
    /\ IF prev = None THEN UNCHANGED <<table, width>>
       ELSE IF replacing THEN Replace(prev, Head(out'))
       ELSE AddEntry(prev, Head(out'))
    /\ prev' = c
    /\ UNCHANGED done

DecodeCode(c) ==
    /\ c \notin Control /\ ~Unknown(c)
    /\ used' = [used EXCEPT ![c] = TRUE]        \* mark$used, before anything else
    /\ out' = Text(c)
    /\ IF prev = None THEN UNCHANGED <<table, width>>
       ELSE IF replacing THEN Replace(prev, Head(out'))
       ELSE AddEntry(prev, Head(out'))
    /\ prev' = c
    /\ UNCHANGED done

DecodeUnknown(c) == /\ c \notin Control /\ Unknown(c)
                    /\ used' = [used EXCEPT ![c] = TRUE]
                    /\ done' = TRUE /\ out' = <<>>
                    /\ prev' = c
                    /\ UNCHANGED <<table, width>>

DecodeReset(c) == /\ c = ResetCode
                  /\ InitLzw(prefix, suffix, len)
                  /\ bits' = InitBits /\ threshold' = 2 ^ InitBits \div HighUnit
                  /\ state' = "filling" /\ replacing' = FALSE
                  /\ prev' = None /\ out' = <<>>
                  /\ UNCHANGED done

DecodeFiller(c) == c \in Fillers /\ UNCHANGED vars

\* The end code, or a code the input ends inside (input$short).
DecodeEnd == /\ done' = TRUE /\ out' = <<>>
             /\ UNCHANGED <<table, width, used, prev>>

\* The output file takes no more (rle$decode$byte returns 0).
OutputFails(c) == /\ c \notin Control /\ ~Unknown(c)
                  /\ used' = [used EXCEPT ![c] = TRUE]
                  /\ done' = TRUE /\ out' = <<>>
                  /\ UNCHANGED <<table, width, prev>>

Readable == {c \in Codes : c < 2 ^ bits}

Next == /\ ~done
        /\ \/ \E c \in Readable : \/ DecodeCode(c) \/ DecodeUnknown(c)
                                  \/ DecodeReset(c) \/ DecodeFiller(c)
                                  \/ OutputFails(c)
           \/ DecodeEnd

Spec == Init /\ [][Next]_vars
-----------------------------------------------------------------------------
Live(c) == c < next
Entry(c) == Seeds <= c /\ c < next

\* Types, of what the properties below are about.
TypeOK == /\ prefix \in [Codes -> Codes \union {None, Reserved}]
          /\ used \in [Codes -> BOOLEAN]
          /\ len \in [Codes -> Nat]
          /\ next \in Nat /\ next >= Seeds
          /\ bits \in InitBits .. MaxBits /\ threshold \in Nat
          /\ state \in {"filling", "last"} /\ replacing \in BOOLEAN
          /\ prev \in Codes \union {None} /\ done \in BOOLEAN

(* Every entry's prefix is an entry, and one that a code has named: so it  *)
(* is never a victim of crunch$replace (crunch.plm), even in a stream no   *)
(* compressor wrote.                                                       *)
PrefixUsed ==
    \A c \in Codes : Entry(c) => /\ prefix[c] \in Codes \ Control
                                 /\ Live(prefix[c])
                                 /\ used[prefix[c]]

(* Following prefixes always comes to a single byte: recycling an entry    *)
(* never closes a cycle, which lzw$output (crunch.plm) would walk until    *)
(* its 4096-byte bound and lzw$first$byte for ever.                        *)
LengthsFall ==
    \A c \in Codes : Entry(c) => len[c] = len[prefix[c]] + 1

\* What makes PrefixUsed inductive: the code before has been named too.
PrevUsed == prev # None /\ ~done => prev \in Codes \ Control /\ Live(prev) /\ used[prev]
SeedsUsed == \A c \in Codes : c < Seeds => used[c]

(* While the dictionary fills, the width of the next code is enough to     *)
(* name the entry it may make and the one after: crunch$add$entry widens   *)
(* when the high byte of next$code + 1 meets a doubling threshold, and a   *)
(* code of 512 is never asked for in nine bits.                            *)
WidthKeepsUp == state = "filling" => next + 2 <= 2 ^ bits

\* Recycling starts only when every code is an entry: then no code can name
\* an entry about to be made, which crunch$replace does not make.
FullWhenReplacing ==
    /\ state = "filling" => HighUnit * threshold = 2 ^ bits /\ ~replacing
    /\ state = "last" => next + 1 >= TableSize /\ bits = MaxBits
    /\ replacing => next >= TableSize

IInv == /\ TypeOK /\ PrefixUsed /\ LengthsFall /\ PrevUsed /\ SeedsUsed
        /\ WidthKeepsUp /\ FullWhenReplacing

(* The same of the walk itself: the string of an entry is as long as its   *)
(* history says and fits the work buffer of lzw$output, and what was just  *)
(* written for a code is the string the dictionary now gives that code.    *)
(* It is the case of a code that named the entry about to be made that     *)
(* could go wrong: its text is written before the entry exists.            *)
WrittenIsEntry ==
    /\ \A c \in Codes : Entry(c) => Len(StringOf(c)) = len[c] /\ len[c] <= TableSize
    /\ prev # None /\ ~done => out = StringOf(prev)

(* A code goes on meaning what it meant until it is itself recycled: no    *)
(* step but a reset changes an entry that another entry is built on.       *)
MeaningKept ==
    [][next' >= next =>
         \A c, d \in Codes : Entry(c) /\ Entry(d) /\ prefix[d] = c
                               => prefix'[c] = prefix[c] /\ suffix'[c] = suffix[c]]_vars
=============================================================================
