------------------------------- MODULE CpmNames -----------------------------
(***************************************************************************)
(* The names the members of one archive are made under, by the CP/M        *)
(* program (src/plm/names.plm, and the room src/plm/main.plm gives its     *)
(* table) and by the Python tool (safe_filename and unique_filename of     *)
(* src/un80/cpm.py).                                                       *)
(*                                                                         *)
(* A stored name is a sequence of characters; bit 7 and the NUL that ends  *)
(* a name are gone already.  What happens to one character is a parameter, *)
(* as are the lengths: what matters is that cutting, replacing and         *)
(* numbering bring different members to the same name.  Extraction says    *)
(* when names are made.                                                    *)
(***************************************************************************)
EXTENDS Integers, SequencesExt

CONSTANTS Cpm,          \* cpm$char, as a function on characters
          Safe, Fold,   \* the character in a host name, and casefold
          Devices,      \* stems Windows takes for devices, folded
          NameLen, TypeLen, TableCap,  \* 8, 3, 256
          Base, MaxSuffix,  \* 10, 999
          PyMax,        \* _MAX_NAME_BYTES
          PyExtMax,     \* the longest extension _cap_length keeps: 16
          Own,          \* names the archive can have
          MaxMembers    \* bound: members in an archive

\* More suffixes than names in the table, so one is always free.
ASSUME SuffixAssumption == /\ MaxSuffix \in Nat /\ TableCap \in 1 .. MaxSuffix - 1
                           /\ Base \in 2 .. 10
ASSUME LengthAssumption == {NameLen, TypeLen, PyMax, PyExtMax, MaxMembers} \subseteq Nat

VARIABLES own, onDrive, \* the archive's name; on the drive members are made on?
          nameMax,      \* name$max
          table,        \* name$table and name$count: the names made so far
          started,      \* main has come to the archive
          made,         \* history: the CP/M name of each member
          used,         \* used_names of the Python tool, folded
          pyMade        \* history: its name for each member

cpm == <<own, onDrive, nameMax, table, started, made>>
pyNames == <<used, pyMade>>

Cut(s, n) == SubSeq(s, 1, IF Len(s) < n THEN Len(s) ELSE n)
MapChars(f, s) == [i \in DOMAIN s |-> f[s[i]]]

\* What is left of s without the characters of `bad' around it.
Kept(s, bad) == {i \in DOMAIN s : s[i] \notin bad}
RStrip(s, bad) == IF Kept(s, bad) = {} THEN <<>> ELSE SubSeq(s, 1, Max(Kept(s, bad)))
Strip(s) == IF Kept(s, {" "}) = {} THEN <<>>
            ELSE SubSeq(s, Min(Kept(s, {" "})), Max(Kept(s, {" "})))

LastDot(s) == Max({0} \union {i \in DOMAIN s : s[i] = "."})
Unnamed == <<"U">>         \* UNNAMED

\* The digits of a suffix, the first of them never 0.
Digit == <<"0", "1", "2", "3", "4", "5", "6", "7", "8", "9">>
Digits[k \in Nat] == IF k < Base THEN <<Digit[k + 1]>>
                     ELSE Append(Digits[k \div Base], Digit[(k % Base) + 1])

\* Every suffix leaves room for a character of the name and its "-"; no name
\* is made with a dot in it, and digits have no case.
Chars == DOMAIN Fold
ASSUME CharAssumption ==
    /\ Cpm \in [Chars -> Chars \ {"."}] /\ Safe \in [Chars -> Chars] /\ Fold \in [Chars -> Chars]
    /\ {"-", "_", ".", "U"} \subseteq Chars
    /\ \A i \in 1 .. Base : Digit[i] \in Chars /\ Fold[Digit[i]] = Digit[i]
    /\ \A k \in 0 .. MaxSuffix : Len(Digits[k]) + 1 < NameLen
-----------------------------------------------------------------------------
\* cpm$name, first part: the FCB's name and type, without the blanks that pad
\* them.  The type is what follows the last '.'.
FcbName(stored) ==
    LET s == Strip(stored)
        dot == IF LastDot(s) = 0 THEN Len(s) + 1 ELSE LastDot(s)
        name == Cut(SubSeq(s, 1, dot - 1), NameLen)
    IN  [name |-> IF name = <<>> THEN Unnamed ELSE MapChars(Cpm, name),
         type |-> MapChars(Cpm, Cut(SubSeq(s, dot + 1, Len(s)), TypeLen))]

\* Mutants of Numbered: room is made for one digit, and the rest are cut off;
\* no room is made.
NumberedByOne(n, k) ==
    IF k = 0 THEN n
    ELSE [n EXCEPT !.name = Cut(Cut(@, NameLen - 2) \o <<"-">> \o Digits[k], NameLen)]
NumberedAtEnd(n, k) ==
    IF k = 0 THEN n ELSE [n EXCEPT !.name = @ \o <<"-">> \o Digits[k]]

\* ... second part: a name made already ends in -1, -2 ... instead, cut to fit.
Numbered(n, k) ==
    IF k = 0 THEN n
    ELSE [n EXCEPT !.name = Cut(@, (NameLen - 1) - Len(Digits[k])) \o <<"-">> \o Digits[k]]

\* name$taken
Taken(n) == n \in ToSet(table)

NewName(n) == LET free == {k \in 0 .. MaxSuffix : ~Taken(Numbered(n, k))}
              IN  Numbered(n, Min(free \union {MaxSuffix}))

\* reserve$name, and the end of cpm$name
Recorded(n) == IF Len(table) < nameMax THEN Append(table, n) ELSE table
-----------------------------------------------------------------------------
\* _cap_length, _clean_name and safe_filename
Capped(s) == IF Len(s) <= PyMax THEN s
             ELSE LET dot == LastDot(s)
                      suffix == IF dot # 0 /\ Len(s) - dot <= PyExtMax
                                THEN SubSeq(s, dot, Len(s)) ELSE <<>>
                  IN  SubSeq(s, 1, PyMax - Len(suffix)) \o suffix

Cleaned(stored) ==
    LET s == RStrip(Strip(MapChars(Safe, stored)), {".", " "})
        firstDot == Min({Len(s) + 1} \union {i \in DOMAIN s : s[i] = "."})
        stem == SubSeq(s, 1, firstDot - 1)
    IN  IF s = <<>> THEN <<>>
        ELSE Capped(IF MapChars(Fold, stem) \in Devices THEN <<"_">> \o s ELSE s)

Clean(stored, fallback) == IF Cleaned(stored) # <<>> THEN Cleaned(stored)
                           ELSE IF Cleaned(fallback) # <<>> THEN Cleaned(fallback)
                           ELSE Unnamed

\* unique_filename: rpartition('.'), and a name that ends in its dot loses it.
Suffixed(s, k) ==
    LET dot == LastDot(s)
        stem == IF dot = 0 THEN s ELSE SubSeq(s, 1, dot - 1)
        suffix == IF dot \in {0, Len(s)} THEN <<>> ELSE SubSeq(s, dot, Len(s))
    IN  IF k = 0 THEN s ELSE stem \o <<"_">> \o Digits[k] \o suffix

Folded(s) == MapChars(Fold, s)

\* Mutant of Unique: the name is looked up as it is spelt.
UniqueAsSpelt(s) ==
    LET free == {k \in 0 .. Cardinality(used) : Suffixed(s, k) \notin used}
    IN  Suffixed(s, Min(free))

\* One of the first Cardinality(used) + 1 candidates is free.
Unique(s) ==
    LET free == {k \in 0 .. Cardinality(used) : Folded(Suffixed(s, k)) \notin used}
    IN  Suffixed(s, Min(free))
-----------------------------------------------------------------------------
CpmInit == /\ own \in Own /\ onDrive \in BOOLEAN
           /\ nameMax \in 1 .. TableCap    \* main refuses a TPA with room for none
           /\ table = <<>> /\ started = FALSE /\ made = <<>>

\* Mutant of Start: the archive's own name is not taken.
StartUnreserved == /\ ~started /\ started' = TRUE
                   /\ UNCHANGED <<own, onDrive, nameMax, table, made, used, pyMade>>

\* main: the archive's own name is taken first.
Start == /\ ~started /\ started' = TRUE
         /\ table' = IF onDrive THEN Recorded(own) ELSE table
         /\ UNCHANGED <<own, onDrive, nameMax, made, used, pyMade>>

\* cpm$name, for a member
MakeMember(stored) ==
    /\ started /\ Len(made) < MaxMembers
    /\ LET n == NewName(FcbName(stored))
       IN  made' = Append(made, n) /\ table' = Recorded(n)
    /\ UNCHANGED <<own, onDrive, nameMax, started, used, pyMade>>

\* unique_filename(safe_filename(name, fallback), used_names)
PyMakeMember(stored, fallback) ==
    LET p == Unique(Clean(stored, fallback))
    IN  pyMade' = Append(pyMade, p) /\ used' = used \union {Folded(p)}
-----------------------------------------------------------------------------
(* No member is made over the archive while it is being read, however many *)
(* members come before it and whether or not the table filled up on the    *)
(* way (main.plm: "Its name is taken first").                              *)
ArchiveKept == onDrive => \A i \in DOMAIN made : made[i] # own

(* No member overwrites another, as long as the table had room for the     *)
(* first of the two (names.plm: "That holds for as many names as the table *)
(* keeps"), even where a name already ends like a numbered one.            *)
Room == nameMax - (IF onDrive THEN 1 ELSE 0)
MembersKept == \A i, j \in DOMAIN made : i < j /\ i <= Room => made[i] # made[j]

(* The Python tool keeps every member apart from every other, on a host    *)
(* that ignores case too (unique_filename, src/un80/cpm.py).               *)
PyMembersKept == \A i, j \in DOMAIN pyMade :
                    i < j => Folded(pyMade[i]) # Folded(pyMade[j])

(* A name made fits an FCB, its suffix not cut off, and has a name part;   *)
(* numbering it never touches the type.                                    *)
FitsFcb == \A i \in DOMAIN made : /\ Len(made[i].name) \in 1 .. NameLen
                                  /\ Len(made[i].type) <= TypeLen
                                  /\ "." \notin ToSet(made[i].name \o made[i].type)
=============================================================================
