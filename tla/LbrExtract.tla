----------------------------- MODULE LbrExtract -----------------------------
(***************************************************************************)
(* The LBR driver of the CP/M program (extract$lbr, src/plm/lbr.plm): it   *)
(* reads the whole directory into the work buffer, then for each active    *)
(* entry reopens the archive, reads up to the member's first sector and    *)
(* decodes or copies the member.  The work buffer is also where a crunched *)
(* member's strings are turned around (lzw$output, src/plm/crunch.plm).    *)
(*                                                                         *)
(* A file is a number of 128-byte sectors, a directory entry a record and  *)
(* the work buffer a function from entry numbers to entries.  A decoder is *)
(* abstract: it reads some of its member's sectors and succeeds or fails,  *)
(* and one for Crunch leaves text over the first entries' bytes.           *)
(***************************************************************************)
EXTENDS Integers, Sequences, SequencesExt, FiniteSets

CONSTANTS Archives,       \* records: claimed, size, entry, magic (see below)
          PerSector,      \* entries in a sector: 4
          MaxDirSectors,  \* sectors the work buffer holds: 32
          TextEntries,    \* what a crunched member's text reads as, as an entry
          StringEntries   \* entries the longest crunched string covers (of 32 bytes)

\* Number of entries in the work buffer.
Room == PerSector * MaxDirSectors
Numbers == 0 .. Room - 1

\* claimed: the directory's length, of its own entry; size: sectors in the
\* file; entry: the entries from the start of the file; magic: what the two
\* bytes a sector starts with announce.
Statuses == {"active", "deleted", "unused"}
Entries == [status : Statuses, index : Nat, length : Nat]
ASSUME LbrAssumption ==
    /\ PerSector \in Nat \ {0} /\ MaxDirSectors \in Nat \ {0} /\ StringEntries \in Nat
    /\ TextEntries \subseteq Entries
    /\ \A a \in Archives : /\ a.claimed \in Nat /\ a.size \in Nat
                           /\ a.entry \in [Numbers -> Entries]
                           /\ \A i \in 0 .. a.size - 1 :
                                 a.magic[i] \in {"squeeze", "crunch", "crlzh", "stored"}

VARIABLES file,        \* the archive
          pc,
          work,        \* the work buffer, entry by entry
          dir_sectors, k,
          entry_num,
          member,      \* the active entry: member$index and member$length
          fpos,        \* sectors of the file read since it was opened
          sectors_left,
          result,
          out,         \* the member's file: the sectors copied, or Decoded
          file_count,
          listed,      \* history: the entries gone through as members
          reports      \* history: what was said of each: [entry, ok, out]

vars == <<file, pc, work, dir_sectors, k, entry_num, member, fpos, sectors_left,
          result, out, file_count, listed, reports>>
reading == <<dir_sectors, k, work>>
dealt == <<file_count, listed, reports>>

max_entries == PerSector * dir_sectors
Decoded == <<-1>>          \* no sector numbers: a decoder wrote it
NoEntry == [status |-> "deleted", index |-> 0, length |-> 0]

Init == /\ file \in Archives /\ pc = "first"
        /\ work = [e \in Numbers |-> NoEntry]      \* whatever it held: never read
        /\ dir_sectors = 0 /\ k = 0 /\ entry_num = 1 /\ member = NoEntry
        /\ fpos = 0 /\ sectors_left = 0 /\ result = 0 /\ out = <<>>
        /\ file_count = 0 /\ listed = <<>> /\ reports = <<>>
-----------------------------------------------------------------------------
\* readfile: 0 and the next sector, or not 0 at the end of the file.
AtEnd == fpos >= file.size

\* A directory sector read into the work buffer.
WithSector(n) == [e \in Numbers |-> IF e \div PerSector = n THEN file.entry[e] ELSE work[e]]

BadFirst == \/ AtEnd \/ file.entry[0].status # "active"
            \/ file.claimed = 0 \/ file.claimed > MaxDirSectors

ReadFirst == /\ pc = "first" /\ ~BadFirst
             /\ work' = WithSector(0) /\ fpos' = 1
             /\ dir_sectors' = file.claimed /\ k' = 1
             /\ pc' = "directory"
             /\ UNCHANGED <<file, entry_num, member, sectors_left, result, out, dealt>>

Refuse == /\ pc = "first" /\ BadFirst /\ pc' = "end"
          /\ UNCHANGED <<file, reading, entry_num, member, fpos, sectors_left, result, out, dealt>>

\* Mutant of ReadDirectory: sectors the file ends before count as read.
ReadOnPastEnd == /\ pc = "directory" /\ k < dir_sectors /\ k' = k + 1
                 /\ IF AtEnd THEN UNCHANGED <<work, fpos>>
                    ELSE work' = WithSector(k) /\ fpos' = fpos + 1
                 /\ UNCHANGED <<file, pc, dir_sectors, entry_num, member, sectors_left,
                                result, out, dealt>>

ReadDirectory == /\ pc = "directory" /\ k < dir_sectors
                 /\ IF AtEnd THEN dir_sectors' = k /\ UNCHANGED <<work, fpos, k>>
                    ELSE /\ work' = WithSector(k) /\ fpos' = fpos + 1 /\ k' = k + 1
                         /\ UNCHANGED dir_sectors
                 /\ UNCHANGED <<file, pc, entry_num, member, sectors_left, result, out, dealt>>

StartEntries == /\ pc = "directory" /\ k >= dir_sectors
                /\ pc' = "entry" /\ entry_num' = 1 /\ file_count' = 0
                /\ UNCHANGED <<file, reading, member, fpos, sectors_left, result, out,
                               listed, reports>>

\* One pass of the loop over the entries, up to the member's output file.
NoMore == /\ pc = "entry" /\ entry_num >= max_entries /\ pc' = "end"
          /\ UNCHANGED <<file, reading, entry_num, member, fpos, sectors_left, result, out, dealt>>

\* Mutants of PassOver: a deleted entry ends the directory; it is not passed.
StopAtDeleted ==
    /\ pc = "entry" /\ entry_num < max_entries /\ work[entry_num].status # "active"
    /\ entry_num' = max_entries
    /\ UNCHANGED <<file, pc, reading, member, fpos, sectors_left, result, out, dealt>>
StayAtDeleted ==
    /\ pc = "entry" /\ entry_num < max_entries /\ work[entry_num].status # "active"
    /\ entry_num' = IF work[entry_num].status = "unused" THEN max_entries ELSE entry_num
    /\ UNCHANGED <<file, pc, reading, member, fpos, sectors_left, result, out, dealt>>

PassOver ==
    /\ pc = "entry" /\ entry_num < max_entries /\ work[entry_num].status # "active"
    /\ entry_num' = IF work[entry_num].status = "unused" THEN max_entries ELSE entry_num + 1
    /\ UNCHANGED <<file, pc, reading, member, fpos, sectors_left, result, out, dealt>>

TakeMember == /\ pc = "entry" /\ entry_num < max_entries
              /\ work[entry_num].status = "active"
              /\ member' = work[entry_num]
              /\ listed' = Append(listed, entry_num)
              /\ pc' = "make"
              /\ UNCHANGED <<file, reading, entry_num, fpos, sectors_left, result, out,
                             file_count, reports>>

Report(ok) == /\ reports' = Append(reports, [entry |-> entry_num, ok |-> ok, out |-> out'])
              /\ file_count' = IF ok THEN file_count + 1 ELSE file_count
              /\ entry_num' = entry_num + 1 /\ pc' = "entry"
              /\ UNCHANGED listed

\* Mutant of MakeFails: one file that cannot be made ends the run.
MakeOrStop == /\ pc = "make" /\ out' = <<>>
              /\ reports' = Append(reports, [entry |-> entry_num, ok |-> FALSE, out |-> <<>>])
              /\ entry_num' = entry_num + 1 /\ pc' = "end"
              /\ UNCHANGED <<file, reading, member, fpos, sectors_left, result,
                             file_count, listed>>

\* makefile fails, or makes a member of no sectors: nothing more to do.
MakeFails == /\ pc = "make" /\ out' = <<>> /\ Report(FALSE)
             /\ UNCHANGED <<file, reading, member, fpos, sectors_left, result>>
MakeEmpty == /\ pc = "make" /\ member.length = 0 /\ out' = <<>> /\ Report(TRUE)
             /\ UNCHANGED <<file, reading, member, fpos, sectors_left, result>>

\* Mutant of Reopen: the archive is not opened again.
ReadOn == /\ pc = "make" /\ member.length # 0
          /\ sectors_left' = member.index /\ out' = <<>>
          /\ result' = 0 /\ pc' = "skip"
          /\ UNCHANGED <<file, reading, entry_num, member, fpos, dealt>>

Reopen == /\ pc = "make" /\ member.length # 0
          /\ fpos' = 0 /\ sectors_left' = member.index /\ out' = <<>>
          /\ result' = 0 /\ pc' = "skip"
          /\ UNCHANGED <<file, reading, entry_num, member, dealt>>

ReopenFails == /\ pc = "make" /\ member.length # 0
               /\ result' = 0 /\ out' = <<>> /\ Report(FALSE)
               /\ UNCHANGED <<file, reading, member, fpos, sectors_left>>

SkipSector == /\ pc = "skip" /\ sectors_left # 0
              /\ fpos' = IF AtEnd THEN fpos ELSE fpos + 1
              /\ sectors_left' = sectors_left - 1
              /\ UNCHANGED <<file, pc, reading, entry_num, member, result, out, dealt>>

\* fill$inbuf reads the member's first sector, which says how to decode it.
FillFails == /\ pc = "skip" /\ sectors_left = 0 /\ AtEnd
             /\ result' = 0 /\ UNCHANGED out /\ Report(FALSE)
             /\ UNCHANGED <<file, reading, member, fpos, sectors_left>>

FillStored == /\ pc = "skip" /\ sectors_left = 0 /\ ~AtEnd
              /\ file.magic[fpos] = "stored"
              /\ fpos' = fpos + 1 /\ result' = 1
              /\ sectors_left' = member.length /\ pc' = "copy"
              /\ UNCHANGED <<file, reading, entry_num, member, out, dealt>>

\* The inbuf sector first, then sectors read straight into the DMA buffer.
CopySector == /\ pc = "copy" /\ sectors_left # 0
              /\ \/ /\ out = <<>>
                    /\ out' = <<fpos - 1>> /\ sectors_left' = sectors_left - 1
                    /\ UNCHANGED <<fpos, result>>
                 \/ /\ out # <<>> /\ ~AtEnd
                    /\ out' = Append(out, fpos) /\ fpos' = fpos + 1
                    /\ sectors_left' = sectors_left - 1
                    /\ UNCHANGED result
                 \/ /\ out # <<>> /\ AtEnd
                    /\ result' = 0 /\ sectors_left' = 0
                    /\ UNCHANGED <<out, fpos>>
              /\ UNCHANGED <<file, pc, reading, entry_num, member, dealt>>

\* The disk takes no more (writefile).
WriteFails == /\ pc = "copy" /\ sectors_left # 0
              /\ result' = 0 /\ sectors_left' = 0
              /\ fpos' = IF out = <<>> \/ AtEnd THEN fpos ELSE fpos + 1
              /\ UNCHANGED <<file, pc, reading, entry_num, member, out, dealt>>

CopyEnds == /\ pc = "copy" /\ sectors_left = 0
            /\ UNCHANGED out /\ Report(result = 1)
            /\ UNCHANGED <<file, reading, member, fpos, sectors_left, result>>

\* A decoder reads no further than the member's sectors, and succeeds or not.
DecodeMember(ok, upto) ==
    /\ pc = "skip" /\ sectors_left = 0 /\ ~AtEnd /\ file.magic[fpos] # "stored"
    /\ upto \in fpos + 1 .. file.size /\ upto <= fpos + member.length
    /\ fpos' = upto
    /\ out' = Decoded
    /\ result' = (IF ok THEN 1 ELSE 0) /\ Report(ok)
    /\ UNCHANGED <<file, dir_sectors, k, member, sectors_left>>

\* lzw$output writes each string from the start of the work buffer.
Scribbled(n, text) == [e \in Numbers |-> IF e < n THEN text ELSE work[e]]

DecodeCrunch(ok, upto) == /\ DecodeMember(ok, upto) /\ file.magic[fpos] = "crunch"
                          /\ \E n \in 0 .. StringEntries, text \in TextEntries :
                                work' = Scribbled(n, text)

DecodeOther(ok, upto) == /\ DecodeMember(ok, upto) /\ file.magic[fpos] # "crunch"
                         /\ UNCHANGED work

End == pc = "end" /\ UNCHANGED vars

Step == \/ ReadFirst \/ Refuse \/ ReadDirectory \/ StartEntries
        \/ NoMore \/ PassOver \/ TakeMember
        \/ MakeFails \/ MakeEmpty \/ Reopen \/ ReopenFails
        \/ SkipSector \/ FillFails \/ FillStored
        \/ CopySector \/ WriteFails \/ CopyEnds
        \/ \E ok \in BOOLEAN, upto \in 1 .. file.size :
              DecodeCrunch(ok, upto) \/ DecodeOther(ok, upto)

Next == Step \/ End

Spec == Init /\ [][Next]_vars
FairSpec == Spec /\ WF_vars(Step)
-----------------------------------------------------------------------------
\* The entries not gone through yet, and all that have been.
Dealing == pc \in {"make", "skip", "copy"}
Looping == Dealing \/ pc \in {"entry", "end"}
Ahead == {e \in Numbers : e < max_entries /\ e >= entry_num /\ (Dealing => e # entry_num)}

TypeOK == /\ file.entry \in [Numbers -> Entries] /\ file.size \in Nat /\ file.claimed \in Nat
          /\ pc \in {"first", "directory", "entry", "make", "skip", "copy", "end"}
          /\ work \in [Numbers -> Entries]
          /\ dir_sectors \in 0 .. MaxDirSectors /\ k \in Nat
          /\ entry_num \in Nat \ {0} /\ member \in Entries
          /\ fpos \in Nat /\ sectors_left \in Nat /\ result \in {0, 1}
          /\ file_count \in Nat

(* The directory is read once and used till the last member: an entry      *)
(* still to come reads in the work buffer as it does in the file           *)
(* (extract$lbr, src/plm/lbr.plm).  That holds as long as no crunched      *)
(* string is longer than two entries, and MCLbrLongStrings shows that it   *)
(* fails for longer ones.                                                  *)
DirectoryKept == Looping => \A e \in Ahead : work[e] = file.entry[e]

IInv == /\ TypeOK /\ DirectoryKept
        /\ pc = "first" => dir_sectors = 0
        /\ pc = "directory" => /\ k <= dir_sectors
                               /\ \A e \in Numbers : e < PerSector * k => work[e] = file.entry[e]

\* A file that is no library, and the members one lists: the active entries
\* of the directory's sectors there, up to the first unused one.
Least(a, b) == IF a <= b THEN a ELSE b
Present == PerSector * Least(Least(file.claimed, file.size), MaxDirSectors)
Is(e, status) == file.entry[e].status = status
NoLibrary == \/ file.size = 0 \/ ~Is(0, "active")
             \/ file.claimed = 0 \/ file.claimed > MaxDirSectors
Members == {e \in 1 .. Present - 1 : /\ ~NoLibrary /\ Is(e, "active")
                                     /\ \A d \in 1 .. e : ~Is(d, "unused")}

(* Every member the directory lists is gone through, once, in order, and   *)
(* reported, whatever became of the members before it; the count is of     *)
(* those said to be OK.                                                    *)
EveryMemberOnce ==
    Looping =>
      /\ ToSet(listed) = IF pc = "end" THEN Members ELSE Members \ Ahead
      /\ \A i, j \in DOMAIN listed : i < j => listed[i] < listed[j]
      /\ [i \in DOMAIN reports |-> reports[i].entry]
           = IF Dealing THEN Front(listed) ELSE listed
      /\ file_count = Cardinality({i \in DOMAIN reports : reports[i].ok})

(* A stored member said to be OK is the sectors its entry names, all of    *)
(* them and in order: reopening the archive leaves nothing of where the    *)
(* member before stopped reading.                                          *)
StoredWhole ==
    \A i \in DOMAIN reports :
      LET entry == file.entry[reports[i].entry]
      IN  reports[i].ok /\ reports[i].out # Decoded =>
            reports[i].out = [n \in 1 .. entry.length |-> (entry.index + n) - 1]

\* read_directory (src/un80/lbr.py) leaves only the first sector at an
\* unused entry there, and goes on to the second.
PyMembers == {e \in 1 .. Present - 1 :
                /\ ~NoLibrary /\ Is(e, "active")
                /\ \A d \in 1 .. e : (d < PerSector <=> e < PerSector) => ~Is(d, "unused")}

(* The Python tool and the CP/M program find the same members in the same  *)
(* archive (README.md: both produce identical output), if nothing follows  *)
(* an unused entry of the first sector: the one ends that sector there,    *)
(* the other the directory.                                                *)
Hole == \E e \in 1 .. PerSector - 1, d \in PerSector .. Present - 1 :
          Is(e, "unused") /\ Is(d, "active")
SameMembersUnlessHole == pc = "end" /\ ~Hole => ToSet(listed) = PyMembers

(* The loop over the entries ends.                                         *)
Terminates == <>(pc = "end")
=============================================================================
