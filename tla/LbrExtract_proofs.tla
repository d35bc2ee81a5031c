-------------------------- MODULE LbrExtract_proofs --------------------------
(***************************************************************************)
(* The directory of an LBR lasts till its last member, for every archive,  *)
(* as long as no crunched string is longer than two entries (64 bytes).    *)
(* The bound is what the argument needs: the first member is the second    *)
(* entry, so the first two may be written over once it is being decoded.   *)
(***************************************************************************)
EXTENDS LbrExtract, FiniteSetTheorems, SequenceTheorems, TLAPS

LEMMA RoomHoldsDirectory ==
    ASSUME NEW p \in Nat, NEW d \in Nat, NEW m \in Nat, d <= m
    PROVE  p * d \in Nat /\ p * d <= p * m
BY SMT

\* An entry of the first k + 1 sectors is one of the first k or of sector k.
LEMMA SectorOfEntry ==
    ASSUME NEW p \in Nat \ {0}, NEW n \in Nat, NEW e \in Nat, e < p * (n + 1)
    PROVE  e < p * n \/ e \div p = n
BY SMT

LEMMA Constants == /\ PerSector \in Nat \ {0} /\ MaxDirSectors \in Nat \ {0}
                   /\ Room \in Nat /\ StringEntries \in Nat
BY LbrAssumption DEF Room

LEMMA MaxInRoom == ASSUME dir_sectors \in 0 .. MaxDirSectors
                   PROVE  max_entries \in Nat /\ max_entries <= Room
BY Constants, RoomHoldsDirectory DEF max_entries, Room

LEMMA InitIInv == Init => IInv
<1> SUFFICES ASSUME Init PROVE IInv
  OBVIOUS
<1>1. file.entry \in [Numbers -> Entries] /\ file.size \in Nat /\ file.claimed \in Nat
  BY LbrAssumption DEF Init
<1>2. NoEntry \in Entries
  BY DEF NoEntry, Entries, Statuses
<1>3. TypeOK
  BY <1>1, <1>2, Constants DEF Init, TypeOK
<1> QED
  BY <1>3 DEF Init, IInv, DirectoryKept, Looping, Dealing

(* A step that leaves the work buffer alone and has no more entries ahead  *)
(* keeps the directory.                                                    *)
LEMMA SameBufferKeeps ==
    ASSUME IInv, Looping, UNCHANGED <<file, work, dir_sectors>>, TypeOK', Looping',
           Ahead' \subseteq Ahead
    PROVE  IInv'
<1>1. DirectoryKept'
  BY DEF IInv, DirectoryKept
<1>2. pc' # "directory"
  BY DEF Looping, Dealing
<1>3. pc' # "first"
  BY DEF Looping, Dealing
<1> QED
  BY <1>1, <1>2, <1>3 DEF IInv

LEMMA NextIInv ==
    ASSUME StringEntries <= 2
    PROVE  IInv /\ [Next]_vars => IInv'
<1> SUFFICES ASSUME IInv, [Next]_vars PROVE IInv'
  OBVIOUS
<1> USE Constants
<1>1. /\ TypeOK /\ DirectoryKept
      /\ pc = "first" => dir_sectors = 0
      /\ pc = "directory" => /\ k <= dir_sectors
                             /\ \A e \in Numbers : e < PerSector * k => work[e] = file.entry[e]
  BY DEF IInv
<1>2. max_entries \in Nat /\ max_entries <= Room
  BY <1>1, MaxInRoom DEF TypeOK
<1>3. CASE UNCHANGED vars
  BY <1>1, <1>3 DEF IInv, vars, reading, dealt, TypeOK, DirectoryKept, Looping, Dealing, Ahead,
                    max_entries
<1>4. CASE ReadFirst
  <2>1. TypeOK'
    BY <1>1, <1>4 DEF ReadFirst, BadFirst, TypeOK, WithSector, dealt
  <2>2. k' <= dir_sectors'
    BY <1>1, <1>4 DEF ReadFirst, BadFirst, TypeOK
  <2>3. \A e \in Numbers : e < PerSector * k' => work'[e] = file'.entry[e]
    <3> SUFFICES ASSUME NEW e \in Numbers, e < PerSector * 1
                 PROVE  work'[e] = file.entry[e]
      BY <1>4 DEF ReadFirst, dealt
    <3>1. e \in Nat /\ e < PerSector * (0 + 1) /\ ~(e < PerSector * 0)
      BY DEF Numbers
    <3>2. e \div PerSector = 0
      BY <3>1, SectorOfEntry
    <3> QED
      BY <1>4, <3>2 DEF ReadFirst, WithSector
  <2>4. ~Looping' /\ pc' # "first"
    BY <1>4 DEF ReadFirst, Looping, Dealing
  <2> QED
    BY <2>1, <2>2, <2>3, <2>4 DEF IInv, DirectoryKept
<1>5. CASE Refuse
  <2>1. TypeOK'
    BY <1>1, <1>5 DEF Refuse, TypeOK, reading, dealt
  <2>2. Ahead' = {}
    BY <1>1, <1>5 DEF Refuse, reading, Ahead, max_entries, Numbers, TypeOK
  <2> QED
    BY <1>5, <2>1, <2>2 DEF Refuse, IInv, DirectoryKept
<1>6. CASE ReadDirectory
  <2>1. /\ k <= dir_sectors /\ k \in Nat /\ dir_sectors \in 0 .. MaxDirSectors
        /\ \A e \in Numbers : e < PerSector * k => work[e] = file.entry[e]
        /\ pc' = "directory" /\ file' = file /\ k < dir_sectors
    BY <1>1, <1>6 DEF ReadDirectory, TypeOK
  <2>2. CASE AtEnd
    <3>1. /\ dir_sectors' = k /\ UNCHANGED <<work, fpos, k>>
      BY <1>6, <2>2 DEF ReadDirectory
    <3>2. TypeOK'
      BY <1>1, <1>6, <2>1, <3>1 DEF ReadDirectory, TypeOK, dealt
    <3> QED
      BY <2>1, <3>1, <3>2 DEF IInv, DirectoryKept, Looping, Dealing
  <2>3. CASE ~AtEnd
    <3>1. /\ work' = WithSector(k) /\ fpos' = fpos + 1 /\ k' = k + 1
          /\ dir_sectors' = dir_sectors
      BY <1>6, <2>3 DEF ReadDirectory
    <3>2. TypeOK'
      BY <1>1, <1>6, <2>1, <3>1 DEF ReadDirectory, TypeOK, WithSector, dealt
    <3>3. ASSUME NEW e \in Numbers, e < PerSector * k'
          PROVE  work'[e] = file.entry[e]
      <4>1. e \in Nat /\ (e < PerSector * k \/ e \div PerSector = k)
        BY <2>1, <3>1, <3>3, SectorOfEntry DEF Numbers
      <4> QED
        BY <2>1, <3>1, <4>1 DEF WithSector
    <3> QED
      BY <2>1, <3>1, <3>2, <3>3 DEF IInv, DirectoryKept, Looping, Dealing
  <2> QED
    BY <2>2, <2>3
<1>7. CASE StartEntries
  <2>1. TypeOK'
    BY <1>1, <1>7 DEF StartEntries, TypeOK, reading
  <2>2. k = dir_sectors /\ pc' = "entry" /\ UNCHANGED <<file, work, dir_sectors>>
    BY <1>1, <1>7 DEF StartEntries, TypeOK, reading
  <2>3. DirectoryKept'
    BY <1>1, <1>7, <2>2 DEF StartEntries, DirectoryKept, Ahead, max_entries
  <2> QED
    BY <2>1, <2>2, <2>3 DEF IInv
<1>8. CASE NoMore
  <2>1. TypeOK'
    BY <1>1, <1>8 DEF NoMore, TypeOK, reading, dealt
  <2> QED
    BY <1>8, <2>1, SameBufferKeeps
       DEF NoMore, reading, Looping, Dealing, Ahead, max_entries
<1>9. CASE PassOver
  <2>1. entry_num' \in Nat /\ entry_num' > entry_num /\ entry_num \in Nat \ {0}
    BY <1>1, <1>2, <1>9 DEF PassOver, TypeOK
  <2>2. TypeOK'
    BY <1>1, <1>9, <2>1 DEF PassOver, TypeOK, reading, dealt
  <2>3. Ahead' \subseteq Ahead
    BY <1>9, <2>1 DEF PassOver, reading, Ahead, Dealing, max_entries, Numbers
  <2> QED
    BY <1>9, <2>2, <2>3, SameBufferKeeps DEF PassOver, reading, Looping, Dealing
<1>10. CASE TakeMember
  <2>1. entry_num \in Numbers
    BY <1>1, <1>2, <1>10 DEF TakeMember, TypeOK, Numbers
  <2>2. TypeOK'
    BY <1>1, <1>10, <2>1 DEF TakeMember, TypeOK, reading
  <2>3. Ahead' \subseteq Ahead
    BY <1>10 DEF TakeMember, reading, Ahead, Dealing, max_entries
  <2> QED
    BY <1>10, <2>2, <2>3, SameBufferKeeps DEF TakeMember, reading, Looping, Dealing
<1>11. ASSUME NEW ok, Report(ok), Dealing, UNCHANGED <<file, reading, member>>,
              fpos' \in Nat, sectors_left' \in Nat, result' \in {0, 1}
       PROVE  IInv'
  <2>1. TypeOK'
    BY <1>1, <1>11 DEF Report, TypeOK, reading
  <2>2. Ahead' \subseteq Ahead
    BY <1>1, <1>11 DEF Report, reading, Ahead, Dealing, max_entries, Numbers, TypeOK
  <2> QED
    BY <1>11, <2>1, <2>2, SameBufferKeeps DEF Report, reading, Looping, Dealing
<1>12. CASE MakeFails \/ MakeEmpty \/ ReopenFails
  BY <1>1, <1>11, <1>12 DEF MakeFails, MakeEmpty, ReopenFails, Dealing, TypeOK
<1>13. CASE FillFails \/ CopyEnds
  BY <1>1, <1>11, <1>13 DEF FillFails, CopyEnds, Dealing, TypeOK
<1>14. CASE Reopen \/ SkipSector \/ FillStored \/ CopySector \/ WriteFails
  <2>1. member.index \in Nat /\ member.length \in Nat
    BY <1>1 DEF TypeOK, Entries
  <2>2. /\ Dealing /\ Dealing' /\ pc' \in {"skip", "copy"}
        /\ UNCHANGED <<file, reading, entry_num, member, dealt>>
    BY <1>14 DEF Reopen, SkipSector, FillStored, CopySector, WriteFails, Dealing
  <2>3. fpos' \in Nat /\ sectors_left' \in Nat /\ result' \in {0, 1}
    BY <1>1, <1>14, <2>1 DEF Reopen, SkipSector, FillStored, CopySector, WriteFails, TypeOK
  <2>4. TypeOK'
    BY <1>1, <2>2, <2>3 DEF TypeOK, reading, dealt
  <2>5. Ahead' \subseteq Ahead
    BY <2>2 DEF Ahead, reading, max_entries
  <2> QED
    BY <2>2, <2>4, <2>5, SameBufferKeeps DEF reading, Looping
<1>15. ASSUME NEW ok \in BOOLEAN, NEW upto \in 1 .. file.size, DecodeOther(ok, upto)
       PROVE  IInv'
  BY <1>1, <1>11, <1>15 DEF DecodeOther, DecodeMember, Dealing, reading, TypeOK
<1>16. ASSUME NEW ok \in BOOLEAN, NEW upto \in 1 .. file.size, DecodeCrunch(ok, upto)
       PROVE  IInv'
  <2>1. /\ DecodeMember(ok, upto) /\ Report(ok) /\ pc = "skip" /\ pc' = "entry"
        /\ entry_num' = entry_num + 1 /\ entry_num \in Nat \ {0}
        /\ UNCHANGED <<file, dir_sectors, k, member, sectors_left>>
    BY <1>1, <1>16 DEF DecodeCrunch, DecodeMember, Report, TypeOK
  <2>2. PICK n \in 0 .. StringEntries, text \in TextEntries : work' = Scribbled(n, text)
    BY <1>16 DEF DecodeCrunch
  <2>3. work' \in [Numbers -> Entries]
    BY <1>1, <2>2, LbrAssumption DEF Scribbled, TypeOK
  <2>4. result' \in {0, 1} /\ fpos' \in Nat /\ file_count' \in Nat
    BY <1>1, <2>1 DEF DecodeMember, Report, TypeOK
  <2>5. TypeOK'
    BY <1>1, <2>1, <2>3, <2>4 DEF TypeOK
  <2>6. ASSUME NEW e \in Ahead'
        PROVE  work'[e] = file.entry[e]
    <3>1. e \in Numbers /\ e \in Ahead /\ e >= 2
      BY <2>1, <2>6 DEF Ahead, Numbers, Dealing, max_entries
    <3>2. work'[e] = work[e]
      BY <2>2, <3>1 DEF Scribbled, Numbers
    <3> QED
      BY <1>1, <2>1, <3>1, <3>2 DEF DirectoryKept, Looping, Dealing
  <2> QED
    BY <2>1, <2>5, <2>6 DEF IInv, DirectoryKept
<1>17. CASE End
  BY <1>3, <1>17 DEF End
<1> QED
  BY <1>3, <1>4, <1>5, <1>6, <1>7, <1>8, <1>9, <1>10, <1>12, <1>13, <1>14, <1>15, <1>16, <1>17
     DEF Next, Step

(* The directory read into the work buffer (extract$lbr, src/plm/lbr.plm)  *)
(* lasts until its last entry, in every archive whose crunched strings all *)
(* fit 64 bytes: 32 for the directory's own entry and 32 for the first     *)
(* member's, which is taken before anything is decoded.                    *)
THEOREM DirectoryLasts ==
    ASSUME StringEntries <= 2
    PROVE  Spec => []DirectoryKept
<1>1. Init => IInv
  BY InitIInv
<1>2. IInv /\ [Next]_vars => IInv'
  BY NextIInv
<1>3. IInv => DirectoryKept
  BY DEF IInv
<1> QED
  BY <1>1, <1>2, <1>3, PTL DEF Spec

THEOREM LbrInvariant ==
    ASSUME StringEntries <= 2
    PROVE  Spec => []IInv
<1>1. Init => IInv
  BY InitIInv
<1>2. IInv /\ [Next]_vars => IInv'
  BY NextIInv
<1> QED
  BY <1>1, <1>2, PTL DEF Spec
-----------------------------------------------------------------------------
(* What the runs' other invariants rest on: what is known of the histories *)
(* while the directory is read, of the entries gone through, and of the    *)
(* member being dealt with.                                                *)
Accounts == [entry : Numbers, ok : BOOLEAN, out : Seq(Int)]
HistoriesOK == listed \in Seq(Numbers) /\ reports \in Seq(Accounts) /\ out \in Seq(Int)

\* dir_sectors comes to be the sectors that are there of those claimed.
Reading ==
    /\ pc \in {"first", "directory"} => listed = <<>> /\ reports = <<>>
    /\ pc = "first" => fpos = 0 /\ file_count = 0
    /\ pc = "directory" => /\ ~NoLibrary /\ fpos = k /\ k <= file.size
                           /\ \/ dir_sectors = file.claimed
                              \/ dir_sectors < file.claimed /\ dir_sectors = k /\ k = file.size
    /\ Looping => \/ ~NoLibrary /\ max_entries = Present
                  \/ NoLibrary /\ max_entries = 0 /\ pc = "end"
    /\ pc = "end" => entry_num >= max_entries

\* The loop comes to an entry past no unused one, and to each once.
Passing ==
    Looping =>
      /\ entry_num < max_entries => \A d \in 1 .. entry_num - 1 : ~Is(d, "unused")
      /\ ToSet(listed) = Members \ Ahead
      /\ \A i \in DOMAIN listed : listed[i] < entry_num \/ (Dealing /\ listed[i] = entry_num)
      /\ \A i, j \in DOMAIN listed : i < j => listed[i] < listed[j]
      /\ Dealing => /\ entry_num < max_entries /\ member = file.entry[entry_num]
                    /\ listed # <<>> /\ listed[Len(listed)] = entry_num

Reported ==
    Looping =>
      /\ Len(reports) = IF Dealing THEN Len(listed) - 1 ELSE Len(listed)
      /\ \A i \in DOMAIN reports : reports[i].entry = listed[i]
      /\ file_count = Cardinality({i \in DOMAIN reports : reports[i].ok})

\* n sectors in a row, from the member's first.
Run(entry, n) == [i \in 1 .. n |-> (entry.index + i) - 1]
Copying ==
    /\ pc = "skip" => out = <<>> /\ (fpos < file.size => fpos + sectors_left = member.index)
    /\ pc = "copy" =>
          /\ out = Run(member, Len(out))
          /\ sectors_left # 0 => fpos = IF out = <<>> THEN member.index + 1
                                        ELSE member.index + Len(out)
          /\ result = 1 => Len(out) + sectors_left = member.length
    /\ StoredWhole

MembersInv == IInv /\ HistoriesOK /\ Reading /\ Passing /\ Reported /\ Copying

-----------------------------------------------------------------------------
\* Every step is one of these, as far as the histories are concerned.
Within == /\ (Looping <=> Looping') /\ (Dealing <=> Dealing')
          /\ (pc = "end" <=> pc' = "end")
          /\ UNCHANGED <<file, dir_sectors, entry_num, dealt>>
          /\ Dealing => member' = member
ReportStep(ok) == /\ Dealing /\ Report(ok)
                  /\ UNCHANGED <<file, dir_sectors, member>>
Kinds == \/ ReadFirst \/ Refuse \/ ReadDirectory \/ StartEntries
         \/ NoMore \/ PassOver \/ TakeMember
         \/ Looping /\ Within
         \/ UNCHANGED vars
         \/ \E ok \in BOOLEAN : ReportStep(ok)

LEMMA KindsOfStep == TypeOK /\ [Next]_vars => Kinds
<1> SUFFICES ASSUME TypeOK, [Next]_vars PROVE Kinds
  OBVIOUS
<1>1. CASE ReadFirst \/ Refuse \/ ReadDirectory \/ StartEntries \/ NoMore \/ PassOver \/ TakeMember
  BY <1>1 DEF Kinds
<1>2. CASE MakeFails \/ MakeEmpty \/ ReopenFails \/ FillFails
  BY <1>2 DEF MakeFails, MakeEmpty, ReopenFails, FillFails, Kinds, ReportStep, Dealing, reading
<1>3. CASE CopyEnds
  <2>1. ReportStep(result = 1)
    BY <1>3 DEF CopyEnds, ReportStep, Dealing, reading
  <2> QED
    BY <2>1 DEF Kinds
<1>4. CASE Reopen \/ SkipSector \/ FillStored \/ CopySector \/ WriteFails
  BY <1>4 DEF Reopen, SkipSector, FillStored, CopySector, WriteFails, Kinds, Within, Looping,
              Dealing, reading
<1>5. CASE UNCHANGED vars \/ End
  BY <1>5 DEF End, Kinds
<1>6. ASSUME NEW ok \in BOOLEAN, NEW upto \in 1 .. file.size,
             DecodeCrunch(ok, upto) \/ DecodeOther(ok, upto)
      PROVE  Kinds
  BY <1>6 DEF DecodeCrunch, DecodeOther, DecodeMember, Kinds, ReportStep, Dealing
<1> QED
  BY <1>1, <1>2, <1>3, <1>4, <1>5, <1>6 DEF Next, Step

LEMMA InitMembersInv == Init => MembersInv
<1> SUFFICES ASSUME Init PROVE MembersInv
  OBVIOUS
<1>1. IInv
  BY InitIInv
<1>2. HistoriesOK
  BY DEF Init, HistoriesOK
<1>3. Reading /\ Passing /\ Reported /\ Copying
  BY DEF Init, Reading, Passing, Reported, Copying, StoredWhole, Looping, Dealing
<1> QED
  BY <1>1, <1>2, <1>3 DEF MembersInv

LEMMA HistoriesKept == MembersInv /\ [Next]_vars => HistoriesOK'
<1> SUFFICES ASSUME MembersInv, [Next]_vars PROVE HistoriesOK'
  OBVIOUS
<1>1. TypeOK /\ HistoriesOK /\ Passing /\ max_entries \in Nat /\ max_entries <= Room
  BY MaxInRoom DEF MembersInv, IInv, TypeOK
<1>2. entry_num \in Nat \ {0} /\ fpos \in Nat
  BY <1>1 DEF TypeOK
<1>3. out' \in Seq(Int)
  <2>1. \/ out' = out \/ out' = <<>> \/ out' = <<fpos - 1>>
        \/ out' = Append(out, fpos) \/ out' = Decoded
    BY DEF Next, Step, ReadFirst, Refuse, ReadDirectory, StartEntries, NoMore, PassOver,
           TakeMember, MakeFails, MakeEmpty, Reopen, ReopenFails, SkipSector, FillFails,
           FillStored, CopySector, WriteFails, CopyEnds, DecodeCrunch, DecodeOther,
           DecodeMember, End, vars
  <2>2. fpos - 1 \in Int /\ -1 \in Int /\ fpos \in Int
    BY <1>2
  <2>3. <<>> \in Seq(Int) /\ \A x \in Int : <<x>> \in Seq(Int)
    OBVIOUS
  <2>4. out' = Decoded => out' \in Seq(Int)
    BY <2>2, <2>3 DEF Decoded
  <2>5. out' = <<fpos - 1>> => out' \in Seq(Int)
    BY <2>2, <2>3
  <2>6. out' = Append(out, fpos) => out' \in Seq(Int)
    BY <1>1, <2>2 DEF HistoriesOK
  <2> QED
    BY <1>1, <2>1, <2>3, <2>4, <2>5, <2>6 DEF HistoriesOK
<1>4. \/ UNCHANGED <<listed, reports>>
      \/ TakeMember
      \/ \E ok \in BOOLEAN : ReportStep(ok)
  BY <1>1, KindsOfStep DEF Kinds, ReadFirst, Refuse, ReadDirectory, StartEntries, NoMore,
                           PassOver, Within, vars, dealt
<1>5. CASE UNCHANGED <<listed, reports>>
  BY <1>1, <1>3, <1>5 DEF HistoriesOK
<1>6. CASE TakeMember
  <2>1. entry_num \in Numbers
    BY <1>1, <1>2, <1>6, Constants DEF TakeMember, Numbers
  <2> QED
    BY <1>1, <1>3, <1>6, <2>1 DEF HistoriesOK, TakeMember
<1>7. ASSUME NEW ok \in BOOLEAN, ReportStep(ok)
      PROVE  HistoriesOK'
  <2>1. entry_num \in Numbers
    BY <1>1, <1>2, <1>7, Constants DEF ReportStep, Passing, Looping, Numbers
  <2>2. [entry |-> entry_num, ok |-> ok, out |-> out'] \in Accounts
    BY <1>3, <2>1 DEF Accounts
  <2> QED
    BY <1>1, <1>3, <1>7, <2>2 DEF HistoriesOK, ReportStep, Report
<1> QED
  BY <1>4, <1>5, <1>6, <1>7

LEMMA ReadingKept == MembersInv /\ [Next]_vars => Reading'
<1> SUFFICES ASSUME MembersInv, [Next]_vars PROVE Reading'
  OBVIOUS
<1>1. /\ TypeOK /\ Reading /\ Passing
      /\ pc = "first" => dir_sectors = 0
      /\ pc = "directory" => k <= dir_sectors
  BY DEF MembersInv, IInv
<1>2. /\ file.size \in Nat /\ file.claimed \in Nat /\ k \in Nat /\ fpos \in Nat
      /\ dir_sectors \in 0 .. MaxDirSectors /\ entry_num \in Nat \ {0}
      /\ PerSector \in Nat \ {0} /\ MaxDirSectors \in Nat \ {0}
  BY <1>1, Constants DEF TypeOK
<1>3. max_entries \in Nat
  BY <1>2, MaxInRoom
<1>4. CASE ReadFirst
  <2>1. ~NoLibrary
    BY <1>1, <1>2, <1>4 DEF ReadFirst, BadFirst, AtEnd, NoLibrary, Is, Reading
  <2> QED
    BY <1>1, <1>2, <1>4, <2>1
       DEF ReadFirst, BadFirst, AtEnd, Reading, NoLibrary, Is, Looping, Dealing, dealt
<1>5. CASE Refuse
  <2>1. NoLibrary
    BY <1>1, <1>2, <1>5 DEF Refuse, BadFirst, AtEnd, NoLibrary, Is, Reading
  <2>2. max_entries = 0
    BY <1>1, <1>2, <1>5 DEF Refuse, max_entries
  <2> QED
    BY <1>2, <1>5, <2>1, <2>2 DEF Refuse, Reading, NoLibrary, Is, max_entries, reading
<1>6. CASE ReadDirectory
  <2> USE DEF ReadDirectory, Reading
  <2>1. pc' = "directory" /\ listed' = <<>> /\ reports' = <<>> /\ file' = file /\ ~NoLibrary
    BY <1>1, <1>6 DEF dealt
  <2>2. /\ fpos' = k' /\ k' <= file.size
        /\ \/ dir_sectors' = file.claimed
           \/ dir_sectors' < file.claimed /\ dir_sectors' = k' /\ k' = file.size
    BY <1>1, <1>2, <1>6 DEF AtEnd
  <2> QED
    BY <2>1, <2>2 DEF NoLibrary, Is, Looping, Dealing
<1>7. CASE StartEntries
  <2>1. /\ ~NoLibrary /\ dir_sectors = Least(file.claimed, file.size)
        /\ file.claimed <= MaxDirSectors
    BY <1>1, <1>2, <1>7 DEF StartEntries, Reading, Least, NoLibrary
  <2>2. max_entries = Present
    BY <1>2, <2>1 DEF max_entries, Present, Least
  <2> QED
    BY <1>7, <2>1, <2>2 DEF StartEntries, Reading, NoLibrary, Is, Present, max_entries, reading
<1>8. CASE NoMore
  BY <1>1, <1>8 DEF NoMore, Reading, NoLibrary, Is, Present, max_entries, reading, Looping, Dealing
<1>9. CASE PassOver \/ TakeMember
  BY <1>1, <1>9 DEF PassOver, TakeMember, Reading, NoLibrary, Is, Present, max_entries, reading,
                    Looping, Dealing
<1>10. CASE Looping /\ Within
  BY <1>1, <1>10 DEF Within, Reading, NoLibrary, Is, Present, max_entries, dealt, Looping, Dealing
<1>11. CASE UNCHANGED vars
  BY <1>1, <1>11 DEF vars, Reading, NoLibrary, Is, Present, max_entries, reading, dealt, Looping,
                     Dealing
<1>12. ASSUME NEW ok \in BOOLEAN, ReportStep(ok)
       PROVE  Reading'
  BY <1>1, <1>12 DEF ReportStep, Report, Reading, NoLibrary, Is, Present, max_entries, Looping,
                     Dealing
<1> QED
  BY <1>1, <1>4, <1>5, <1>6, <1>7, <1>8, <1>9, <1>10, <1>11, <1>12, KindsOfStep DEF Kinds

LEMMA RangeOfAppend ==
    ASSUME NEW S, NEW s \in Seq(S), NEW x
    PROVE  ToSet(Append(s, x)) = ToSet(s) \union {x}
<1>1. /\ DOMAIN Append(s, x) = 1 .. Len(s) + 1 /\ DOMAIN s = 1 .. Len(s) /\ Len(s) \in Nat
      /\ \A i \in 1 .. Len(s) : Append(s, x)[i] = s[i]
      /\ Append(s, x)[Len(s) + 1] = x
  OBVIOUS
<1> QED
  BY <1>1 DEF ToSet

\* What is a member depends on the archive alone.
LEMMA MembersFixed == UNCHANGED file => Members' = Members
BY DEF Members, Is, NoLibrary, Present

\* At an unused entry no member is ahead.
LEMMA UnusedEndsMembers ==
    ASSUME TypeOK, Is(entry_num, "unused")
    PROVE  Members \intersect Ahead = {}
<1>1. ASSUME NEW e \in Members, e \in Ahead
      PROVE  FALSE
  <2>1. entry_num \in 1 .. e
    BY <1>1 DEF TypeOK, Ahead, Numbers
  <2> QED
    BY <1>1, <2>1 DEF Members
<1> QED
  BY <1>1

LEMMA PassingKept == MembersInv /\ Reading' /\ [Next]_vars => Passing'
<1> SUFFICES ASSUME MembersInv, Reading', [Next]_vars PROVE Passing'
  OBVIOUS
<1>1. /\ TypeOK /\ DirectoryKept /\ HistoriesOK /\ Reading /\ Passing
      /\ max_entries \in Nat /\ max_entries <= Room
  BY MaxInRoom DEF MembersInv, IInv, TypeOK
<1>2. entry_num \in Nat \ {0} /\ listed \in Seq(Numbers) /\ Room \in Nat
  BY <1>1, Constants DEF TypeOK, HistoriesOK
<1>13. \A i \in DOMAIN listed : listed[i] \in Nat
  BY <1>2 DEF Numbers
<1>3. ASSUME pc = "entry", entry_num < max_entries
      PROVE  /\ entry_num \in Ahead /\ work[entry_num] = file.entry[entry_num]
             /\ ~NoLibrary /\ max_entries = Present
  BY <1>1, <1>2, <1>3 DEF Ahead, Numbers, Dealing, Looping, DirectoryKept, Reading
<1>4. CASE ReadFirst \/ ReadDirectory
  BY <1>4 DEF ReadFirst, ReadDirectory, Passing, Looping, Dealing
<1>5. CASE Refuse \/ StartEntries
  <2>1. listed' = <<>> /\ UNCHANGED file /\ Looping' /\ ~Dealing' /\ max_entries' = max_entries
    BY <1>1, <1>5 DEF Refuse, StartEntries, Reading, reading, dealt, Looping, Dealing, max_entries
  <2>2. Members \ Ahead' = {}
    <3>1. CASE Refuse
      <4>1. max_entries' = 0 /\ Looping' /\ file' = file
        BY <1>2, <2>1, <3>1, Constants DEF Refuse, MembersInv, IInv, max_entries
      <4>2. NoLibrary \/ Present = 0
        BY <4>1 DEF Reading, NoLibrary, Is, Present
      <4> QED
        BY <4>2 DEF Members
    <3>2. CASE StartEntries
      BY <1>1, <1>2, <1>5, <2>1, <3>2 DEF Reading, StartEntries, Members, Ahead, Numbers, Present
    <3> QED
      BY <1>5, <3>1, <3>2
  <2>3. entry_num' < max_entries' => entry_num' = 1
    <3>1. Refuse => entry_num' \in Nat \ {0} /\ pc' = "end" /\ max_entries' \in Nat
      BY <1>1, <1>2, <2>1 DEF Refuse
    <3> QED
      BY <1>5, <3>1 DEF StartEntries, Reading
  <2> QED
    BY <1>2, <2>1, <2>2, <2>3, MembersFixed DEF Passing, ToSet
<1>6. CASE NoMore
  <2>1. Ahead' = Ahead /\ UNCHANGED <<file, listed, entry_num>> /\ ~Dealing /\ ~Dealing' /\ Looping
        /\ max_entries' = max_entries
    BY <1>6 DEF NoMore, Ahead, Dealing, Looping, dealt, reading, max_entries
  <2> QED
    BY <1>1, <1>6, <2>1, MembersFixed DEF Passing, NoMore, Is
<1>7. CASE PassOver
  <2>1. /\ pc = "entry" /\ pc' = "entry" /\ entry_num < max_entries /\ UNCHANGED <<file, listed>>
        /\ file.entry[entry_num].status # "active" /\ max_entries' = max_entries
        /\ entry_num' = IF Is(entry_num, "unused") THEN max_entries ELSE entry_num + 1
    BY <1>3, <1>7 DEF PassOver, dealt, reading, max_entries, Is
  <2>2. Members \ Ahead' = Members \ Ahead
    <3>1. CASE Is(entry_num, "unused")
      <4>1. Ahead' = {}
        BY <1>1, <2>1, <3>1 DEF Ahead, Numbers
      <4> QED
        BY <1>1, <3>1, <4>1, UnusedEndsMembers
    <3>2. CASE ~Is(entry_num, "unused")
      <4>1. Ahead' = Ahead \ {entry_num}
        BY <1>2, <2>1, <3>2 DEF Ahead, Numbers, Dealing
      <4> QED
        BY <2>1, <4>1 DEF Members, Is
    <3> QED
      BY <3>1, <3>2
  <2>3. entry_num' < max_entries' => \A d \in 1 .. entry_num' - 1 : ~Is(d, "unused")
    BY <1>1, <1>2, <2>1 DEF Passing, Looping
  <2>4. entry_num' >= entry_num /\ entry_num' \in Nat
    BY <1>1, <1>2, <2>1
  <2>5. \A i \in DOMAIN listed : listed[i] < entry_num'
    BY <1>1, <1>2, <1>13, <2>1, <2>4 DEF Passing, Looping, Dealing
  <2> QED
    BY <1>1, <2>1, <2>2, <2>3, <2>5, MembersFixed DEF Passing, Looping, Dealing, Is
<1>8. CASE TakeMember
  <2>1. /\ pc = "entry" /\ pc' = "make" /\ entry_num < max_entries /\ UNCHANGED <<file, entry_num>>
        /\ Is(entry_num, "active") /\ max_entries' = max_entries
        /\ listed' = Append(listed, entry_num) /\ member' = file.entry[entry_num]
    BY <1>3, <1>8 DEF TakeMember, reading, max_entries, Is
  <2>2. /\ Looping /\ ~Dealing /\ Looping' /\ Dealing'
        /\ \A d \in 1 .. entry_num - 1 : ~Is(d, "unused")
        /\ \A i \in DOMAIN listed : listed[i] < entry_num
    BY <1>1, <2>1 DEF Passing, Looping, Dealing
  <2>3. entry_num \in Members
    BY <1>1, <1>2, <1>3, <2>1, <2>2 DEF Members, Is
  <2>4. Members \ Ahead' = (Members \ Ahead) \union {entry_num}
    <3>1. Ahead' = Ahead \ {entry_num}
      BY <1>2, <2>1, <2>2 DEF Ahead, Numbers
    <3> QED
      BY <1>3, <2>1, <2>3, <3>1
  <2>5. ToSet(listed') = Members' \ Ahead'
    BY <1>1, <1>2, <2>1, <2>2, <2>4, RangeOfAppend, MembersFixed DEF Passing
  <2>6. /\ DOMAIN listed' = 1 .. Len(listed) + 1 /\ DOMAIN listed = 1 .. Len(listed)
        /\ Len(listed) \in Nat /\ Len(listed') = Len(listed) + 1
        /\ \A i \in 1 .. Len(listed) : listed'[i] = listed[i]
        /\ listed'[Len(listed) + 1] = entry_num
    BY <1>2, <2>1 DEF Numbers
  <2>7. /\ \A i \in DOMAIN listed' : listed'[i] < entry_num \/ listed'[i] = entry_num
        /\ \A i, j \in DOMAIN listed' : i < j => listed'[i] < listed'[j]
    <3>1. \A i, j \in DOMAIN listed : i < j => listed[i] < listed[j]
      BY <1>1, <2>2 DEF Passing
    <3> QED
      BY <1>2, <2>2, <2>6, <3>1
  <2>8. listed' # <<>> /\ listed'[Len(listed')] = entry_num
    BY <2>6
  <2> QED
    BY <2>1, <2>2, <2>5, <2>7, <2>8 DEF Passing, Is
<1>9. CASE Looping /\ Within
  BY <1>1, <1>9, MembersFixed DEF Within, Passing, Ahead, Is, dealt, max_entries
<1>10. CASE UNCHANGED vars
  BY <1>1, <1>10, MembersFixed DEF vars, Passing, Ahead, Is, dealt, reading, max_entries, Looping,
                                   Dealing
<1>11. ASSUME NEW ok \in BOOLEAN, ReportStep(ok)
       PROVE  Passing'
  <2>1. /\ Looping /\ Dealing /\ Looping' /\ ~Dealing' /\ UNCHANGED <<file, listed>>
        /\ entry_num' = entry_num + 1 /\ max_entries' = max_entries /\ entry_num < max_entries
    BY <1>1, <1>11 DEF ReportStep, Report, Looping, Dealing, max_entries, Passing
  <2>2. Ahead' = Ahead
    BY <1>2, <2>1 DEF Ahead, Numbers
  <2>3. /\ ToSet(listed) = Members \ Ahead
        /\ \A i \in DOMAIN listed : listed[i] < entry_num + 1
        /\ \A i, j \in DOMAIN listed : i < j => listed[i] < listed[j]
    BY <1>1, <1>2, <1>13, <2>1 DEF Passing
  <2>4. ~Is(entry_num, "unused")
    <3>1. entry_num \in ToSet(listed)
      BY <1>1, <1>2, <2>1 DEF Passing, ToSet
    <3> QED
      BY <2>3, <3>1 DEF Members, Is
  <2>5. \A d \in 1 .. entry_num' - 1 : ~Is(d, "unused")
    BY <1>1, <1>2, <2>1, <2>4 DEF Passing
  <2> QED
    BY <2>1, <2>2, <2>3, <2>5, MembersFixed DEF Passing, Is
<1>12. TypeOK /\ [Next]_vars
  BY <1>1
<1> QED
  BY <1>4, <1>5, <1>6, <1>7, <1>8, <1>9, <1>10, <1>11, <1>12, KindsOfStep DEF Kinds

\* One more report, one more of those that are OK if it is.
LEMMA CountOfAppend ==
    ASSUME NEW s \in Seq(Accounts), NEW r \in Accounts
    PROVE  LET OKs(t) == {i \in DOMAIN t : t[i].ok}
           IN  Cardinality(OKs(Append(s, r)))
                 = IF r.ok THEN Cardinality(OKs(s)) + 1 ELSE Cardinality(OKs(s))
<1> DEFINE OKs(t) == {i \in DOMAIN t : t[i].ok}
<1>1. /\ DOMAIN Append(s, r) = 1 .. Len(s) + 1 /\ DOMAIN s = 1 .. Len(s) /\ Len(s) \in Nat
      /\ \A i \in 1 .. Len(s) : Append(s, r)[i] = s[i]
      /\ Append(s, r)[Len(s) + 1] = r
  OBVIOUS
<1>2. IsFiniteSet(OKs(s))
  <2>1. IsFiniteSet(1 .. Len(s))
    BY <1>1, FS_Interval
  <2> QED
    BY <1>1, <2>1, FS_Subset
<1>3. OKs(Append(s, r)) = IF r.ok THEN OKs(s) \union {Len(s) + 1} ELSE OKs(s)
  BY <1>1
<1>4. Len(s) + 1 \notin OKs(s)
  BY <1>1
<1> QED
  BY <1>2, <1>3, <1>4, FS_AddElement

LEMMA ReportedKept == MembersInv /\ [Next]_vars => Reported'
<1> SUFFICES ASSUME MembersInv, [Next]_vars PROVE Reported'
  OBVIOUS
<1>1. TypeOK /\ HistoriesOK /\ Reading /\ Passing /\ Reported
  BY DEF MembersInv, IInv
<1>2. listed \in Seq(Numbers) /\ reports \in Seq(Accounts) /\ entry_num \in Nat
  BY <1>1 DEF TypeOK, HistoriesOK
<1>3. /\ DOMAIN reports = 1 .. Len(reports) /\ Len(reports) \in Nat
      /\ DOMAIN listed = 1 .. Len(listed) /\ Len(listed) \in Nat
  BY <1>2
<1>4. CASE ReadFirst \/ ReadDirectory
  BY <1>4 DEF ReadFirst, ReadDirectory, Reported, Looping, Dealing
<1>5. CASE Refuse \/ StartEntries
  <2>1. listed' = <<>> /\ reports' = <<>> /\ ~Dealing' /\ file_count' = 0
    <3>1. CASE Refuse
      BY <1>1, <3>1 DEF Refuse, Reading, MembersInv, dealt, Dealing
    <3>2. CASE StartEntries
      BY <1>1, <3>2 DEF StartEntries, Reading, Dealing
    <3> QED
      BY <1>5, <3>1, <3>2
  <2>2. {i \in DOMAIN reports' : reports'[i].ok} = {}
    BY <2>1
  <2> QED
    BY <2>1, <2>2, FS_EmptySet DEF Reported
<1>6. CASE NoMore \/ PassOver
  BY <1>1, <1>6 DEF NoMore, PassOver, Reported, Looping, Dealing, dealt
<1>7. CASE TakeMember
  BY <1>1, <1>2, <1>3, <1>7 DEF TakeMember, Reported, Looping, Dealing
<1>8. CASE Looping /\ Within
  BY <1>1, <1>8 DEF Within, Reported, dealt
<1>9. CASE UNCHANGED vars
  BY <1>1, <1>9 DEF vars, Reported, Looping, Dealing, dealt
<1>10. ASSUME NEW ok \in BOOLEAN, ReportStep(ok)
       PROVE  Reported'
  <2> DEFINE r == [entry |-> entry_num, ok |-> ok, out |-> out']
  <2>1. /\ Looping /\ Dealing /\ Looping' /\ ~Dealing' /\ listed' = listed
        /\ reports' = Append(reports, r)
        /\ file_count' = IF ok THEN file_count + 1 ELSE file_count
    BY <1>10 DEF ReportStep, Report, Looping, Dealing
  <2>2. /\ Len(listed) = Len(reports) + 1 /\ listed[Len(listed)] = entry_num
        /\ \A i \in DOMAIN reports : reports[i].entry = listed[i]
        /\ file_count = Cardinality({i \in DOMAIN reports : reports[i].ok})
    BY <1>1, <2>1 DEF Reported, Passing
  <2>3. r \in Accounts
    <3>1. entry_num \in Numbers
      BY <1>2, <1>3, <2>2
    <3>2. out' \in Seq(Int)
      BY HistoriesKept DEF HistoriesOK
    <3> QED
      BY <3>1, <3>2 DEF Accounts
  <2>4. file_count' = Cardinality({i \in DOMAIN reports' : reports'[i].ok})
    BY <1>2, <2>1, <2>2, <2>3, CountOfAppend
  <2>5. /\ Len(reports') = Len(reports) + 1
        /\ \A i \in DOMAIN reports' : reports'[i].entry = listed[i]
    <3>1. /\ DOMAIN reports' = 1 .. Len(reports) + 1 /\ Len(reports') = Len(reports) + 1
          /\ \A i \in 1 .. Len(reports) : reports'[i] = reports[i]
          /\ reports'[Len(reports) + 1] = r
      BY <1>2, <2>1, <2>3
    <3> QED
      BY <1>3, <2>2, <3>1
  <2> QED
    BY <1>3, <2>1, <2>2, <2>4, <2>5 DEF Reported
<1> QED
  BY <1>1, <1>4, <1>5, <1>6, <1>7, <1>8, <1>9, <1>10, KindsOfStep DEF Kinds

LEMMA RunGrows ==
    ASSUME NEW entry \in Entries, NEW n \in Nat
    PROVE  /\ Run(entry, 0) = <<>>
           /\ Run(entry, 1) = <<entry.index>>
           /\ Len(Run(entry, n)) = n
           /\ Append(Run(entry, n), entry.index + n) = Run(entry, n + 1)
<1>1. entry.index \in Nat
  BY DEF Entries
<1>2. \A i \in Nat : (entry.index + i) - 1 \in Int
  BY <1>1
<1>3. \A m \in Nat : Run(entry, m) \in Seq(Int) /\ Len(Run(entry, m)) = m
  BY <1>2 DEF Run
<1>4. Run(entry, 0) = <<>>
  BY <1>3
<1>5. Run(entry, 1) = <<entry.index>>
  BY <1>1, <1>3 DEF Run
<1>6. Append(Run(entry, n), entry.index + n) = Run(entry, n + 1)
  <2> DEFINE a == Append(Run(entry, n), entry.index + n)
  <2>1. a \in Seq(Int) /\ Len(a) = n + 1 /\ Run(entry, n + 1) \in Seq(Int)
        /\ Len(Run(entry, n + 1)) = n + 1
    BY <1>1, <1>3
  <2>2. \A i \in 1 .. n + 1 : a[i] = Run(entry, n + 1)[i]
    BY <1>1, <1>3 DEF Run
  <2> QED
    BY <2>1, <2>2, SeqEqual
<1> QED
  BY <1>3, <1>4, <1>5, <1>6

\* A report that is true of the member, and of no other, keeps all of them.
LEMMA TrueReportKeeps ==
    ASSUME MembersInv, HistoriesOK', NEW ok \in BOOLEAN, ReportStep(ok),
           ok /\ out' # Decoded => out' = Run(member, member.length)
    PROVE  Copying'
<1>1. TypeOK /\ HistoriesOK /\ Passing /\ StoredWhole
  BY DEF MembersInv, IInv, Copying
<1> DEFINE r == [entry |-> entry_num, ok |-> ok, out |-> out']
<1>2. /\ reports' = Append(reports, r) /\ UNCHANGED file /\ Dealing /\ Looping /\ pc' = "entry"
  BY DEF ReportStep, Report, Dealing, Looping
<1>3. member = file.entry[entry_num] /\ reports \in Seq(Accounts)
  BY <1>1, <1>2 DEF Passing, HistoriesOK
<1>4. /\ DOMAIN reports' = 1 .. Len(reports) + 1 /\ DOMAIN reports = 1 .. Len(reports)
      /\ Len(reports) \in Nat /\ reports'[Len(reports) + 1] = r
      /\ \A i \in 1 .. Len(reports) : reports'[i] = reports[i]
  BY <1>2, <1>3
<1>5. ASSUME NEW i \in DOMAIN reports', reports'[i].ok, reports'[i].out # Decoded
      PROVE  reports'[i].out = LET entry == file.entry[reports'[i].entry]
                               IN  Run(entry, entry.length)
  <2>1. CASE i = Len(reports) + 1
    BY <1>3, <1>4, <1>5, <2>1
  <2>2. CASE i \in DOMAIN reports
    BY <1>1, <1>4, <1>5, <2>2 DEF StoredWhole, Run
  <2> QED
    BY <1>4, <2>1, <2>2
<1>6. StoredWhole'
  BY <1>2, <1>5 DEF StoredWhole, Run
<1> QED
  BY <1>2, <1>6 DEF Copying

LEMMA CopyingKept == MembersInv /\ [Next]_vars => Copying'
<1> SUFFICES ASSUME MembersInv, [Next]_vars PROVE Copying'
  OBVIOUS
<1>1. TypeOK /\ HistoriesOK /\ Passing /\ Copying /\ StoredWhole
  BY DEF MembersInv, IInv, Copying
<1>2. /\ member \in Entries /\ member.index \in Nat /\ member.length \in Nat
      /\ fpos \in Nat /\ sectors_left \in Nat /\ file.size \in Nat /\ result \in {0, 1}
      /\ out \in Seq(Int) /\ Len(out) \in Nat
  BY <1>1 DEF TypeOK, Entries, HistoriesOK
<1>3. HistoriesOK'
  BY HistoriesKept
<1>4. ASSUME UNCHANGED <<file, reports>> PROVE StoredWhole'
  BY <1>1, <1>4 DEF StoredWhole
<1>5. CASE \/ ReadFirst \/ Refuse \/ ReadDirectory \/ StartEntries
           \/ NoMore \/ PassOver \/ TakeMember
  <2>1. UNCHANGED <<file, reports>> /\ pc' \notin {"skip", "copy"}
    BY <1>5 DEF ReadFirst, Refuse, ReadDirectory, StartEntries, NoMore, PassOver, TakeMember, dealt
  <2> QED
    BY <1>4, <2>1 DEF Copying
<1>6. CASE Reopen
  BY <1>2, <1>4, <1>6 DEF Reopen, Copying, dealt
<1>7. CASE SkipSector
  <2>1. /\ pc' = "skip" /\ out' = <<>> /\ UNCHANGED <<file, reports, member>>
        /\ sectors_left # 0 /\ sectors_left' = sectors_left - 1
        /\ fpos' = IF AtEnd THEN fpos ELSE fpos + 1
        /\ fpos < file.size => fpos + sectors_left = member.index
    BY <1>1, <1>7 DEF SkipSector, Copying, dealt
  <2> QED
    BY <1>2, <1>4, <2>1 DEF Copying, AtEnd
<1>8. CASE FillStored
  <2>1. /\ pc' = "copy" /\ out' = <<>> /\ UNCHANGED <<file, reports, member>>
        /\ sectors_left' = member.length /\ fpos' = fpos + 1 /\ fpos = member.index
    BY <1>1, <1>2, <1>8 DEF FillStored, Copying, dealt, AtEnd
  <2>2. Len(out') = 0 /\ out' = Run(member, 0)
    BY <1>2, <2>1, RunGrows
  <2> QED
    BY <1>2, <1>4, <2>1, <2>2 DEF Copying
<1>9. CASE CopySector \/ WriteFails
  <2>1. /\ pc = "copy" /\ pc' = "copy" /\ sectors_left # 0 /\ UNCHANGED <<file, reports, member>>
    BY <1>9 DEF CopySector, WriteFails, dealt
  <2>2. /\ out = Run(member, Len(out))
        /\ fpos = IF out = <<>> THEN member.index + 1 ELSE member.index + Len(out)
        /\ result = 1 => Len(out) + sectors_left = member.length
    BY <1>1, <2>1 DEF Copying
  <2>3. CASE out' = out /\ sectors_left' = 0 /\ result' = 0
    BY <1>2, <1>4, <2>1, <2>2, <2>3 DEF Copying
  <2>4. CASE /\ out = <<>> /\ out' = <<fpos - 1>> /\ sectors_left' = sectors_left - 1
             /\ UNCHANGED <<fpos, result>>
    <3>1. Len(out) = 0 /\ fpos - 1 = member.index
      BY <1>2, <2>2, <2>4
    <3>2. out' = Run(member, 1) /\ Len(out') = 1 /\ out' # <<>>
      BY <1>2, <2>4, <3>1, RunGrows
    <3> QED
      BY <1>2, <1>4, <2>1, <2>2, <2>4, <3>1, <3>2 DEF Copying
  <2>5. CASE /\ out # <<>> /\ out' = Append(out, fpos) /\ fpos' = fpos + 1
             /\ sectors_left' = sectors_left - 1 /\ UNCHANGED result
    <3>1. fpos = member.index + Len(out)
      BY <2>2, <2>5
    <3>2. out' = Run(member, Len(out) + 1)
      BY <1>2, <2>2, <2>5, <3>1, RunGrows
    <3>3. Len(out') = Len(out) + 1 /\ out' # <<>>
      BY <1>2, <2>5
    <3>4. fpos' = member'.index + Len(out')
      <4>1. fpos' = (member.index + Len(out)) + 1
        BY <2>5, <3>1
      <4>2. \A index, n \in Nat : (index + n) + 1 = index + (n + 1)
        OBVIOUS
      <4> QED
        BY <1>2, <2>1, <3>3, <4>1, <4>2
    <3>5. result' = 1 => Len(out') + sectors_left' = member'.length
      BY <1>2, <2>1, <2>2, <2>5, <3>3
    <3>6. out' = Run(member', Len(out')) /\ StoredWhole'
      BY <1>4, <2>1, <3>2, <3>3
    <3> QED
      BY <2>1, <3>3, <3>4, <3>5, <3>6 DEF Copying
  <2> QED
    BY <1>9, <2>3, <2>4, <2>5 DEF CopySector, WriteFails
<1>10. CASE MakeFails \/ ReopenFails \/ FillFails
  <2>1. ReportStep(FALSE)
    BY <1>10 DEF MakeFails, ReopenFails, FillFails, ReportStep, Dealing, reading
  <2> QED
    BY <1>3, <2>1, TrueReportKeeps
<1>11. CASE MakeEmpty
  <2>1. ReportStep(TRUE) /\ out' = Run(member, member.length)
    BY <1>2, <1>11, RunGrows DEF MakeEmpty, ReportStep, Dealing, reading
  <2> QED
    BY <1>3, <2>1, TrueReportKeeps
<1>12. CASE CopyEnds
  <2>1. ReportStep(result = 1) /\ out' = out /\ pc = "copy" /\ sectors_left = 0
    BY <1>12 DEF CopyEnds, ReportStep, Dealing, reading
  <2>2. result = 1 => out = Run(member, member.length)
    BY <1>1, <1>2, <2>1 DEF Copying
  <2> QED
    BY <1>3, <2>1, <2>2, TrueReportKeeps
<1>13. ASSUME NEW ok \in BOOLEAN, NEW upto \in 1 .. file.size,
              DecodeCrunch(ok, upto) \/ DecodeOther(ok, upto)
       PROVE  Copying'
  <2>1. ReportStep(ok) /\ out' = Decoded
    BY <1>13 DEF DecodeCrunch, DecodeOther, DecodeMember, ReportStep, Dealing
  <2> QED
    BY <1>3, <2>1, TrueReportKeeps
<1>14. CASE UNCHANGED vars \/ End
  BY <1>1, <1>4, <1>14 DEF End, vars, Copying, dealt
<1> QED
  BY <1>5, <1>6, <1>7, <1>8, <1>9, <1>10, <1>11, <1>12, <1>13, <1>14 DEF Next, Step

LEMMA NextMembersInv ==
    ASSUME StringEntries <= 2
    PROVE  MembersInv /\ [Next]_vars => MembersInv'
<1>1. MembersInv /\ [Next]_vars => IInv'
  BY NextIInv DEF MembersInv
<1> QED
  BY <1>1, HistoriesKept, ReadingKept, PassingKept, ReportedKept, CopyingKept DEF MembersInv

LEMMA MembersInvHolds ==
    ASSUME StringEntries <= 2
    PROVE  Spec => []MembersInv
BY InitMembersInv, NextMembersInv, PTL DEF Spec
-----------------------------------------------------------------------------
(* Every member the directory lists is gone through once, in order, and    *)
(* reported (the loop of extract$lbr, src/plm/lbr.plm), in every archive   *)
(* whose crunched strings all fit 64 bytes.                                *)
THEOREM MembersGoneThrough ==
    ASSUME StringEntries <= 2
    PROVE  Spec => []EveryMemberOnce
<1>1. ASSUME MembersInv PROVE EveryMemberOnce
  <2> SUFFICES ASSUME Looping PROVE EveryMemberOnce
    BY DEF EveryMemberOnce
  <2>1. /\ ToSet(listed) = Members \ Ahead
        /\ \A i, j \in DOMAIN listed : i < j => listed[i] < listed[j]
        /\ Dealing => listed # <<>>
        /\ Len(reports) = IF Dealing THEN Len(listed) - 1 ELSE Len(listed)
        /\ \A i \in DOMAIN reports : reports[i].entry = listed[i]
        /\ file_count = Cardinality({i \in DOMAIN reports : reports[i].ok})
    BY <1>1 DEF MembersInv, Passing, Reported
  <2>2. listed \in Seq(Numbers) /\ reports \in Seq(Accounts) /\ TypeOK
    BY <1>1 DEF MembersInv, HistoriesOK, IInv
  <2>3. pc = "end" => Ahead = {}
    BY <1>1, <2>2, MaxInRoom DEF MembersInv, Reading, Ahead, Numbers, TypeOK
  <2>4. [i \in DOMAIN reports |-> reports[i].entry] = IF Dealing THEN Front(listed) ELSE listed
    <3>1. /\ DOMAIN reports = 1 .. Len(reports) /\ Len(listed) \in Nat
          /\ DOMAIN listed = 1 .. Len(listed)
          /\ listed = [i \in 1 .. Len(listed) |-> listed[i]]
      BY <2>2
    <3>2. CASE Dealing
      <4>1. Front(listed) = [i \in 1 .. Len(listed) - 1 |-> listed[i]]
        BY <2>1, <2>2, <3>1, <3>2 DEF Front
      <4> QED
        BY <2>1, <3>1, <3>2, <4>1
    <3>3. CASE ~Dealing
      BY <2>1, <3>1, <3>3
    <3> QED
      BY <3>2, <3>3
  <2> QED
    BY <2>1, <2>3, <2>4 DEF EveryMemberOnce
<1> QED
  BY <1>1, MembersInvHolds, PTL

(* A stored member said to be OK is all of its sectors, in order           *)
(* (extract$stored and fill$inbuf, src/plm/lbr.plm).                       *)
THEOREM StoredMembersWhole ==
    ASSUME StringEntries <= 2
    PROVE  Spec => []StoredWhole
<1>1. MembersInv => StoredWhole
  BY DEF MembersInv, Copying
<1> QED
  BY <1>1, MembersInvHolds, PTL

(* The Python tool (read_directory, src/un80/lbr.py) lists the same        *)
(* members as the CP/M program where no active entry follows an unused one *)
(* of the first sector.                                                    *)
THEOREM SameMembers ==
    ASSUME StringEntries <= 2
    PROVE  Spec => []SameMembersUnlessHole
<1>1. ASSUME MembersInv, pc = "end", ~Hole PROVE ToSet(listed) = PyMembers
  <2>1. TypeOK /\ Ahead = {} /\ ToSet(listed) = Members
    <3>1. TypeOK /\ Looping
      BY <1>1 DEF MembersInv, IInv, Looping
    <3>2. Ahead = {}
      BY <1>1, <3>1, MaxInRoom DEF MembersInv, Reading, Ahead, Numbers, TypeOK
    <3> QED
      BY <1>1, <3>1, <3>2 DEF MembersInv, Passing
  <2>2. Members \subseteq PyMembers
    BY DEF Members, PyMembers
  <2>3. ASSUME NEW e \in PyMembers PROVE e \in Members
    <3>1. /\ e \in 1 .. Present - 1 /\ ~NoLibrary /\ Is(e, "active")
          /\ \A d \in 1 .. e : (d < PerSector <=> e < PerSector) => ~Is(d, "unused")
      BY <2>3 DEF PyMembers
    <3>2. PerSector \in Nat /\ Present \in Nat
      BY <2>1, Constants, RoomHoldsDirectory DEF TypeOK, Present, Least
    <3>3. ASSUME NEW d \in 1 .. e, Is(d, "unused") PROVE FALSE
      <4>1. d < PerSector /\ ~(e < PerSector)
        BY <3>1, <3>2, <3>3
      <4>2. d \in 1 .. PerSector - 1 /\ e \in PerSector .. Present - 1
        BY <3>1, <3>2, <4>1
      <4> QED
        BY <1>1, <3>1, <3>3, <4>2 DEF Hole
    <3> QED
      BY <3>1, <3>3 DEF Members
  <2> QED
    BY <2>1, <2>2, <2>3
<1>2. MembersInv => SameMembersUnlessHole
  BY <1>1 DEF SameMembersUnlessHole
<1> QED
  BY <1>2, MembersInvHolds, PTL
=============================================================================
