# Verification of 80un

80un unpacks the archive and compression formats of CP/M (ARC, LBR, Squeeze,
Crunch V1 and V2, CrLZH). The repository holds it twice: as a CP/M program in
PL/M-80 (`src/src/plm/`, paths here are those of `PROJECT.json`) and as a Python
package with a command line tool (`src/src/un80/`). `src/README.md:12` promises
that "Both support the same formats and produce identical output". This directory
models both, in TLA+, checks them with TLC on small instances, and proves, with TLAPS
and for every size, every safety property of the runs: of the buffered input and output,
of the decoders on each side and of both together, of the ARC and LBR drivers, and of
naming and extraction.

Two questions run through everything:

* does a component do what it should in every order of calls, on every failing
  disk, on archives that are cut short, and at every limit of its tables, and
* do the two implementations agree, not only in the bytes of a whole archive
  but on each code, entry and name on the way.

Neither program has threads or messages. What is hard here is state that lives
across many calls (an input buffer with a limit, a dictionary that recycles its
entries, a tree rebuilt as it grows), memory shared between parts that are meant
never to be live together, failures in the middle of a member, and two programs
that hold the same thing in different data structures.

## 1. Inventory

| Component | Source | State | Operations | What is hard | What makes it correct |
|---|---|---|---|---|---|
| Buffered member input | `plm/io.plm` | `inbuf`, its position and end, the 32-bit limit in two words, `input$short` | `fill$inbuf`, `getbyte`, `peekbyte`, `input$avail`, `set$`/`clear$input$limit`, `skip$input`, reopening | five procedures refill and count, in any order; borrow between the words; end of file before end of member | hands out exactly the member's bytes, once, in order |
| Buffered output | `plm/io.plm` | `outbuf` and its position | `putbyte`, `flush$outbuf` | a record refused in the middle of a flush; padding | whole records of the right bytes |
| Bit readers, RLE90 | `plm/io.plm`, `un80/squeeze.py`, `un80/crunch.py` | bits left, last byte, marker seen | `read$bit$lsb`, `read$code$msb`, `rle$decode$byte` | a marker split over two symbols; bits past the end | same bytes as the Python code |
| ARC driver | `plm/arc.plm`, `un80/arc.py` | place in the archive, header fields, counts | `extract$arc`, `extract$arc$member` | every member can fail in five ways and the next header must still be found; truncated archives | no member lost; same members in both |
| ARC decoders | same | an LZW table, or none | stored, packed, squeezed, crunched (5 to 8), squashed (9) | ends of members, width changes | same output in both |
| Crunch V2 | `plm/crunch.plm`, `un80/crunch.py` | dictionary, hash table, used marks, width, recycling state | one code at a time: entry, unknown, reset, filler, end | recycling entries of a full dictionary; a code for the entry about to be made | a code keeps its meaning; same dictionary in both |
| Crunch V1 | same | LZW numbered by hash slot | one code at a time | chains in the table | same slot in both |
| LBR driver | `plm/lbr.plm`, `un80/lbr.py` | directory in WORK, entry number, sectors left | directory reading, loop over members | directory and decoder share memory; archive reopened for each member; every step can fail | every member once, whole, from its own sectors |
| CrLZH tree | `plm/lzh.plm`, `un80/crlzh.py` | `freq`, `son`, `prnt` | `init$tree`, `decode$char`, `update$tree`, `reconst` | three arrays change together; rebuild at the limit | a tree, in order, of right weights |
| CrLZH window, positions | same | 2K ring, position codes | decode loop | a match that overlaps what it writes; the ring goes round; two versions of a position | the ring is the output, matches come from the distance coded |
| Member names | `plm/names.plm`, `un80/cpm.py` | table of names made | `cpm$name`, `name$taken`, `reserve$name`; `safe_filename`, `unique_filename` | cut, cleaned and numbered names meet; the table fills | no member overwrites another or the archive |
| Squeeze | `plm/squeeze.plm`, `un80/squeeze.py` | Huffman tree from the file | header, tree, walk | trees that loop; symbols in the last byte | ends; same output |
| Headers | `plm/squeeze.plm`, `plm/crunch.plm`, `plm/lzh.plm` and the Python modules | place in the header, `input$short` | names, versions, node counts | a file cut anywhere in them | codes found at the same byte, decoded in the same way, or refused by both |
| Main program | `plm/main.plm` | memory layout, FCBs | detection, dispatch | regions laid over each other | nothing live aliased |
| Command line tool | `un80/cli.py`, and `extract_arc`, `extract_lbr` under it | names used, files written | detect, list, read members, write them | the archive is among the files written; a file may be there already; a write fails half way; `-n` | the exit status tells what is on the disk; every member is read whole |
| Text conversion | `un80/cpm.py` | none | file type from a name, `^Z` and CR/LF | an odd extension | a name keeps nothing from being extracted |
| MBASIC | `un80/bas.py`, `plm/bas.plm`, `plm/basmain.plm` | place in a line, the token before | lines, tokens, operands, spaces | a program cut anywhere; operands that look like tokens; words stored without spaces; bytes that are written, or left out, without being remembered | same lines; no word run into the one before it, no space put right after another, but for the named cases |

How they meet: the main program (or the CLI) detects a format and calls a driver;
a driver reads headers through the member input, asks Member names for a name,
creates a file and calls a decoder; a decoder pulls bytes from the member input
(under the limit the ARC or LBR driver set; a single compressed file has none) and pushes bytes,
often through RLE90, to the buffered output; the driver flushes, closes and goes
to the next member. All of it shares the memory that `main.plm:296-312` lays out;
WORK in particular is the LBR directory, and the place where every LZW decoder
turns a string round.

The hazards of each component, at their lines, are in `PROJECT.json` under
`hazards`, with the properties that would show them.

## 2. Modules

| Module | Models | Extends / instances |
|---|---|---|
| `MemberStream` | what the member input promises: a file, a place in it, a limit | — (abstract) |
| `MemberInput` | the buffered input as `io.plm` has it | refines `MemberStream` |
| `ArcExtract` | the ARC driver, and `extract_arc` as an operator | instances `MemberStream` for its reading |
| `CrunchHash` | code numbering and the open-addressed hash | — |
| `CrunchV2` | the PL/M dictionary and decoder | `CrunchHash` |
| `PyCrunchV2` | `_LzwTable` and `uncrunch_lzw` | `CrunchHash` |
| `CrunchV2Both` | the two on one stream | `CrunchV2`, `PyCrunchV2` |
| `LbrExtract` | the LBR driver, and `read_directory` as an operator | — |
| `LzhTree` | the CrLZH tree | — |
| `CpmNames` | naming on both sides | — |
| `Extraction` | a run of a program over an archive: the CP/M program's names, and the command line tool to its exit status | `CpmNames` |
| `OutputBuffer` | `putbyte`, `flush$outbuf` | — |
| `Unsqueeze` | stored, packed and squeezed decoders, RLE90, and the Python ones | `OutputBuffer` |
| `Lockstep` | the variables of two decoders side by side | — |
| `ArcLzw` | ARC's LZW methods 5 to 9, both sides | `Lockstep` |
| `CrunchV1` | the hash-numbered table, both sides | `Lockstep` |
| `CrLzh` | the ring, matches and positions of CrLZH | `Lockstep` |
| `MBasic` | the walk over lines and tokens, both sides | `Lockstep` |
| `Headers` | the headers of squeezed, crunched and CrLZH files, both sides | `Lockstep` |
| `Decoders` | one of these, picked for a file | `ArcLzw`, `CrunchV1`, `CrLzh`, `MBasic`, `Headers` |
| `*_proofs` | theorems | the module they are named after, `TLAPS` |
| `MC*` | constants for TLC | the module they are named after |

Correspondence with the code, module by module. `PROJECT.json` gives the lines of
each definition.

**MemberInput.** `inPos`, `inEnd` and `inbuf` are `inbuf$pos`, `inbuf$end` and the
buffer; the limit is `low` and `high`, words of base `W`, with the borrow of
`getbyte` written out. A byte is its own offset in the file, so that a property
can tell a right byte from a wrong one, and end of file is a `^Z`. One action
per procedure; `skip$input` is three, since it loops. What a call returned is in
`ret`, so the refinement is about results and not only places. `MemberStream` is
the same interface over a position and a count.

**ArcExtract.** The driver's loop, cut at each read: scan for a marker, take the
header (four bytes shorter for the old method), set the limit, create, decode,
skip what the decoder left, clear the limit, close, and report. Decoders are any
number of bytes read and any result; creating, writing and closing may fail. It
reads through `MemberStream`, which `MemberInput` is proved to implement, so the
buffer need not be there. An archive is a sequence of cells (marker, method, name,
size, original size, data), cut short at any cell: a real CP/M file ends at a
128-byte record, and any record end can fall at any cell. `Start[i]` is where the i-th
member begins; `Parse[o]` is the Python loop from offset `o` on.

**CrunchV2 / PyCrunchV2.** An action takes a code and does all the code does for
it: write the string, mark it used, add or recycle an entry, place it in the hash
table, widen. The dictionary is `prefix`, `suffix` and `used` up to `next`;
`replacing`, `state` and `threshold` are the bytes of `crunch.plm` that go through
0, 0FEH and 0FFH. `len` is a history variable: the length an entry had when it
was made. The Python table is one record, its entries a partial function, its
rules those of `crunch.py`, so nothing makes the two agree but the two codes.
`Walked` is the walk from a code back to its first byte, as far as there are entries:
each side calls it on its own table.
`CrunchV2Both` gives both the same code, any that a compressor could have written
there (`Streams`): none begins a stream with the entry about to be made.

**LbrExtract.** WORK is a function from entry numbers to directory entries; a
crunched member writes text over as many of the first entries as its longest
string covers. Reopening, skipping to the first sector, copying, and each failure
are actions of their own; the other decoders read some sectors and succeed or fail.

**LzhTree.** One action per turn of a loop: the descent, the climb with its swap,
and the three passes of `reconst` (gathering the leaves, connecting, reconnecting
the fathers). `InputEnds` is the end of the file: from then on `get_bit` gives zeros,
and a descent takes the lighter son each time. The arrays keep the code's numbering, the doubled links (`son`
plus `T` for a leaf) and the sentinel at `T`.

**CpmNames.** Names are sequences of characters; what happens to one character,
and the lengths, are constants. Bit 7 and the NUL at a name's end are gone
already. `Start` is `main` taking the archive's name if it is on the drive
written to; `MakeMember` names one member on CP/M, `PyMakeMember` on the host.

**Extraction.** `program` says which of the two runs. For `80un.com` these are the
actions of `CpmNames`. For `80un`, `pc` goes from detection (`Detect`, with the
format forced or found) through reading (`ReadMember` for each turn of `extract_arc`
and `extract_lbr`, `ReadFile` for a single file, `BadData` where a reader raises) to
writing (`Write` and `WriteFails` for each turn of `cmd_extract`). `disk` maps folded
names to which file's content is there, or which member's, so that overwriting the
archive and taking a member from what overwrote it are states.

**ArcLzw.** Each side keeps what the code keeps: strings in Python, prefixes and
suffixes up to the next code in PL/M. A code is chosen, among those either side can
tell apart, and both take it; then, where the data is cut, one side goes on alone:
PL/M finishes a code with the bits of a `^Z`, Python takes cut padding for codes.
`lzw$max$bits` starts as members before left it (`LzwLeft`), since methods 5 and 6
never set it.

**CrunchV1.** A table is a record of prefixes, suffixes, links, what is left and the
previous string. The two sides share the operators for what they do alike, and
differ in the hash, each with its own arithmetic and width. `in.text` is a history
variable: a slot's string when it was entered.

**CrLzh.** Literals, matches, the copy of one byte, the stop. A position is read as
`decode_position_v1` and `_v2` do it, from a byte, a table and further bits; the
bits themselves are kept as history, so that `LzhWindow` can take them apart
by the definition of the code instead of by the tables.

**MBasic.** A byte is one of the kinds that the two programs treat differently (a
word with a space after it, a constant with an operand of two bytes, a quote).
What is written is the kind again, with a `gap` where a space is put that was
not stored, and after a line's number. Python writes a tab as a space (`tab`, one of
`Spaces`), 1BH and 1EH as numbers, the other control bytes as escapes or a newline, and
a CR not at all; only the numbers change `prev_token`. 80UNBAS leaves all of these out
(`Skipped`). Neither knows some tokens and pairs of FFH (`unknown`, `unpair`), which are
written in brackets; they clear `prev_token` and count as a word for `prev$tok`. A line's
header, a byte with its operand, and the end of the file in the middle of a line are
the actions; `BasBuf` is the buffer of 80UNBAS.

`BasWords` says of each program what its spaces are good for. 80UNBAS runs no word into a
letter, a digit or a word before it, and writes no two spaces side by side; it puts a
space after `AND`, `MOD` and the like only ("let file provide spacing",
`plm/bas.plm:251`), so a `FOR` stored without one comes out as `FORI`, and nothing is
claimed of what follows a word there. In Python a word touches one before it only after
`TAB(` and `SPC(`, as `REMARK`, and as `AND` (`OR`, `XOR`, `EQV`) right after a word that
takes a space (`_needs_space_after` takes these for operators); a word that takes a space
is not run into by anything else that begins like a word; and no space is put right after
one that is written but a tab's. After the space it puts a tab may come, or a space
past a CR, and stored spaces are written as they are. Escapes and brackets are not taken for words or letters.

**Headers.** A byte of a name at a time, then the fields, which the file may end
before or after the one that tells. `apart` records what has made the two sides
part: a `^Z` in a name, or the end of the file.

**OutputBuffer / Unsqueeze.** A record of a flush can be refused at any point.
The decoders go bit by bit; the run of copies of an RLE count is a loop of its own,
since any of its bytes can fail. The tree is given (a file cut short in its tree
is refused before), the Python side is a pair of recursive functions on the data:
`RleFrom[i][prev]` is what `decode_rle` makes of the bytes from the i-th on, and
`SymbolsFrom[i][n]` the symbols from the i-th bit on at node n.

## 3. Runs

| Run | Asks | Bounds, and why they are enough |
|---|---|---|
| `member_input` | is every byte handed out once, in order, under every limit, and is it the abstract stream? `SkipEnds` under fairness of the loop | `W` 3, so a limit of 0 to 8 borrows twice; a 2-byte buffer over a 5-byte file, so members end in a buffer, at its end, and past the file. The code has `W` 65536 and a 128-byte (or 4K) buffer; both are parameters of the proof |
| `arc_extract` | is each header found whatever became of the member before, on whole and cut archives; does Python find the same members of a whole one? | two members of four kinds, every cut. What carries over from one member to the next does so between two; a third repeats it |
| `crunch_v2` | is the dictionary sound while codes widen and entries are recycled, the same in both, and do both write the same bytes on every stream a compressor can begin? | 2 roots, 3 control codes, 8 entries, codes of 3 to 4 bits, 11 hash slots of which 4 are homes, so chains collide. The table fills after three entries and recycles from then on. The widest code numbers more than the table holds, so that widening happens at all in a table this small |
| `lbr_extract` | is every member gone through once whatever fails, stored ones whole, and are they Python's? | two directory sectors of two entries (four and 32 in the code), files of 0 to 4 sectors, directories claiming 0 to 3: every way of falling short, and one refused as too long |
| `lbr_long_strings` | does the directory last if strings may be longer than two entries? **No** (finding 1) | strings of three entries |
| `lzh_tree` | is the tree a tree, in order, rightly weighed, through swaps and rebuilds? does a decode return, and a file that has ended come to the stop code? | four codes and a limit of 11, so the tree is rebuilt after seven codes and then every five or six, in every order of codes. The limit matters to `Returns`: at 9 the tree is rebuilt so often that past the end of a file two codes take turns and the others are never decoded; from 11 on (up to 16 was tried) all are. The program's limit is a hundred times its codes |
| `unsqueeze` | are stored, packed and squeezed members what Python makes of them, also on broken trees and full disks? `Terminates` under fairness | all members of up to four 2-bit bytes (so the marker is 2 and a count up to 3), six trees: empty, complete, one bit per symbol, looping, and two out of range. Records of 2 bytes, a buffer of two: 80UNBAS has 32 and can fail in the middle of a flush, 80UN has one and cannot |
| `extraction` | is no name given twice, by either program? does the tool's exit status tell what it left, archive and earlier files included? | names of 5 + 1 characters keep 3, 2 and 1 before a suffix as 8 + 3 keep 6, 5 and 4; suffixes in base 2 up to 111 have one to three digits; 4 members of seven stored names chosen to meet; tables of 1 to 4. The tool reads up to 3 members with all options, of names that meet each other, the archive's and those of the files already there |
| `text_lost` | does `-t` keep no archive from being extracted? **It does** (finding 4) | the same |
| `decoders` | do the decoders of the two programs stay together, cut short or not, and keep their tables? | see below |
| `arc_old` | the same, if `lzw$max$bits` was never set? **No** (finding 2) | `LzwLeft` is 0: what memory holds before any other LZW member |
| `bas_long` | is every line of a program written? **No** (finding 3) | a program of 13 bytes, a buffer of 8 |

`decoders` has ARC codes of 3 to 4 bits for bytes of 2 (5 for squashed ones, 3 for the
old methods), blocks of 2 codes and a count that wraps at 4, members of up to 11
bytes: dictionaries fill, widen and are cleared in the middle of a block, and members
are cut in a code and in padding. Crunch V1 has 8 slots for 3 bytes, and every code
of 3 bits at each step, till the table is full. CrLZH has a ring of 8 and matches of 3
and 4, of all positions, up to 8 bytes of output and a match begun before. MBASIC
programs have 3 or 13 bytes after the first one, so that one ends in a header, and
one holds the longest operand and a second line. Names are of 2 bytes at most. A kind
of byte, or a code that tells apart the sides, is any one at each step.

**Bounds by name:** `MaxMembers` (CpmNames), `MaxResults` (Extraction), `LzwSize`
(ArcLzw), `LzhOut` (CrLzh), `BasSizes` (MBasic), `NameField` (Headers, the code's own
limit of 128, which is also the longest name checked), and the lists `MCArchives` and
`MCStreams`. The other modules need none: their state is finite with their
constants, and they run on as long as there are calls or codes.

**Deadlock** is checked where a program always has something to do. `crunch_v2` stops
at the end of the stream, `decoders`, `arc_old` and `bas_long` at the end of the data,
and `extraction` and `text_lost` when the program exits or `MaxMembers` are named; they
say `CHECK_DEADLOCK FALSE`.

**Fairness.** Each model is one thread of control on a machine with no other, so
weak fairness is put on the steps of the program's own loops (`skip$input`, the
drivers, the decoders, the loops of an update): they run on. Nothing obliges a
caller to call: there is no fairness on a new limit, a reopening or another code.
The one exception is a CrLZH file that has ended: `uncrlzh` has a `while True` that only
the stop code leaves, so past the end of the file `LzhTree` goes on to decode.
The abstract decoder of `ArcExtract` may ask for byte after byte past its member's
end, which changes nothing; fairness on the steps that change something takes it
that it gives up there, as every ARC decoder does that tests `input$avail`. What is
left to show for that, and `unsqueeze` shows for three of them, is that each does.

**What could be missed.** The ARC and LBR drivers are checked with abstract
decoders (any bytes read, any result), which covers more than the real ones do,
and without names that meet, which is `Extraction`'s subject. `WholeArchiveAgrees`
and `SameMembersUnlessHole` compare which members are found, not their bytes. In
`decoders` a PL/M and a Python decoder see each code once, so what is compared is
the string of that code; the RLE stage after it is `Unsqueeze`'s.

## 4. What is proved

TLAPS checks these for all values of the constants that meet the named `ASSUME`s.

**Member input** (`MemberInput_proofs`). `IInv` is the type invariant,
`BufferIsFile` (the buffer is the piece of the file that ends at the file
position) and `LimitIsMemberEnd` (bytes taken plus bytes left is the member's end).
The lemma the rest hangs on is `BorrowCounts`: one borrow step of two words takes
exactly one from the number they stand for. From `IInv`, each step of `MemberInput`
is a step or a stutter of `MemberStream` (`InputImplementsStream`). So what
`arc_extract` checks over the stream holds over the buffer. Assumed: words of
base at least 2, a buffer of at least one byte.

This theorem (`InputInvariant`) is the property `IInv` of the run, so `TypeOK` and
`BufferIsFile` are proved with it.

**Crunch V2 on CP/M** (`CrunchV2Both_proofs`, its first half). That a recycled entry is never one another is
built on is not inductive by itself: one has to know that prefixes are *used*
(marked when a code names them, and victims are unused), that the previous code is
used as well, and that recycling starts only when the table is full, since
otherwise a code could name an entry about to be made that is then not made.
`IInv` is their conjunction with the width and with lengths that fall along
prefixes, which is what keeps `lzw$first$byte` from walking for ever. From it:
`DictionaryInvariant`, `WidthInvariant` (the width leaves room for the entry after
next) and `MeaningIsKept` (no step but a reset changes an entry others are built
on). The hash table appears only as the set of victims it can lead to, so the
proofs hold for every hash function. Assumed: the table fits the widest code,
the seeds leave room in the first width, and the doubling of powers of two.

**Crunch V2 on both sides** (`CrunchV2Both_proofs`). `SameBytes`: the two programs write
the same bytes for every stream of codes, table size and hash, and stop at the
same code. `SameTables`: they keep the same dictionary all the way. `WrittenInvariant`:
what is written for a code is the string its entry holds after the step, also when
the code named the entry that step makes (`DecodeUnknown`).

* First the walk. `WalkedIs` unrolls the recursion of `Walked` by least
  counterexample over the number of steps. `LengthsBounded` is a pigeonhole: if lengths
  fall by one along prefixes, a chain of n entries is n different codes, so no
  string is longer than the table, and the bound on the walk is never what ends it
  (`StringsWhole`). `SameWalk`: the walk sees only the entries it passes.
* `DictInv` adds to `IInv` that roots stay roots (`RootsKept`), the suffixes are a
  table of all codes, and that entries not yet made are not marked used
  (`FreshUnused`). Without the last the two would part at the next entry: Python makes
  it unmarked, PL/M leaves the mark as it stands.
  `StringKept`: a step changes no string of a used code, so what was written stays true.
* `BothInv` adds the relation of the two tables: `Matches` (entries below `next` are the
  same three values, the others are missing in Python), `Counts` (hash, next code,
  threshold, width) and `InStep` (what each keeps of the code before: `skip_insert`
  is `prev = None`, `first_byte` the head of what was written last). The step is shown
  action by action: `AddMatches`, `ReplaceMatches` (the same victim, because the
  same slots and the same marks), `SeededMatches` after a reset. The Python table
  tests for an entry, PL/M compares with `next`: `EntriesAre` is their equality.

The theorems are about the streams of `Streams` (section 5); that is the next-state
relation, not a hypothesis of the theorem.

**LBR** (`LbrExtract_proofs`). `LbrInvariant` and `DirectoryLasts`: if no crunched
string covers more than two entries of WORK, every entry still to be gone through
reads there as in the file. Two are enough because entry 0 is the directory and
entry 1 has been taken into `member` before any decoder runs. The hypothesis
stands in the theorems, and `lbr_long_strings` shows that it is needed.

On top of it, `MembersInv` gives the three properties of the run. `Reading`: after the
directory, `max_entries` is what there is of what was claimed, however the file falls
short. `Passing`: the entries listed are the active ones before the place the loop
is at, in order, none twice. `Reported`: one report to an entry, the last one
pending while a member is dealt with. `Copying`: the sectors copied are the
first so many of the member's own, which takes the place in the file *and* the sectors left
to be tied to the member while reopening and skipping. From these `MembersGoneThrough`
(`EveryMemberOnce`), `StoredMembersWhole` (`StoredWhole`) and `SameMembers`
(`SameMembersUnlessHole`): without a hole, the first unused entry ends both loops.

**ARC** (`ArcExtract_proofs`). For archives of any number of members of any sizes, cut
anywhere: `DriverTypeOK`, `AlwaysAligned`, `NoMemberIsLost` and `ProgramsAgree`.
`Aligned` speaks of the scan only; to reach the next scan one has to know, at every read
of a header and of the data, which member this is (`Cur`), that it begins in the
file (`Within`), how far it has been read (`Reading`), that what was read are its fields as
far as they are there (`Fields`), and, in the data, that place and limit add up to the
next header unless the file ends before (`Limits`, `Ahead`). A file that ends in the end
mark is the odd case: PL/M makes one member more of `^Z`, and the invariant carries it
along. `IInv` is their conjunction with what is logged. The cells of the file
come from `LayoutIs`, by induction on members (`StartRecursion`, `StartGrows`).

`ProgramsAgree` unrolls `Parse` against `Start`: from the last member down, `Parse` at
`Start[i]` gives the names from i on (`ParseFinds`), as many as begin in the file; the driver
logs the same ones. `WholeArchiveAgrees` excludes archives cut inside a header, and the
theorem states that property. Assumed: the size made of `^Z` bytes is a number.

**Names on CP/M** (`Extraction_proofs`, its first half). `ArchiveIsKept`,
`MembersAreKept`, `NamesFitFcb`. The lemmas are about digits and strings:
`DigitsApart` (different numbers have different digits, by least counterexample
on the number), `NumberedApart` (so the numbered names of one name are
all different: cut a name to make room for a number, and the number still tells it),
and from them `NewNameFree`: there are more numbers than names in the table
(`SuffixAssumption`: 255 names, numbers to 999), so the search ends at a free one.
`CpmInv` ties the table to the names made: as long as it has room it holds every one.
A full table forgets, and `MembersKept` says only what is left then. Assumed: a number
with its hyphen is shorter than a name, no character becomes a dot, and
folding case leaves digits alone (`CharAssumption`).

**The command line tool** (`Extraction_proofs`, its second half). `PyMembersAreKept`, `ReadIsWhole`,
`NothingClobbered`, `ExitStatusTells`, for every directory the tool may find, every option, and
a write that fails at any member. `UniqueFree` is Python's side of the argument above:
one of `_1` to `_n` is free of n - 1 names (`SuffixedApart`, with the suffix put before
the extension). `RunInv` relates the results read to the names made, and, while writing, the
directory to what was there before and to each result so far: each lies under its own name
or was left out for a file that was there. That names differ when folded is what keeps
a later write from taking an earlier result away.

**Stored, packed and squeezed** (`Unsqueeze_proofs`). `UnsqueezeTypes` (`TypeOK`, the
bound of the output buffer with it), `UnsqueezePrefix` (`PrefixOfPython`) and
`UnsqueezeWhole` (`WholeOrRefused`): for every width of a byte, marker, tree, stream,
buffer and record, and every record the disk refuses. The properties say what has been
written; the induction needs what is still to come.

* `Following` is that part of `IInv`: what was put, then the copies a run still owes, then
  `RleFrom` from the next symbol on make up the Python output, and `SymbolsFrom` from the
  next bit and the node in hand are the symbols left. After a marker (`rle_active`) the
  next symbol is the marker again, since Python takes marker and count in one turn of
  its loop where PL/M takes two.
* The two recursions are unrolled by least counterexample (`RleRecursion`,
  `SymbolsRecursion`). `BitIs`: the bit `read$bit$lsb` gives at `pos` and `bits_left` is bit
  `ByteBits * pos - bits_left` of the data; `BitsIn`: there is none left exactly when
  `Short` holds. `RleByteKeeps` is one symbol through `rle$decode$byte` for packed and
  squeezed members, `RunKeeps` one copy.
* `FlushKeeps` and `PutKeeps` are about the output alone. Records in the file are
  whole, so padding what is left in the buffer is padding the text (`FilledRecords`); a
  refused flush leaves the beginning of the padded text, whatever was still to come.
* `WalkKeeps` has the endings: a bit from past the end, the end code, a leaf that is no
  byte and a child outside of the tree leave Python without a further symbol too.

Assumed: bytes of at least one bit, a marker that is not 0, and that powers of two are
positive numbers (`PowerAssumption`).

**The tree of CrLZH** (`LzhTree_proofs`). `LzhTypes` (`TypeOK`), `LzhOrdered` (`Ordered`),
`LzhLinked` (`Linked`) and `LzhCountsOne` (`CountsOne`), for any number of codes, any limit
of the root's weight and any number of rebuilds. `LzhInvariant` is the inductive invariant
behind them.

* An update. `ClimbTurns`: the node changed with is the last of those of equal weight. No
  weight is 0 (`Positive`), so a node is heavier than its sons, and the sons of both lie
  below both: that is why changing them leaves every son below its father. In a climb the
  root is lighter than the limit, which keeps its weight below the sentinel the
  search for a place stops at.
* A rebuild. `Building` says what `reconst` has made before `j`: each code and the first of
  each pair connected is the son of exactly one node. The place of a new node is after
  both of its sons (`ConnectsOneMore`). That the rebuilt root is below the limit again, so
  that the next update may go on, needs a sum over nodes. It is counted as a set
  of units of weight (`Units`), where injections and disjoint unions stand for
  addition: the leaves weigh no more than the root (`LeavesWeigh`), halving adds at most
  half a unit to a code (`HalvesWeigh`), and connecting a pair leaves the weight still to be
  connected as it is (`TailShrinks`).
* The first tree is two codes to a node up to the root; `StartFreq` is unrolled
  (`StartFreqIs`).

Assumed: at least two codes (`CodesAssumption`) and a limit above their number
(`FreqAssumption`); in the program 315 codes (`n$char`) and 32768.

**The other decoders** (`Decoders_proofs`). A job that was picked stays, so `Decoders`
has one invariant for each (`JobsInv`, `JobsKept`). `DecodersAgree` is `SameOutput` for all
of them, from the parts below.

* CrLZH: `LzhMatches` (`LzhWindowKept`), for every size of the ring, longest match, table
  of codes and version. `WrittenKeeps` is one byte into the ring: every place keeps the
  last byte written there, and the one `N` bytes back goes. `RoundRing` and `FollowRing`
  are the remainders behind it, for a divisor that is a parameter. `PositionIs` takes
  a position apart: a code's first byte is a multiple of what it leaves of a byte
  (`FirstDivides`), so code and lower bits do not mix; and each byte has a code
  (`EveryByteHasCode`), since the codes of growing length use all of them up.
* MBASIC: `BasApart` (`BasWordsApart`), and the part of `SameOutput` (`LevelLines`), for
  programs of any length. Both programs decide on a space by the token before,
  so the invariant `BasInv` says what each remembers of it: the last thing written,
  or one of the listed cases where it is another (`PyRemembers`, `Remembers`): a space
  the program put itself, and what it writes without remembering. `Level`
  keeps the places together, `Within` says that 80UNBAS has not more left than Python.
* ARC's LZW: `LzwSkips` (`LzwBlocksSkipped`) and the part of `SameOutput` (`SameStrings`).
  `LzwTogether` is the induction: the entries of the CP/M program, spelled out, are the
  strings of Python's dictionary (`Entries`, `Previous`), whether or not there is room for
  a next one at this width (`Widths`, `Room`), and the bits left are the same (`BitsLeft`),
  but after a clear code whose padding is cut, where Python has at most two codes' worth
  more. `PlmStringIs` unrolls the walk over prefixes. `Counts` says that as long as the
  table has room every code but the first makes an entry, from which a code widens when
  a block is full (`BlockFull`). Once the one program has a whole code and the other has
  not, each takes one step at most (`LzwApart`). For methods 5 and 6 `DecodersAgree` has
  the hypothesis `LeftEnough`, and `arc_old` shows that it is needed. The proof showed
  that the walk was undefined in the model for an entry of the clear code's number;
  `PlmString` now says what it finds there.
* Crunch V1: `V1TableKept` (`V1StringsKept`) and the part of `SameOutput`, for every width
  of a code, number of byte values, probe and any codes.
  - `HashesAre`: v1$hash and _v1_hash are one function. The square of v is
    four times the product of its halves plus 0 or 1, so the bits in the middle
    are the same, and sixteen bits of the product are enough for them (`SquareOfHalves`,
    `MiddleBits`).
  - A chain ends because a link leads to a slot that was filled later (`Turned`): there
    are fewer turns than slots, so the last of `ChainFrom` has no link (`EndIs`). A new slot is
    linked from such an end, which leaves every way there was as it was (`LeadsStill`,
    `PlacedEnter`), also if the end is on the chain of another hash.
  - A string ends because a prefix is a slot filled before: it is one longer than its
    prefix's and no longer than the table has entries (`Spells`), so `V1String`
    comes to the root in time (`StringIsText`).
  - The count says how many slots are empty (`V1Counts`), so an insert that is let through finds
    one (`RoomIs`, `FreeIs`). `CodeIs` is a code: refused, or at most one entry whose prefix is
    the code before. The code before is never an empty slot (`Ready`).
  The recursions are functions of one argument, since the prover has none of two.
* Headers: the part of `SameOutput`, for any limit of a name.

Assumed: `CodesAssumption` (the table of codes as both programs have it: lengths grow and
the codes use up a byte; powers of two double), `LzhAssumption`, and `LzwAssumption`: a
code is wider than a byte, never twice as wide as the first ones (9 bits; 13 are the
most there are), and a block divides the number of byte values and what the count of
codes wraps at (8, 256, 256). `V1Assumption`: fewer byte values than slots, and at least
one bit more to a word than to a code (12 and 16), so that the root's mark is no slot.

**Only model-checked.**
* Liveness (`SkipEnds`, `Terminates`, `Returns`) and anything with ENABLED: the
  prover has no rules for it.

## 5. Findings

1. **Directory overwritten by a decoder** (`lbr_long_strings`, code). A crunched
   member of a library with a string of more than 64 bytes writes over directory
   entries still to be read (`plm/crunch.plm:65`, `plm/lbr.plm:67`), against
   `plm/main.plm:295`: "nothing that is live is ever aliased".
2. **Old crunched members before any other** (`arc_old`, code). Methods 5 and 6 never
   set `lzw$max$bits`, by which `lzw$add$entry` limits the dictionary
   (`plm/arc.plm:173`, `plm/crunch.plm:128`). As the first LZW member of a run such a
   member has no dictionary at all; after a method 8 member of fewer bits one that
   stops short.
3. **BASIC programs past 4096 bytes** (`bas_long`, code). 80UNBAS fills its buffer once
   and leaves out the lines after it, reporting the file OK (`plm/basmain.plm:100`).
4. **Text conversion that ends an extraction** (`text_lost`, code). With `-t` a
   member with an extension like `.SYS`, squeezed by its middle letter and not
   beginning with `t`, `a` or `d`, makes `is_text_file` raise (`un80/cpm.py:199`), and
   nothing of the archive is written.

Differences of the two programs that the models keep, and that a property either
excludes by name or is stated for one side because of:

* An archive cut inside a header: the CP/M program keeps all members before the cut
  and makes one more of the `^Z` bytes past the end, `^Z` being the ARC marker;
  `parse_header` raises and the tool writes nothing (`un80/arc.py:115`;
  `WholeArchiveAgrees` is about archives not cut there).
* A Crunch V2 stream that begins, or goes on after a reset, with the entry about to be
  made: the CP/M program ends, the Python one makes a root (`un80/crunch.py:421`;
  `Streams`). No compressor writes it.
* A hole in the first sector of a library's directory ends that sector for Python and
  the directory for the CP/M program (`un80/lbr.py:149`; `SameMembersUnlessHole`).
* A `^Z` in the embedded name of a file ends the name on CP/M only
  (`plm/squeeze.plm:41`); a crunched name past 128 bytes is refused by Python only; a
  CrLZH file that ends in its name is refused by Python, and on CP/M decoded
  from what is read past the end (`HeadSame`).
* The last code of a cut LZW member is finished with the bits of a `^Z` on CP/M
  (`plm/arc.plm:183`), and cut padding is taken for a code by Python: at most one
  string more (`LzwSame`).
* A BASIC program cut inside an operand is empty in Python and lacks the operand on
  CP/M (`BasLines`). Only places and lines are compared (`SameOutput`): the texts differ.
  80UNBAS drops a space stored after another or after the line's number, in a string too,
  leaves out tabs, control bytes, 1BH and 1EH, puts no space after most words (`FORI`),
  and writes some numbers differently (section 6). Python writes two spaces side by side
  where it puts one next to a tab (`A<TAB>PRINT`, `THEN<TAB>X`, `un80/bas.py:541`; the
  comment at `un80/bas.py:112` means to avoid that) or where a space follows a word and a
  CR, or the line's number; and after a word that takes a space the escape of a control
  byte touches the word that follows it (`PRINT 0x01PRINT`).
* Beyond the bounds of CP/M files: `PlmString` leaves out the cap of 4096 bytes that
  `lzw$output` puts on a string (`plm/crunch.plm:63`), which a squashed member comes
  to after some 8.39 million bytes of output. `SameOutput` has nothing to compare for
  CrLZH, whose ring `LzhWindowKept` relates to the code's definition.

Noted and not modelled: a second name of 255 bytes gets `_1` after being capped
and is 257 bytes long (`un80/cpm.py:85`); `get_output_filename` makes `.ttt` of `.tqt`,
where the comment beside it says `.txt` (`un80/cli.py:87`); a method 8 member may say
14 to 16 bits, for which the PL/M tables of 8192 entries have no room (`plm/arc.plm:249`).

## 6. What is not modelled

* `plm/archive/80un.plm` is the superseded single-file program; nothing builds it.
* Of `un80/cpm.py`, the bytes of text conversion (`strip_cpm_eof`, `crlf_to_lf`), pure
  functions with a good unit test each.
* Of MBASIC: taking the protection off a program, the printing of numbers (80UNBAS
  writes a placeholder for a float, Python six digits), and the tables of words.
* How bits are gathered from bytes in `read$code$msb`, `get_bit` and the Python
  readers of LZW codes: `ArcLzw` and `CrLzh` count them, and take any value. The bits
  of squeezed files are modelled (`Unsqueeze`).
* The nodes of a squeezed file's tree as they are read: the tree is given, also broken.
* Of `plm/main.plm`: format detection by the CP/M program, opening files, and the
  regions of memory other than WORK.
* Listing, wording, console output; checksums and CRCs, which both programs read and
  neither tests.
* The bytes of BDOS calls: opening, reading and writing are a sector, or a failure.

## 7. Plan

Done, in this order: the member input and its refinement, the ARC driver, Crunch V2 on
both sides, the LBR driver, the CrLZH tree, names, the decoders without a dictionary,
ARC's LZW methods, Crunch V1, the CrLZH ring, headers, MBASIC, and the command line
tool.

What could be added to the model: `Main`, the regions of memory against who is live in
them, which would generalise finding 1.

Every invariant and every action property of the passing runs has its theorem. The bit
readers of section 6, once modelled, would want one too: that the codes they hand on are
those of the data.
