----------------------------- MODULE Extraction -----------------------------
(***************************************************************************)
(* A run of one of the two programs over an archive: the names 80un.com    *)
(* makes members under (src/plm/names.plm, main.plm), and the whole run of *)
(* 80un (src/un80/cli.py, with extract_arc of arc.py and extract_lbr of    *)
(* lbr.py), which reads a file to the end before it writes any.            *)
(*                                                                         *)
(* What a file holds is which file it was when the program began, or which *)
(* of the archive's members.  The host's file names do not tell cases      *)
(* apart, as on Windows and macOS: where they do, fewer names meet.        *)
(***************************************************************************)
EXTENDS CpmNames

CONSTANTS Stored,       \* the names archivers wrote for 80un.com
          PyStored,     \* for 80un, fewer (a bound of the model) ...
          Embedded,     \* ... and in members' compressed data
          ArchiveName,  \* what 80un is given
          Before,       \* names there may be in the directory before
          Squeezed,     \* the letters q, z and y
          TextFirst,    \* the letters t, a and d
          Out,          \* the extension .out
          MaxResults    \* bound: members 80un reads

ASSUME StoredAssumption == /\ Stored \union PyStored \union Embedded \subseteq Seq(Chars)
                           /\ ArchiveName \in Seq(Chars) /\ Out \in Seq(Chars)
                           /\ MaxResults \in Nat

VARIABLES program,      \* "80un.com" or "80un"
          opt,          \* 80un's options
          pc,
          fmt,          \* format_type
          results,      \* what the reader returns: what each member holds
          paths,        \* used_names of cmd_extract, in order: the results dealt with
          disk,         \* the directory 80un writes in: folded names to contents
          before,       \* the directory as it was
          skipped,      \* history: results not written, for a file that was there
          why           \* history: why 80un ended with exit status 1

py == <<opt, pc, fmt, results, paths, disk, before, skipped, why>>
vars == <<program, cpm, pyNames, py>>

Options == [list : BOOLEAN, text : BOOLEAN, noClobber : BOOLEAN, away : BOOLEAN]
NoOption == [list |-> FALSE, text |-> FALSE, noClobber |-> FALSE, away |-> FALSE]

\* What a file holds: a file that was there, or a member of one.
File(which) == [file |-> which, member |-> 0]
Member(which, n) == [file |-> which, member |-> n]

\* away: -o names a directory; else the archive itself is among the files.
Directory(away, old) ==
    [n \in {Folded(x) : x \in old \union (IF away THEN {} ELSE {ArchiveName})} |->
       IF ~away /\ n = Folded(ArchiveName) THEN File("archive") ELSE File("old")]

Init == /\ used = {} /\ pyMade = <<>> /\ results = <<>> /\ paths = <<>>
        /\ skipped = {} /\ why = "" /\ fmt = "none"
        /\ \/ /\ program = "80un.com" /\ CpmInit
              /\ opt = NoOption /\ pc = "done" /\ before = Directory(TRUE, {})
           \/ /\ program = "80un"
              /\ own = CHOOSE n \in Own : TRUE
              /\ onDrive = FALSE /\ nameMax = 1 /\ table = <<>> /\ started = FALSE /\ made = <<>>
              /\ opt \in Options /\ pc = "start"
              /\ \E old \in SUBSET Before : before = Directory(opt.away, old)
        /\ disk = before
-----------------------------------------------------------------------------
Ends(reason) == pc' = "failed" /\ why' = reason

\* detect_format: a magic number, a BASIC program's first byte and extension,
\* the extension, and the middle letter of one.
Compressed == {"squeeze", "crunch", "crlzh"}
Contents == Compressed \union {"arc", "lbr", "tokens", "other"}
Extensions == {"bas", "lbr", "arc", "q", "z", "y", "none"}

Detected(holds, ext) ==
    IF holds \in Compressed \union {"arc", "lbr"} THEN holds
    ELSE CASE holds = "tokens" /\ ext = "bas" -> "bas"
           [] ext \in {"lbr", "arc"} -> ext
           [] ext = "q" -> "squeeze" [] ext = "z" -> "crunch" [] ext = "y" -> "crlzh"
           [] OTHER -> "none"

\* Can the format's reader take what the file holds?  Anything may be a BASIC
\* program, and cmd_list reads no compressed file.
Takes(format, holds) == format \in {holds, "bas"}

\* main, up to cmd_list and cmd_extract: a list is read, and nothing written.
Detect(forced, holds, ext) ==
    /\ pc = "start" /\ program = "80un"
    /\ fmt' = IF forced = "no" THEN Detected(holds, ext) ELSE forced
    /\ IF fmt' = "none" THEN Ends("unknown format")
       ELSE IF ~Takes(fmt', holds) /\ ~(opt.list /\ fmt' \in Compressed) THEN Ends("not in the format")
       ELSE /\ pc' = IF opt.list THEN "done" ELSE "read"
            /\ UNCHANGED why
    /\ UNCHANGED <<program, cpm, pyNames, opt, results, paths, disk, before, skipped>>
-----------------------------------------------------------------------------
\* The file's bytes, if nothing has been written over them.
Read == IF opt.away \/ disk[Folded(ArchiveName)] = File("archive") THEN "archive"
        ELSE "overwritten"

\* is_text_file: a name like .TQT is looked at no further than its two letters
\* left, and one that does not begin with T, A or D is asked for a third.
Extension(name) == IF LastDot(name) = 0 THEN <<>>
                   ELSE Folded(SubSeq(name, LastDot(name) + 1, Len(name)))
TextRaises(name) == /\ Len(Extension(name)) = 3
                    /\ Extension(name)[2] \in Squeezed /\ Extension(name)[1] \notin TextFirst

\* Mutant of ReadMember: an archive's members are written as they are read.
ReadMemberOut(stored, name) ==
    /\ pc = "read" /\ Len(results) < MaxResults
    /\ fmt = "lbr" \/ (fmt = "arc" /\ name = stored)
    /\ PyMakeMember(name, IF fmt = "lbr" THEN stored ELSE Unnamed)
    /\ results' = Append(results, Member(Read, Len(results) + 1))
    /\ disk' = [n \in DOMAIN disk \union {Folded(Last(pyMade'))} |->
                  IF n = Folded(Last(pyMade')) THEN Last(results') ELSE disk[n]]
    /\ UNCHANGED <<program, cpm, opt, fmt, paths, before, skipped, pc, why>>

\* extract_arc and extract_lbr, a turn of the loop.  A member is called what
\* the directory calls it, or a compressed one of a library by the name in its
\* data; one that will not decompress is a result as it is.
ReadMember(stored, name) ==
    /\ pc = "read" /\ Len(results) < MaxResults
    /\ fmt = "lbr" \/ (fmt = "arc" /\ name = stored)
    /\ PyMakeMember(name, IF fmt = "lbr" THEN stored ELSE Unnamed)
    /\ IF opt.text /\ TextRaises(Last(pyMade'))
       THEN Ends("text") /\ UNCHANGED results
       ELSE /\ results' = Append(results, Member(Read, Len(results) + 1))
            /\ UNCHANGED <<pc, why>>
    /\ UNCHANGED <<program, cpm, opt, fmt, paths, disk, before, skipped>>

\* A decoder raises, or parse_header of arc.py: the file ends inside a header,
\* or a marker is amiss.
BadData == /\ pc = "read" /\ fmt \in {"arc", "bas"} \union Compressed
           /\ Ends("data")
           /\ UNCHANGED <<program, cpm, pyNames, opt, fmt, results, paths, disk, before, skipped>>

ReadEnd == /\ pc = "read" /\ fmt \in {"arc", "lbr"}
           /\ pc' = "write"
           /\ UNCHANGED <<program, cpm, pyNames, opt, fmt, results, paths, disk, before, skipped, why>>

\* get_output_filename, without an embedded name: .TQT becomes .TTT.
Stem == IF LastDot(ArchiveName) = 0 THEN ArchiveName
        ELSE SubSeq(ArchiveName, 1, LastDot(ArchiveName) - 1)
Rebuilt == LET ext == Extension(ArchiveName)
           IN  IF Len(ext) # 3 \/ ext[2] \notin Squeezed THEN Stem \o Out
               ELSE IF ext[1] = ext[2] /\ ext[2] = ext[3] THEN Stem
               ELSE Stem \o <<".", ext[1], ext[1], ext[3]>>

\* A single file; a BASIC program keeps its name.
ReadFile(named) ==
    /\ pc = "read" /\ fmt \in Compressed \union {"bas"}
    /\ pyMade' = <<IF fmt = "bas" THEN ArchiveName
                   ELSE IF named = <<>> THEN Rebuilt ELSE Clean(named, Stem \o Out)>>
    /\ results' = <<Member(Read, 1)>>
    /\ pc' = "write"
    /\ UNCHANGED <<program, cpm, used, opt, fmt, paths, disk, before, skipped, why>>
-----------------------------------------------------------------------------
\* get_unique_path_for_archive
Path == LET name == pyMade[Len(paths) + 1]
            free == {k \in 0 .. Len(paths) : Suffixed(name, k) \notin ToSet(paths)}
        IN  Suffixed(name, Min(free))

With(content) == [n \in DOMAIN disk \union {Folded(Path)} |->
                    IF n = Folded(Path) THEN content ELSE disk[n]]

\* cmd_extract, a turn of its loop, with safe_write
Write == /\ pc = "write" /\ Len(paths) < Len(results)
         /\ paths' = Append(paths, Path)
         /\ IF opt.noClobber /\ Folded(Path) \in DOMAIN disk
            THEN skipped' = skipped \union {Len(paths')} /\ UNCHANGED disk
            ELSE disk' = With(results[Len(paths')]) /\ UNCHANGED skipped
         /\ UNCHANGED <<program, cpm, pyNames, opt, pc, fmt, results, before, why>>

\* Mutant of WriteFails: a file that cannot be written is passed over.
WriteFailsOn == /\ pc = "write" /\ Len(paths) < Len(results)
                /\ ~(opt.noClobber /\ Folded(Path) \in DOMAIN disk)
                /\ disk' \in {disk, With(File("partial"))}
                /\ paths' = Append(paths, Path)
                /\ UNCHANGED <<program, cpm, pyNames, opt, pc, fmt, results, before, skipped, why>>

\* write_bytes raises: nothing of the file is written, or a part.
WriteFails == /\ pc = "write" /\ Len(paths) < Len(results)
              /\ ~(opt.noClobber /\ Folded(Path) \in DOMAIN disk)
              /\ disk' \in {disk, With(File("partial"))}
              /\ Ends("disk")
              /\ UNCHANGED <<program, cpm, pyNames, opt, fmt, results, paths, before, skipped>>

Done == /\ pc = "write" /\ Len(paths) = Len(results)
        /\ pc' = "done"
        /\ UNCHANGED <<program, cpm, pyNames, opt, fmt, results, paths, disk, before, skipped, why>>

Cpm80un == /\ program = "80un.com"
           /\ Start \/ \E stored \in Stored : MakeMember(stored)
           /\ UNCHANGED <<program, py>>

Next == \/ Cpm80un
        \/ \E forced \in {"no", "bas", "arc", "lbr"} \union Compressed,
              holds \in Contents, ext \in Extensions : Detect(forced, holds, ext)
        \/ \E stored \in PyStored : \E name \in Embedded \union {stored} : ReadMember(stored, name)
        \/ BadData \/ ReadEnd
        \/ \E named \in Embedded \union {<<>>} : ReadFile(named)
        \/ Write \/ WriteFails \/ Done

Spec == Init /\ [][Next]_vars
-----------------------------------------------------------------------------
(* The exit status can be believed.  0: every result is a file of the name *)
(* it was given, whole, or was left out for one that was there.  1, unless *)
(* a file could not be written: nothing in the directory has changed, the  *)
(* archive may be tried again.  -l changes nothing ever.                   *)
IsOnDisk(name, content) == name \in DOMAIN disk /\ disk[name] = content
Due(i) == IF i \in skipped THEN before[Folded(pyMade[i])] ELSE results[i]
ExitTells == /\ pc = "done" =>
                   \A i \in DOMAIN results : IsOnDisk(Folded(pyMade[i]), Due(i))
             /\ (pc = "failed" /\ why # "disk") \/ opt.list => disk = before

(* Every member comes out of the archive as it was: one that is called     *)
(* what the archive is called, and lands on it, costs no member after it.  *)
ReadWhole == \A i \in DOMAIN results : results[i].file = "archive"

(* -n: no file that was there is touched (docs/usage.md: "Do not overwrite *)
(* existing files"), and what is left out is left out for such a file,     *)
(* never for an earlier member of the same archive.                        *)
NoClobber == opt.noClobber => /\ \A n \in DOMAIN before : disk[n] = before[n]
                              /\ \A i \in skipped : Folded(pyMade[i]) \in DOMAIN before

(* -t converts text files (docs/usage.md: "Convert text files (strip ^Z,   *)
(* CR/LF to LF)"), and keeps no archive from being extracted.              *)
TextConverts == why # "text"
=============================================================================
