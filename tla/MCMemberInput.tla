---------------------------- MODULE MCMemberInput ---------------------------
(* Words of base 3, so that a limit of 0 to 8 bytes borrows up to twice,   *)
(* and a buffer of 2 bytes over files of 0 and 5 bytes: members that end inside*)
(* the buffer, at its end, and past the end of the file.                   *)
EXTENDS MemberInput
MCFileLens == {0, 5}
=============================================================================
