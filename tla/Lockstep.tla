------------------------------ MODULE Lockstep ------------------------------
(***************************************************************************)
(* The decoders that both programs have, side by side: the CP/M program's  *)
(* and the Python tool's, given the same compressed data a code at a time. *)
(* Each decoder is a module of its own over these variables; Decoders      *)
(* puts them together, as decompress$file (src/plm/main.plm) and           *)
(* process_file (src/un80/cli.py) do, which pick one for each file.        *)
(***************************************************************************)
EXTENDS Integers, Sequences, FiniteSets

VARIABLES job,      \* which decoder was picked
          in,       \* what it was given, and what is left of it
          plm,      \* the state of the CP/M program's decoder
          py        \* the state of the Python tool's

lvars == <<job, in, plm, py>>

Bits(w) == 0 .. 2 ^ w - 1

\* What the provers need to know of powers of two, up to the widest in use
Powers(top) == 2 ^ 0 = 1 /\ \A b \in 0 .. top : 2 ^ b \in Nat \ {0} /\ 2 ^ (b + 1) = 2 * 2 ^ b
=============================================================================
