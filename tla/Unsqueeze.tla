------------------------------ MODULE Unsqueeze -----------------------------
(***************************************************************************)
(* The decoders of the CP/M program that have no dictionary, from their    *)
(* first data byte on: stored (arc$decomp$stored), packed                  *)
(* (arc$decomp$rle), and squeezed (unsqueeze in src/plm/squeeze.plm and    *)
(* arc$decomp$squeezed in src/plm/arc.plm, the same loop), which walks a   *)
(* Huffman tree from the file and expands what it finds (rle$decode$byte,  *)
(* src/plm/io.plm).  Beside them, what the Python tool makes of the same   *)
(* data (src/un80/squeeze.py, src/un80/arc.py).  The tree has been read    *)
(* already, all of it: a file cut short in its tree is refused before.     *)
(*                                                                         *)
(* A byte is a number of ByteBits bits; a tree is a sequence of nodes, and *)
(* a node's child is another one, counted from 0, or a leaf: -(value + 1). *)
(***************************************************************************)
EXTENDS OutputBuffer

CONSTANTS ByteBits,     \* 8
          Marker,       \* rle$marker: 90H
          Streams,      \* what the data of a member can be
          Trees         \* the trees that can come before it

NBytes == 2 ^ ByteBits
Bytes == 0 .. NBytes - 1
EndCode == NBytes                       \* 256

ASSUME StreamsAssumption == /\ ByteBits \in Nat \ {0} /\ Marker \in 1 .. NBytes - 1
                            /\ Streams \subseteq Seq(Bytes)
\* What the provers need to know of powers of two.
ASSUME PowerAssumption == \A i \in 0 .. ByteBits : 2 ^ i \in Nat \ {0}
ASSUME TreesAssumption ==
    Trees \subseteq Seq([{0, 1} -> Int])

VARIABLES method,       \* "stored", "packed", "squeezed"
          stream,       \* the member's bytes
          tree,         \* huff$tree, huff$nodes of them
          pc,
          pos,          \* bytes read
          bits_left,    \* of the last of them
          node,
          rle_prev, rle_active,
          cnt           \* copies rle$decode$byte has still to write

vars == <<output, method, stream, tree, pc, pos, bits_left, node,
          rle_prev, rle_active, cnt>>
member == <<method, stream, tree>>
reading == <<pos, bits_left, node>>
rle == <<rle_prev, rle_active, cnt>>

Init == /\ OutputInit
        /\ method \in {"stored", "packed", "squeezed"}
        /\ stream \in Streams
        /\ tree \in (IF method = "squeezed" THEN Trees ELSE {<<>>})
        /\ pc = "symbol" /\ pos = 0 /\ bits_left = 0 /\ node = 0
        /\ rle_prev = 0 /\ rle_active = FALSE /\ cnt = 0
-----------------------------------------------------------------------------
\* input$avail, and the byte getbyte gives
InputAvail == pos < Len(stream)
NextByte == stream[pos + 1]

\* A byte that could not be written ends the decoder; it returns 0.
After == IF ok' THEN "symbol" ELSE "closed"

\* A byte that stands for itself, in both run-length decoders
Plain(b) == /\ PutByte(b) /\ rle_prev' = b
            /\ pc' = After
            /\ UNCHANGED <<rle_active, cnt>>

\* Mutant of Counted: the count does not take in the byte written already.
CountedAgain(b) ==
    /\ rle_active' = FALSE
    /\ IF b = 0 THEN PutByte(Marker) /\ pc' = After /\ UNCHANGED <<rle_prev, cnt>>
       ELSE cnt' = b /\ pc' = "run" /\ UNCHANGED <<output, rle_prev>>

\* The byte after a marker: 0 is the marker itself, and leaves the last byte
\* alone; more is how often the last byte occurs, in all.
Counted(b) ==
    /\ rle_active' = FALSE
    /\ IF b = 0 THEN PutByte(Marker) /\ pc' = After /\ UNCHANGED <<rle_prev, cnt>>
       ELSE cnt' = b - 1 /\ pc' = "run" /\ UNCHANGED <<output, rle_prev>>

\* Mutant of Run: the copies go on when the disk is full.
RunOn == /\ pc = "run"
         /\ IF cnt = 0 THEN pc' = "symbol" /\ UNCHANGED <<output, cnt>>
            ELSE PutByte(rle_prev) /\ cnt' = cnt - 1 /\ pc' = "run"
         /\ UNCHANGED <<member, reading, rle_prev, rle_active>>

Run == /\ pc = "run"
       /\ IF cnt = 0 THEN pc' = "symbol" /\ UNCHANGED <<output, cnt>>
          ELSE /\ PutByte(rle_prev) /\ cnt' = cnt - 1
               /\ pc' = IF ok' THEN "run" ELSE "closed"
       /\ UNCHANGED <<member, reading, rle_prev, rle_active>>

\* rle$decode$byte
RleByte(b) == \/ rle_active /\ Counted(b)
              \/ /\ ~rle_active /\ b = Marker
                 /\ rle_active' = TRUE /\ pc' = "symbol"
                 /\ UNCHANGED <<output, rle_prev, cnt>>
              \/ ~rle_active /\ b # Marker /\ Plain(b)

\* arc$decomp$stored, arc$decomp$rle: a pass of the loop
Stored == /\ pc = "symbol" /\ method = "stored" /\ InputAvail
          /\ pos' = pos + 1
          /\ PutByte(NextByte) /\ pc' = After
          /\ UNCHANGED <<member, bits_left, node, rle>>

Packed == /\ pc = "symbol" /\ method = "packed" /\ InputAvail
          /\ IF NextByte # Marker THEN pos' = pos + 1 /\ Plain(NextByte)
             ELSE IF pos + 1 = Len(stream)
             THEN pos' = pos + 1 /\ UNCHANGED <<output, rle, pc>>
             ELSE pos' = pos + 2 /\ Counted(stream[pos + 2])
          /\ UNCHANGED <<member, bits_left, node>>

\* Mutant of MoreBits: a byte once read counts as used up.
MoreBytes == InputAvail

\* The last byte may hold whole symbols yet.
MoreBits == bits_left # 0 \/ InputAvail

\* unsqueeze: a pass of the outer loop.  A tree of no nodes is an empty file,
\* returned before the loop.
StartSymbol == /\ pc = "symbol" /\ method = "squeezed" /\ tree # <<>> /\ MoreBits
               /\ node' = 0 /\ pc' = "bit"
               /\ UNCHANGED <<output, member, pos, bits_left, rle>>

\* read$bit$lsb.  A bit from past the end is one of a ^Z's.
BitOf(byte, i) == (byte \div 2 ^ i) % 2
Bit == IF bits_left = 0
       THEN BitOf(IF InputAvail THEN NextByte ELSE Pad, 0)
       ELSE BitOf(stream[pos], ByteBits - bits_left)
Short == bits_left = 0 /\ ~InputAvail
ReadBit == IF bits_left = 0
           THEN /\ pos' = IF InputAvail THEN pos + 1 ELSE pos
                /\ bits_left' = ByteBits - 1
           ELSE bits_left' = bits_left - 1 /\ UNCHANGED pos

\* Mutant of Walk: an end of the input is noticed at a leaf only.
WalkToLeaf ==
    /\ pc = "bit"
    /\ LET child == tree[node + 1][Bit]
           value == -(child + 1)
       IN  \/ /\ Short /\ child < 0 /\ pc' = "end" /\ UNCHANGED <<output, rle, node, pos, bits_left>>
           \/ /\ ~Short /\ child < 0 /\ ReadBit
              /\ IF value >= EndCode
                 THEN pc' = "end" /\ UNCHANGED <<output, rle>> ELSE RleByte(value)
              /\ UNCHANGED node
           \/ /\ child >= 0 /\ (IF Short THEN UNCHANGED <<pos, bits_left>> ELSE ReadBit)
              /\ IF child < Len(tree) THEN node' = child /\ pc' = "bit"
                 ELSE pc' = "end" /\ UNCHANGED node
              /\ UNCHANGED <<output, rle>>
    /\ UNCHANGED member

\* A pass of the inner loop: a bit from past the end, the end code, a leaf
\* that is no byte and a child past the tree all end the file.
Walk ==
    /\ pc = "bit" /\ ReadBit
    /\ LET child == tree[node + 1][Bit]
           value == -(child + 1)
       IN  \/ /\ Short \/ child >= Len(tree) \/ (child < 0 /\ value >= EndCode)
              /\ pc' = "end" /\ UNCHANGED <<output, rle, node>>
           \/ /\ ~Short /\ child < 0 /\ value < EndCode
              /\ RleByte(value) /\ UNCHANGED node
           \/ /\ ~Short /\ child \in 0 .. Len(tree) - 1
              /\ node' = child
              /\ UNCHANGED <<output, rle, pc>>
    /\ UNCHANGED member

Over == IF method = "squeezed" THEN tree = <<>> \/ ~MoreBits ELSE ~InputAvail
Finish == /\ pc = "symbol" /\ Over
          /\ pc' = "end" /\ UNCHANGED <<output, member, reading, rle>>

\* The decoder returned 1: its caller flushes and closes the file.
Close == /\ pc = "end"
         /\ FlushOutbuf /\ pc' = "closed"
         /\ UNCHANGED <<member, reading, rle>>

Closed == pc = "closed" /\ UNCHANGED vars

Step == Stored \/ Packed \/ StartSymbol \/ Walk \/ Run \/ Finish \/ Close
Next == Step \/ Closed

Spec == Init /\ [][Next]_vars
FairSpec == Spec /\ WF_vars(Step)      \* one thread of control, which runs on
-----------------------------------------------------------------------------
(* decode_rle from the i-th byte on, when the byte before it is prev.      *)
RleFrom(data) ==
    LET from[i \in 1 .. Len(data) + 1] == [prev \in Bytes |->
          IF i > Len(data) THEN <<>>
          ELSE IF data[i] # Marker THEN <<data[i]>> \o from[i + 1][data[i]]
          ELSE IF i = Len(data) THEN <<>>
          ELSE IF data[i + 1] = 0 THEN <<Marker>> \o from[i + 2][prev]
          ELSE [n \in 1 .. data[i + 1] - 1 |-> prev] \o from[i + 2][prev]]
    IN  from
PyRle(data) == RleFrom(data)[1][0]

(* The symbols HuffmanTree.decode_symbol gives from the i-th bit on, at a  *)
(* node, up to the one that raises or ends the loop.                       *)
AllBits == ByteBits * Len(stream)
BitAt(i) == BitOf(stream[(i \div ByteBits) + 1], i % ByteBits)
SymbolsFrom ==
    LET walk[i \in 0 .. AllBits] == [n \in 0 .. Len(tree) |->
          IF n = Len(tree) \/ i = AllBits THEN <<>>
          ELSE LET child == tree[n + 1][BitAt(i)]
                   value == -(child + 1)
               IN  IF child >= 0
                   THEN walk[i + 1][IF child < Len(tree) THEN child ELSE Len(tree)]
                   ELSE IF value >= EndCode THEN <<>>
                   ELSE <<value>> \o walk[i + 1][0]]
    IN  walk
PySymbols == SymbolsFrom[0][0]

PyOutput == CASE method = "stored" -> stream
              [] method = "packed" -> PyRle(stream)
              [] method = "squeezed" -> PyRle(PySymbols)
-----------------------------------------------------------------------------
\* The buffer is never written past its end, a full disk included.
TypeOK == /\ Len(outbuf) <= OutSize /\ (ok => Len(outbuf) < OutSize)
          /\ Len(file) % RecSize = 0 /\ ok \in BOOLEAN
          /\ pc \in {"symbol", "bit", "run", "end", "closed"}
          /\ pos \in 0 .. Len(stream) /\ bits_left \in 0 .. ByteBits - 1
          /\ node \in 0 .. Len(tree) /\ (pc = "bit" => node < Len(tree))
          /\ rle_prev \in Bytes /\ rle_active \in BOOLEAN
          /\ cnt \in 0 .. NBytes - 2

(* Whatever has been decoded, up to any point and whatever the disk        *)
(* refused, is what the Python tool decodes from there (README.md:         *)
(* identical output): no symbol is written twice, dropped, or taken from   *)
(* the bits past the end.                                                  *)
PrefixOfPython == ok => IsPrefix(file \o outbuf, PyOutput) \/ file = Padded(PyOutput)

(* A file said to be OK holds all of it, padded to a record, the symbols   *)
(* in the last byte of the data included; one that was not has whole       *)
(* records of it only.                                                     *)
WholeOrRefused ==
    pc = "closed" => IF ok THEN file = Padded(PyOutput)
                           ELSE IsPrefix(file, Padded(PyOutput))

(* Every member comes to an end: also one whose tree leads back to itself  *)
(* and never to a leaf (src/plm/squeeze.plm, at the loop).                 *)
Terminates == <>(pc = "closed")
=============================================================================
