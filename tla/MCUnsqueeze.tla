----------------------------- MODULE MCUnsqueeze ----------------------------
(* Bytes of two bits, of which 2 is the marker, and every member of up to  *)
(* four of them.  Trees: none; every byte and the end code; a code of one  *)
(* bit, so that a byte holds two symbols; a node that leads back to        *)
(* itself; a leaf above the end code and a child past the tree.            *)
EXTENDS Unsqueeze
Node(l, r) == [bit \in {0, 1} |-> IF bit = 0 THEN l ELSE r]
Leaf(v) == -(v + 1)
MCStreams == UNION {[1 .. n -> 0 .. 3] : n \in 0 .. 4}
MCTrees == {<<>>,
            <<Node(1, 2), Node(Leaf(1), Leaf(2)), Node(Leaf(0), 3), Node(Leaf(3), Leaf(4))>>,
            <<Node(Leaf(2), Leaf(3))>>,
            <<Node(0, 1), Node(0, 0)>>,
            <<Node(0, Leaf(1))>>,
            <<Node(Leaf(1), 1), Node(Leaf(5), 2)>>}
=============================================================================
