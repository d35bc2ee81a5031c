---------------------------- MODULE MCArcExtract ----------------------------
(* Archives of up to two members of four kinds, with and without an end    *)
(* mark, cut at every place: an old header and a new one, data of no cells *)
(* and of two, an unknown method.                                          *)
EXTENDS ArcExtract
MCMembers == {[method |-> "old", name |-> "A", size |-> 1],
              [method |-> "known", name |-> "B", size |-> 2],
              [method |-> "known", name |-> "C", size |-> 0],
              [method |-> "unknown", name |-> "D", size |-> 1]}
MCArchives == UNION {[1 .. n -> MCMembers] : n \in 0 .. 2}
=============================================================================
