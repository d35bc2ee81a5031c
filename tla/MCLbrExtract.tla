---------------------------- MODULE MCLbrExtract ----------------------------
EXTENDS LbrExtract

\* Data starts at sector 2; an index may also point into the directory.
MCEntry == {[status |-> "active", index |-> 2, length |-> 1],
            [status |-> "active", index |-> 1, length |-> 3],
            [status |-> "active", index |-> 2, length |-> 0],
            [status |-> "deleted", index |-> 2, length |-> 1],
            [status |-> "unused", index |-> 2, length |-> 1]}
MCFirst == [status |-> "active", index |-> 0, length |-> 2]
Magic(m) == [i \in 0 .. 3 |-> IF i = 2 THEN m ELSE "stored"]

MCArchives ==
    {[claimed |-> c, size |-> n, magic |-> Magic(m),
      entry |-> (0 :> f @@ 1 :> a @@ 2 :> b @@ 3 :> d)] :
        c \in 1 .. 2, n \in {1, 2, 4}, m \in {"stored", "crunch", "squeeze"},
        f \in {MCFirst}, a \in MCEntry, b \in MCEntry, d \in MCEntry}
    \union
    {[claimed |-> c, size |-> n, magic |-> Magic("stored"),
      entry |-> [e \in 0 .. 3 |-> f]] :
        c \in 0 .. 3, n \in {0, 3}, f \in MCEntry}

MCTextEntries == {[status |-> "deleted", index |-> 3, length |-> 1],
                  [status |-> "unused", index |-> 3, length |-> 1],
                  [status |-> "active", index |-> 3, length |-> 1]}
=============================================================================
