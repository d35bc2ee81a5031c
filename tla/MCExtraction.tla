---------------------------- MODULE MCExtraction ----------------------------
(* Names of five characters, with types of one, and suffixes in base 2 up  *)
(* to 111: keeping 3, 2 and 1 characters of a name as the program keeps 6, *)
(* 5 and 4.  Stored names that meet when cut, when a character is replaced,*)
(* when case is dropped, and with another one's numbered name.  80un is    *)
(* given A.QQB, reads at most three members, and finds two files there.    *)
EXTENDS Extraction
MCChars == {"A", "B", "a", "/", "-", "_", "1", "0", ".", " ", "U", "Q"}
MCCpm == [ch \in MCChars |-> IF ch = "a" THEN "A"
                           ELSE IF ch \in {"/", "_", ".", " "} THEN "-" ELSE ch]
MCSafe == [ch \in MCChars |-> IF ch = "/" THEN "_" ELSE ch]
MCFold == [ch \in MCChars |-> IF ch = "a" THEN "A" ELSE ch]
MCDevices == {<<"B">>}
MCStored == {<<"A", "B", "B", "/", "1">>, <<"a", "B", "B", "A", "A", "A">>,
             <<"A", "B", "B", "A", "A">>, <<"A", "B", "B", "_", "1">>,
             <<"A", "/", "1">>, <<"A", "A", "B", ".", "A">>, <<" ", ".", ".">>}
MCPyStored == {<<"A", "B", "/">>, <<"A", "B", "_">>, <<"a", "B", "_">>, <<"A", "B", "_", "_", "1">>,
               <<"a", ".", "Q", "Q", "B">>, <<"B", ".", "B", "Q", "B">>, <<" ", ".", ".">>}
MCEmbedded == {<<"B">>, <<"/", ".">>, <<".", " ">>}
MCArchiveName == <<"A", ".", "Q", "Q", "B">>
MCBefore == {<<"a", "B", "_">>, <<"A", "_", "1", ".", "Q", "Q", "B">>}
MCOut == <<".", "U">>
MCOwn == {[name |-> <<"A", "B", "B", "-", "1">>, type |-> <<>>],
          [name |-> <<"A", "A", "B">>, type |-> <<"A">>]}
=============================================================================
