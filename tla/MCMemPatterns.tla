--------------------------- MODULE MCMemPatterns ---------------------------
(* An instance of MemPatterns: pages of two units and 16 words, the hole in *)
(* pages 2 and 3; every firmware map of at most two entries over a grid of  *)
(* addresses goes through mem_size, and two of them are tested.             *)
EXTENDS MemPatterns

Entry(a, s, t) == [addr |-> a, size |-> s, type |-> t]
Entries == [addr : {0, 1, 3, 4, 5, 6, 8, 9, 11}, size : {0, 1, 2, 4, 8}, type : {1, 2, 3}]

MCTested == {<<Entry(0, 4, 1), Entry(8, 13, 1)>>,
             <<Entry(0, 4, 1), Entry(8, 4, 1), Entry(14, 7, 1)>>}
MCMaps == MCTested \cup {<<>>} \cup {<<a>> : a \in Entries} \cup {<<a, b>> : a, b \in Entries}
MCExtKb == {[e88 |-> 4, e801 |-> 0], [e88 |-> 2, e801 |-> 5]}
MCTseq == <<0, 1, 3, 5, 6, 7, 8, 9, 10, 11>>
MCFaults == [word : {5, 31, 64, 65, 95, 96, 97, 127, 139, 140, 142, 143}, value : {0, 15}]
=============================================================================
