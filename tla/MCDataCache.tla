---- MODULE MCDataCache ----
(* A small instance of DataCache: two handles of one file of up to three bytes, *)
(* in blocks of two.                                                            *)
EXTENDS DataCache, TLC
MCPathOf == [h \in Handles |-> "f"]
MCReads == {[offset |-> 0, size |-> 3], [offset |-> 1, size |-> 1]}
Symmetry == Permutations(Threads) \cup Permutations(Handles)
====
