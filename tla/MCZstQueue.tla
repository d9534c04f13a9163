----------------------------- MODULE MCZstQueue -----------------------------
(* Small instances of ZstQueue for TLC. *)
EXTENDS ZstQueue, TLC

Small == [size |-> 1, pts |-> 1, duration |-> 1]
Large == [size |-> 2, pts |-> 3, duration |-> 1]
BothSizes == {Small, Large}
OneSize == {Small}

SymThreads == Permutations(Producers) \cup Permutations(Consumers)
=============================================================================
