-------------------------- MODULE MCZstScheduler --------------------------
EXTENDS ZstScheduler

CONSTANTS w1, w2, e1, e2

(* The workers are alike; for the invariants only. *)
AnyWorker == Permutations(Workers)
===========================================================================
