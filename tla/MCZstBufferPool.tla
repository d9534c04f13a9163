-------------------------- MODULE MCZstBufferPool --------------------------
(* Small instances of ZstBufferPool for TLC. *)
EXTENDS ZstBufferPool, TLC

Cfg(lo, hi) == [min |-> lo, max |-> hi]

Create12 == Cfg(1, 2)
Create13 == Cfg(1, 3)
\* Shrink, grow, and a minimum above the maximum, which is clamped.
Resizes == {Cfg(0, 1), Cfg(3, 2), Cfg(1, 3)}
Grows == {Cfg(1, 4)}

Interchangeable == Permutations(Buffers)
=============================================================================
