------------------------------ MODULE MCZstBus ------------------------------
(* Small instances of ZstBus for TLC. *)
EXTENDS ZstBus
=============================================================================
