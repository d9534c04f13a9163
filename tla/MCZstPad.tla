------------------------------ MODULE MCZstPad ------------------------------
EXTENDS ZstPad

(* A streaming thread, and two threads of the application. *)
StreamAndApp ==
    [t \in Threads |-> CASE t = "stream" -> {"push", "event"}
                         [] t = "app" -> AllCalls \ {"push", "event", "unlink", "upstream"}
                         [] t = "other" -> {"unlink", "upstream"}]

(* seen is a history that no step reads and PeersExact, NoLostUnblock and  *)
(* NoLockCycle do not mention: states that differ in it alone are one.     *)
WithoutSeen ==
    <<peer, refs, owned, lock, blocked, fired, callback, probe, policy, queued, sticky, pushed,
      made, th>>
=============================================================================
