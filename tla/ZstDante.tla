------------------------------ MODULE ZstDante ------------------------------
(***************************************************************************)
(* The hooks of the Dante elements: UDP source and sink, and the audio     *)
(* source and sink on the shared memory of a Dante endpoint provider, in   *)
(* the vocabulary of ZstHooks.  The shared context behind the latter two   *)
(* is ZstDepContext.                                                       *)
(***************************************************************************)
EXTENDS ZstRtp

(* dante_udp_source.c.  A reader thread fills a ring of datagrams, which   *)
(* process() empties.  close() destroys the lock that create() made.       *)

UdpSrcLock(p) == IF Is(p, "lock_destroyed") THEN Stray(p, {"lock"}) ELSE p

UdpSrcReaderStop(p) ==
    LET q == IF Has(p, "reader") THEN Inside(UdpSrcLock(p), 0) ELSE p
    IN  Free(q, {"reader", "fd"})

(* Without memory for the ring, or a thread, the socket stays. *)
UdpSrcOpen(p) ==
    LET q == UdpSrcReaderStop(p)
    IN  Fail(p) \cup Fail(q) \cup Fail(Get(Free(q, {"ring"}), {"fd"})) \cup
        Ok(Get(Free(q, {"ring"}), {"fd", "ring", "reader"}))

UdpSrcClose(p) == Ok(On(Free(UdpSrcReaderStop(p), {"ring"}), {"lock_destroyed"}))

(* A datagram of the transmitter; the ring may be full. *)
UdpSrcThread(p) ==
    IF ~Has(p, "reader") THEN NoHook
    ELSE Ok(p) \cup (IF p.n < MaxInside THEN Ok(Taken(UdpSrcLock(p)))
                     ELSE Ok(Shed(UdpSrcLock(p))))

UdpSrcProcess(p, in) ==
    LET q == UdpSrcLock(p)
    IN  IF ~Has(p, "reader") THEN Ok(p)
        ELSE IF p.n = 0 THEN Again(q) ELSE Out(Inside(q, q.n - 1), "data")

UdpSrcSetProperty(p) == Fail(p) \cup Ok(On(p, {"address"}))

----------------------------------------------------------------------------
(* dante_udp_sink.c *)

UdpSinkOpen(p) ==
    LET q == Free(p, {"fd"})
    IN  Fail(p) \cup Fail(q) \cup Ok(Get(q, {"fd"} \cup ({"pacer"} \ p.held)))

UdpSinkClose(p) == Ok(Free(p, {"fd", "pacer"}))

UdpSinkStart(p) == Ok(p)
UdpSinkStop(p)  == Ok(p)

UdpSinkSendDatagram(p) == Ok(p) \cup Again(Shed(p)) \cup Fail(Shed(p))

(* The pacer drops a datagram that is too late, and says so with AGAIN. *)
UdpSinkProcess(p, in) ==
    IF ~Has(p, "fd") THEN Fail(p)
    ELSE Fail(Shed(p)) \cup UdpSinkSendDatagram(p) \cup
         (IF Is(p, "timestamp_pacing") THEN Ok(Shed(Use(p, {"pacer"}))) ELSE {})

UdpSinkSetProperty(p) == Fail(p) \cup Ok(On(p, {"timestamp_pacing"}))

----------------------------------------------------------------------------
(* dante_dep_source.c and dante_dep_sink.c: an endpoint on a context that  *)
(* is shared with the other elements of the same shared memory.            *)

DepOpen(p)  == AllOrNothing(p, {"endpoint", "context"})
DepClose(p) == Ok(Off(Free(p, {"endpoint", "context"}), {"enabled"}))
DepStart(p) == IF Has(p, "endpoint") THEN Ok(On(p, {"enabled"})) \cup Fail(p) ELSE Fail(p)
DepStop(p)  == Ok(Off(p, {"enabled"}))

DepSourceOpen(p)  == DepOpen(p)
DepSourceClose(p) == DepClose(p)
DepSourceStart(p) == DepStart(p)
DepSourceStop(p)  == DepStop(p)

DepSourceProcess(p, in) ==
    IF ~Has(p, "endpoint") THEN Fail(p)
    ELSE Again(p) \cup (IF Is(p, "enabled") THEN Out(p, "data") \cup Fail(Shed(p)) ELSE {})

DepSinkOpen(p)  == DepOpen(p)
DepSinkClose(p) == DepClose(p)
DepSinkStart(p) == DepStart(p)
DepSinkStop(p)  == DepStop(p)

DepSinkProcess(p, in) ==
    IF ~Has(p, "endpoint") THEN Fail(p)
    ELSE Fail(Shed(p)) \cup Again(Shed(p)) \cup (IF Is(p, "enabled") THEN Ok(p) ELSE {})

(* Only a closed element takes settings. *)
DepSetProperty(p) == Fail(p) \cup (IF Has(p, "endpoint") THEN {} ELSE Ok(On(p, {"shm_name"})))

----------------------------------------------------------------------------
(* The ops tables *)
UdpSrcOps(h, p, in) ==
    CASE h = "open" -> UdpSrcOpen(p) [] h = "close" -> UdpSrcClose(p)
      [] h = "process" -> UdpSrcProcess(p, in)
      [] h = "thread" -> UdpSrcThread(p)
      [] h = "set_property" -> UdpSrcSetProperty(p) [] OTHER -> NoHook

UdpSinkOps(h, p, in) ==
    CASE h = "open" -> UdpSinkOpen(p) [] h = "close" -> UdpSinkClose(p)
      [] h = "start" -> UdpSinkStart(p) [] h = "stop" -> UdpSinkStop(p)
      [] h = "process" -> UdpSinkProcess(p, in)
      [] h = "set_property" -> UdpSinkSetProperty(p) [] OTHER -> NoHook

DepSourceOps(h, p, in) ==
    CASE h = "open" -> DepSourceOpen(p) [] h = "close" -> DepSourceClose(p)
      [] h = "start" -> DepSourceStart(p) [] h = "stop" -> DepSourceStop(p)
      [] h = "process" -> DepSourceProcess(p, in)
      [] h = "set_property" -> DepSetProperty(p) [] OTHER -> NoHook

DepSinkOps(h, p, in) ==
    CASE h = "open" -> DepSinkOpen(p) [] h = "close" -> DepSinkClose(p)
      [] h = "start" -> DepSinkStart(p) [] h = "stop" -> DepSinkStop(p)
      [] h = "process" -> DepSinkProcess(p, in)
      [] h = "set_property" -> DepSetProperty(p) [] OTHER -> NoHook
===========================================================================
