---------------------------- MODULE ZstHwCodecs ----------------------------
(***************************************************************************)
(* The hooks of the codecs that drive a device: the V4L2 memory-to-memory  *)
(* elements, VA-API (through FFmpeg) and oneVPL.                           *)
(***************************************************************************)
EXTENDS ZstCodecs

----------------------------------------------------------------------------
(* nv_video_encoder.c: a V4L2 memory-to-memory device.  The two buffer     *)
(* arrays hold the mappings of the device's buffers.                       *)

NvEncOpen(p) ==
    Fail(p) \cup Ok(Off(Null(Get(p, {"fd"}), {"pool"}), {"initialized"}))

NvEncClose(p) ==
    Ok(Off(FreeCodec(p, {"pool"} \cup
                        (IF Has(p, "fd") THEN {"capture", "output", "fd"} ELSE {})),
           {"initialized"}))

NvEncStart(p) == IF Has(p, "fd") THEN Ok(p) ELSE Fail(p)

(* VIDIOC_STREAMOFF on both queues: the device drops what it holds. *)
NvEncStop(p) ==
    Ok(IF Has(p, "fd") /\ Is(p, "initialized") THEN Inside(p, 0) ELSE p)

(* Every ioctl that fails returns at once; the pool is not checked. *)
NvEncInitV4l2(p) ==
    Then(StepByStep(p, <<"capture", "output">>),
         LAMBDA q : Fail(q) \cup Ok(On(Get(q, {"pool"}), {"initialized"})))

(* One buffer in, and one out when the device has one within 100 ms. *)
NvEncProcess(p, in) ==
    IF ~Has(p, "fd") \/ in = "eos" THEN Fail(p)
    ELSE Fail(p) \cup
         Then(IF Is(p, "initialized") THEN Ok(p) ELSE NvEncInitV4l2(p),
              LAMBDA q : LET u == Use(q, {"output", "capture", "pool"}) IN
                  Ok(Shed(u)) \cup (IF CanTake(u) THEN Ok(Taken(u)) ELSE {})
                  \cup Out(u, "data"))

NvEncSinkPush(p, in) == PushOut(NvEncProcess(p, in))
NvEncSetProperty(p)  == Ok(On(p, {"codec"}))

(* nv_video_decoder.c *)
NvDecOpen(p) ==
    Fail(p) \cup Ok(Off(Null(Get(p, {"fd"}), {"pool"}), {"initialized"}))

NvDecCleanupBuffers(p) == Free(p, {"output", "capture"})

NvDecClose(p) ==
    Ok(Off(FreeCodec(IF Has(p, "fd") THEN Free(NvDecCleanupBuffers(p), {"fd"}) ELSE p,
                     {"pool"}), {"initialized"}))

NvDecStart(p) == IF Has(p, "fd") THEN Ok(p) ELSE Fail(p)
NvDecStop(p)  == NvEncStop(p)

NvDecInitV4l2(p) ==
    Then(StepByStep(p, <<"output">>),
         LAMBDA q : Fail(q) \cup Ok(On(q, {"initialized"})))

(* The capture queue is set up again at every resolution change; its       *)
(* result is ignored by the caller.                                        *)
NvDecHandleResolutionChange(p) ==
    Fail(p) \cup
    Then(Ok(Get(p, {"capture"})),
         LAMBDA q : Fail(q) \cup
             Ok(IF Has(q, "pool") THEN q ELSE Get(q, {"pool"})))

(* EOS is queued to the device, which answers with an empty buffer. *)
NvDecProcess(p, in) ==
    IF ~Has(p, "fd") THEN Fail(p)
    ELSE Then(IF Is(p, "initialized") THEN Ok(p) ELSE NvDecInitV4l2(p),
              LAMBDA q : Regardless(Ok(q) \cup NvDecHandleResolutionChange(q),
                  LAMBDA r : LET u == Use(r, {"output"})
                                 full == Ok(Shed(u)) IN
                      full \cup (IF CanTake(u) /\ in = "data" THEN Ok(Taken(u)) ELSE {})
                      \cup (IF Has(u, "capture") /\ Has(u, "pool")
                            THEN Out(u, "data") \cup
                                 (IF in = "eos" /\ u.n = 0 THEN Out(u, "eos") ELSE {})
                            ELSE {})))

NvDecSinkPush(p, in) == PushOut(NvDecProcess(p, in))
NvDecSetProperty(p)  == Ok(On(p, {"codec"}))

(* nv_video_scaler.c.  close leaves the flag "initialized" set. *)
NvScaleOpen(p) ==
    Fail(p) \cup Ok(Off(Null(Get(p, {"fd"}), {"pool"}), {"initialized"}))

NvScaleClose(p) ==
    Ok(FreeCodec(p, {"pool"} \cup
                    (IF Has(p, "fd") THEN {"capture", "output", "fd"} ELSE {})))

NvScaleStart(p) == IF Has(p, "fd") THEN Ok(p) ELSE Fail(p)
NvScaleStop(p)  == NvEncStop(p)

(* The planes are those of calloc, a null pointer: storing the mappings    *)
(* goes through it.                                                        *)
NvScaleInitV4l2(p) ==
    Then(StepByStep(p, <<"output", "capture">>),
         LAMBDA q : Fail(q) \cup
             Ok(On(Get(Use(q, {"planes"}), {"pool"}), {"initialized"})))

NvScaleProcess(p, in) ==
    IF ~Has(p, "fd") \/ in = "eos" THEN Fail(p)
    ELSE Fail(p) \cup
         Then(IF Is(p, "initialized") THEN Ok(p) ELSE NvScaleInitV4l2(p),
              LAMBDA q : LET u == Use(q, {"output", "capture", "pool"}) IN
                  Ok(Shed(u)) \cup (IF CanTake(u) THEN Ok(Taken(u)) ELSE {})
                  \cup Out(u, "data"))

NvScaleSinkPush(p, in) == PushOut(NvScaleProcess(p, in))
NvScaleSetProperty(p)  == Ok(On(p, {"width"}))

----------------------------------------------------------------------------
(* vaapi_video_encoder.c *)

VaEncOpen(p) ==
    AllOrNothing(PendingClear(Off(Null(p, {"ctx", "device", "hw_frames", "pool"}),
                                  {"initialized", "draining"})), {"device"})

VaEncClose(p) ==
    Ok(Off(FreeCodec(PendingClear(p), {"pool", "ctx", "hw_frames", "device"}),
           {"initialized", "draining"}))

(* A frames context that cannot be initialised is left where it is. *)
VaEncSetupHwFrames(p) ==
    Fail(p) \cup MayFail(Get(Use(p, {"device"}), {"hw_frames"}))

(* Every failure frees the codec context, and only that. *)
VaEncInitEncoder(p) ==
    Fail(p) \cup
    UNION {IF r.ret = "err" THEN Fail(Free(r.p, {"ctx"}))
           ELSE Fail(Free(r.p, {"ctx"})) \cup
                Ok(On(Get(r.p, {"pool"}), {"initialized"})) :
           r \in VaEncSetupHwFrames(Get(p, {"ctx"}))}

(* vaapi_make_hw_frame imports the DMABUF or uploads the picture; every    *)
(* failure frees the frames it made.                                       *)
VaEncMakeHwFrame(p) == MayFail(Use(p, {"ctx", "hw_frames"}))

VaEncQueuePacket(p)    == H265QueuePacket(p)
VaEncReceivePackets(p) == H265ReceivePackets(p)
VaEncQueueEos(p)       == Fail(p) \cup PendingPush(p, "eos")

(* A full encoder is emptied first and the frame offered once more. *)
VaEncProcess(p, in) ==
    IF p.pend # <<>> THEN PendingPop(p)
    ELSE IF in = "eos"
    THEN Then(IF Is(p, "initialized") /\ ~Is(p, "draining")
              THEN Fail(Shed(On(p, {"draining"})))
                   \cup VaEncReceivePackets(End(On(p, {"draining"})))
              ELSE Ok(p),
              LAMBDA q : Then(VaEncQueueEos(q), PendingPop))
    ELSE Fail(p) \cup
         Then(IF Is(p, "initialized") THEN Ok(p) ELSE VaEncInitEncoder(p),
              LAMBDA q : Then(VaEncMakeHwFrame(q),
                  LAMBDA u : LET v == Off(u, {"force_keyframe"}) IN
                      Fail(Shed(v)) \cup
                      Then(IF CanTake(v) THEN Ok(v) ELSE VaEncReceivePackets(v),
                           LAMBDA w : IF CanTake(w)
                               THEN Then(VaEncReceivePackets(Taken(w)), PendingPop)
                               ELSE Fail(Shed(w)))))

VaEncSetProperty(p) ==
    IF Is(p, "initialized") THEN Fail(p) ELSE Ok(On(p, {"device"}))

VaEncEvent(p)        == Ok(On(p, {"force_keyframe"}))
VaEncSinkPush(p, in) == PushList(VaEncProcess(p, in))

(* vaapi_video_decoder.c.  open makes the frame before it can fail. *)
VaDecOpen(p) ==
    LET clean == Off(Null(p, {"ctx", "device"}), {"initialized"})
        framed == Null(Get(clean, {"hw_frame"}), {"pool"})
    IN  Fail(clean) \cup Fail(framed) \cup Ok(Get(framed, {"device"}))

VaDecClose(p) ==
    Ok(Off(FreeCodec(p, {"pool", "ctx", "device", "hw_frame"}), {"initialized"}))

VaDecUpdatePool(p) == H264UpdatePool(p)

VaDecInitDecoder(p) ==
    Then(AllOrNothing(Use(p, {"device"}), {"ctx"}), LAMBDA q : Ok(On(q, {"initialized"})))

(* As a DMABUF a frame needs no pool: it keeps the device's frame alive. *)
VaDecEmitFrame(p) ==
    LET got == Inside(p, p.n - 1)
    IN  IF Is(p, "dmabuf") THEN Fail(Shed(got)) \cup Push(got, "data")
        ELSE H264EmitFrame(p)

VaDecReceive(p, ready) ==
    Fail(Flushed(p)) \cup Again(Flushed(p)) \cup
    (UNION {IF k = 0 THEN Ok(p)
            ELSE VaDecEmitFrame(Inside(p, p.n - k + 1)) : k \in ready}) \cup
    (UNION {{r \in VaDecEmitFrame(Inside(p, p.n - k + 1)) : r.ret = "err"} :
                k \in 1 .. p.n})

VaDecProcess(p, in) ==
    Then(IF Is(p, "initialized") THEN Ok(p) ELSE VaDecInitDecoder(p),
         LAMBDA q : LET u == Use(q, {"ctx", "hw_frame"}) IN
             IF in = "eos"
             THEN Then(VaDecReceive(End(u), {u.n}), LAMBDA r : Fail(r) \cup Push(r, "eos"))
             ELSE IF Is(u, "ended") THEN Fail(u) \cup Ok(Shed(u))
             ELSE Fail(u) \cup Fail(Flushed(u)) \cup Again(Flushed(u)) \cup
                  Then(IF CanTake(u) THEN Ok(u) ELSE VaDecReceive(u, {u.n}),
                       LAMBDA r : VaDecReceive(Taken(r), 0 .. r.n + 1)))

VaDecSinkPush(p, in) == PushOut(VaDecProcess(p, in))
VaDecSetProperty(p)  == Ok(On(p, {"codec"})) \cup Ok(On(p, {"dmabuf"}))

----------------------------------------------------------------------------
(* oneapi_video_encoder.c.  open does not clear loader and session, which  *)
(* create_session sets or leaves null.                                     *)

OneEncCreateSession(p) ==
    Then(AllOrNothing(p, {"loader", "session"}), LAMBDA q : Ok(On(q, {"session_ready"})))

OneEncOpen(p) ==
    OneEncCreateSession(PendingClear(Off(Null(p, {"pool", "bitstream"}),
                                         {"initialized", "draining", "session_ready"})))

OneEncClose(p) ==
    Ok(Off(FreeCodec(PendingClear(p), {"bitstream", "pool", "session", "loader"}),
           {"initialized", "draining", "session_ready"}))

OneEncInitEncoder(p) ==
    IF ~Is(p, "session_ready") \/ ~Has(p, "session") THEN Fail(p)
    ELSE Then(AllOrNothing(p, {"bitstream", "pool"}), LAMBDA q : Ok(On(q, {"initialized"})))

OneEncQueuePacket(p) == H265QueuePacket(p)

(* oneapi_encode_async and oneapi_send_surface: one surface in, and one    *)
(* packet out unless the encoder wants more                                *)
OneEncSendSurface(p) ==
    LET u == Off(Use(p, {"session", "bitstream"}), {"force_keyframe"}) IN
    Fail(Shed(u)) \cup (IF CanTake(u) THEN Ok(Taken(u)) ELSE {})
    \cup (IF Is(u, "ended") THEN {} ELSE OneEncQueuePacket(Taken(u)))

OneEncDrain(p) ==
    LET after(k) == Listed(Inside(p, p.n - k), p.pend \o [i \in 1 .. k |-> "data"])
    IN  Ok(after(p.n)) \cup (UNION {Fail(Shed(after(k))) : k \in 0 .. p.n})
        \cup UNION {{r \in OneEncQueuePacket(after(k)) : r.ret = "err"} : k \in 0 .. p.n - 1}

OneEncProcess(p, in) ==
    IF p.pend # <<>> THEN PendingPop(p)
    ELSE IF in = "eos"
    THEN Then(IF Is(p, "initialized") /\ ~Is(p, "draining")
              THEN OneEncDrain(End(On(p, {"draining"}))) ELSE Ok(p),
              LAMBDA q : Fail(q) \cup Then(PendingPush(q, "eos"), PendingPop))
    ELSE Fail(p) \cup
         Then(IF Is(p, "initialized") THEN Ok(p) ELSE OneEncInitEncoder(p),
              LAMBDA q : Fail(q) \cup Then(OneEncSendSurface(q), PendingPop))

OneEncSetProperty(p) ==
    IF Is(p, "initialized") THEN Fail(p) ELSE Ok(On(p, {"codec"}))

OneEncEvent(p)        == Ok(On(p, {"force_keyframe"}))
OneEncSinkPush(p, in) == PushList(OneEncProcess(p, in))

(* oneapi_video_decoder.c.  The input is gathered in the bitstream until   *)
(* the header is complete; a session without hardware is tried in software.*)
OneDecCreateSession(p) ==
    Then(AllOrNothing(p, {"loader", "session"}), LAMBDA q : Ok(On(q, {"session_ready"})))

OneDecOpen(p) ==
    OneDecCreateSession(PendingClear(Off(Null(p, {"pool", "bitstream", "drm_fd", "va_dpy"}),
                                         {"initialized", "draining", "session_ready"})))

OneDecClose(p) ==
    Ok(Off(FreeCodec(PendingClear(p),
                     {"bitstream", "pool", "session", "loader", "va_dpy", "drm_fd"}),
           {"initialized", "draining", "session_ready"}))

OneDecInitDecoder(p) ==
    IF ~Is(p, "session_ready") \/ ~Has(p, "session") THEN Fail(p)
    ELSE Again(p) \cup
         Then(AllOrNothing(p, {"pool"}), LAMBDA q : Ok(On(q, {"initialized"})))

OneDecDecodeAllAvailable(p) ==
    LET u == Use(p, {"session", "bitstream", "pool"})
        after(k) == Listed(Inside(u, u.n - k), u.pend \o [i \in 1 .. k |-> "data"])
    IN  (UNION {Ok(after(k)) \cup Fail(Shed(after(k))) : k \in 0 .. u.n})
        \cup UNION {{r \in H265QueuePacket(after(k)) : r.ret = "err"} : k \in 0 .. u.n - 1}

OneDecDrainDecoder(p) == OneEncDrain(Use(p, {"session", "pool"}))

OneDecProcess(p, in) ==
    IF p.pend # <<>> THEN PendingPop(p)
    ELSE IF in = "eos"
    THEN Then(IF Is(p, "initialized") /\ ~Is(p, "draining")
              THEN OneDecDrainDecoder(End(On(p, {"draining"}))) ELSE Ok(p),
              LAMBDA q : Fail(q) \cup Then(PendingPush(q, "eos"), PendingPop))
    ELSE Fail(p) \cup
         LET q == IF Has(p, "bitstream") THEN p ELSE Get(p, {"bitstream"})
         IN  UNION {IF r.ret = "again" THEN Ok(r.p)
                    ELSE IF r.ret = "err" THEN {r}
                    ELSE Then(OneDecDecodeAllAvailable(
                                  IF CanTake(r.p) THEN Taken(r.p) ELSE Shed(r.p)),
                              PendingPop) :
                    r \in IF Is(q, "initialized") THEN Ok(q) ELSE OneDecInitDecoder(q)}

OneDecSetProperty(p) ==
    IF Is(p, "initialized") THEN Fail(p) ELSE Ok(On(p, {"codec"}))

OneDecSinkPush(p, in) == PushList(OneDecProcess(p, in))

----------------------------------------------------------------------------
(* The ops tables.  The own push function of a sink pad, which is not in  *)
(* the table, goes by the name "push".                                     *)

NvEncOps(h, p, in) ==
    CASE h = "open" -> NvEncOpen(p) [] h = "close" -> NvEncClose(p)
      [] h = "start" -> NvEncStart(p) [] h = "stop" -> NvEncStop(p)
      [] h = "push" -> NvEncSinkPush(p, in)
      [] h = "set_property" -> NvEncSetProperty(p) [] OTHER -> NoHook

NvDecOps(h, p, in) ==
    CASE h = "open" -> NvDecOpen(p) [] h = "close" -> NvDecClose(p)
      [] h = "start" -> NvDecStart(p) [] h = "stop" -> NvDecStop(p)
      [] h = "push" -> NvDecSinkPush(p, in)
      [] h = "set_property" -> NvDecSetProperty(p) [] OTHER -> NoHook

NvScaleOps(h, p, in) ==
    CASE h = "open" -> NvScaleOpen(p) [] h = "close" -> NvScaleClose(p)
      [] h = "start" -> NvScaleStart(p) [] h = "stop" -> NvScaleStop(p)
      [] h = "push" -> NvScaleSinkPush(p, in)
      [] h = "set_property" -> NvScaleSetProperty(p) [] OTHER -> NoHook

VaEncOps(h, p, in) ==
    CASE h = "open" -> VaEncOpen(p) [] h = "close" -> VaEncClose(p)
      [] h = "push" -> VaEncSinkPush(p, in)
      [] h = "set_property" -> VaEncSetProperty(p)
      [] h = "event" -> VaEncEvent(p) [] OTHER -> NoHook

VaDecOps(h, p, in) ==
    CASE h = "open" -> VaDecOpen(p) [] h = "close" -> VaDecClose(p)
      [] h = "push" -> VaDecSinkPush(p, in)
      [] h = "set_property" -> VaDecSetProperty(p) [] OTHER -> NoHook

OneEncOps(h, p, in) ==
    CASE h = "open" -> OneEncOpen(p) [] h = "close" -> OneEncClose(p)
      [] h = "push" -> OneEncSinkPush(p, in)
      [] h = "set_property" -> OneEncSetProperty(p)
      [] h = "event" -> OneEncEvent(p) [] OTHER -> NoHook

OneDecOps(h, p, in) ==
    CASE h = "open" -> OneDecOpen(p) [] h = "close" -> OneDecClose(p)
      [] h = "push" -> OneDecSinkPush(p, in)
      [] h = "set_property" -> OneDecSetProperty(p) [] OTHER -> NoHook
=============================================================================
