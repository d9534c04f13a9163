---------------------------- MODULE ZstComposers ----------------------------
(***************************************************************************)
(* The hooks of the elements that take buffers on the threads of others    *)
(* and work on a thread of their own: the queue element, the audio mixer   *)
(* and the two compositors; and of the RTSP sink with its two pads.  In    *)
(* the vocabulary of ZstHooks.                                             *)
(***************************************************************************)
EXTENDS ZstDante

(* pthread_create whose result is not looked at: the identifier is then    *)
(* whatever it was, and joined all the same.                               *)
ThreadUnchecked(p, t) == Ok(Get(p, {t})) \cup Ok(On(p, {"thread_unset"}))

Joined(p, t) ==
    LET q == IF Is(p, "thread_unset") THEN Use(p, {t}) ELSE p
    IN  Off(Free(q, {t}), {"thread_unset"})

----------------------------------------------------------------------------
(* zst_queue_element.c.  pend is the queue. *)

QueueElDropped(p) == IF p.pend = <<>> THEN p ELSE Shed(Listed(p, <<>>))

QueueElOpen(p)  == AllOrNothing(p, {"queue"})
QueueElClose(p) == Ok(Free(QueueElDropped(p), {"queue"}))
QueueElStart(p) == AllOrNothing(p, {"thread"})

(* The queue is flushed, EOS and all, before the thread is joined. *)
QueueElStop(p)  == Ok(Free(QueueElDropped(p), {"thread"}))

(* A full queue makes the caller wait, or refuses (asynchronous mode).  A  *)
(* buffer marked to be dropped is; one that is larger than the buffers of  *)
(* the pool is an error.  EOS is never marked: whatever sets               *)
(* ZST_BUFFER_FLAG_DROP leaves EOS out (zst_pad.c:276-285,                 *)
(* zst_queue_element.c:38-48, gl_comp_sink.c:1105, ipp_comp_sink.c:743) or *)
(* makes a buffer of data (rtp_depayloader.c:262).                         *)
QueueElSinkPush(p, in) ==
    LET queued == IF Len(p.pend) < MaxInside THEN Ok(Listed(p, Append(p.pend, in)))
                  ELSE Blocked(p) \cup Fail(Shed(p))
    IN  IF ~Has(p, "queue") THEN Fail(p)
        ELSE queued \cup
             (IF in = "eos" THEN {}
              ELSE Ok(Shed(p)) \cup (IF Is(p, "pool") THEN Fail(Shed(p)) ELSE {}))

(* Late data is dropped; what the peer answers is not looked at. *)
QueueElWorker(p) ==
    LET q == Listed(p, Tail(p.pend))
    IN  IF ~Has(p, "thread") \/ p.pend = <<>> THEN NoHook
        ELSE Push(q, Head(p.pend)) \cup
             (IF Head(p.pend) = "data" THEN Ok(Shed(q)) ELSE {})

QueueElSetPool(p) == Ok(On(p, {"pool"}))

----------------------------------------------------------------------------
(* audio_mixer.c.  n counts the buffers of all inputs; an input holds one  *)
(* (m_data), and a push into an input that has one waits.                  *)

MixerPads == {"sink_0", "sink_1"}

(* request_pad for every pad of L *)
MixerCreate(L) ==
    [Calloc EXCEPT !.links = L, !.on = PadFlags(L, "active"),
                   !.held = PadFlags(L, "queue")]

MixerWith(p, f) == {m \in p.links : Is(p, PadFlag(m, f))}

(* A buffer leaves the inputs C. *)
MixerTake(p, C) == Inside(Off(p, PadFlags(C, "data")), p.n - Cardinality(C))

MixerOpen(p) == Ok(p)

(* An input keeps the end of stream of an earlier run. *)
MixerStart(p) ==
    ThreadUnchecked(On(Off(p, {"worker_done"}), {"running"}), "thread")

MixerStop(p) == Ok(Off(Joined(p, "thread"), {"running"}))

(* The inputs go, and the pads stay. *)
MixerClose(p) ==
    LET q == MixerTake(p, MixerWith(p, "data"))
    IN  Ok(Off(Free(Joined(q, "thread"), PadFlags(MixerPads, "queue") \cup {"fmix"}),
               {"running"} \cup PadFlags(MixerPads, "active") \cup PadFlags(MixerPads, "eos")))

MixerReleasePad(p) ==
    UNION {IF ~Is(p, PadFlag(m, "active")) THEN Fail(p)
           ELSE LET q == IF Is(p, PadFlag(m, "data")) THEN Shed(MixerTake(p, {m})) ELSE p
                IN  Ok(Unlinked(Off(Free(q, {PadFlag(m, "queue")}),
                                    {PadFlag(m, "active"), PadFlag(m, "eos")}), m)) :
               m \in p.links}

MixerSinkPush(p, in) ==
    LET m == in.pad
        active == Is(p, PadFlag(m, "active"))
    IN  IF in.kind = "eos" THEN Ok(IF active THEN On(p, {PadFlag(m, "eos")}) ELSE p)
        ELSE IF ~Is(p, "running") \/ ~active THEN Ok(Shed(p))
        ELSE (IF Is(p, "max-lateness") THEN Ok(Shed(p)) ELSE {}) \cup
             (IF Is(p, PadFlag(m, "data")) THEN Blocked(p)
              ELSE Ok(Taken(On(p, {PadFlag(m, "data")}))))

(* One block: of the inputs C, while the others are silent, late or ahead; *)
(* stale buffers are dropped; there may be no memory, for the sum or for   *)
(* the buffer.                                                             *)
MixerMix(p) ==
    LET mixed(C) == MixerTake(Get(p, {"fmix"} \ p.held), C)
    IN  Ok(p) \cup
        UNION {Push(mixed(C), "data") \cup Push(Shed(mixed(C)), "data")
               \cup Ok(Shed(mixed(C))) : C \in SUBSET MixerWith(p, "data")}

(* The end, once every input has ended and is empty; else a block, once    *)
(* there is data and the others have it too or have been waited for.       *)
MixerWorker(p) ==
    LET active == MixerWith(p, "active")
        data   == MixerWith(p, "data")
    IN  IF ~Has(p, "thread") \/ Is(p, "worker_done") THEN NoHook
        ELSE IF active # {} /\ active \subseteq MixerWith(p, "eos") \ data
             THEN Finally(Push(p, "eos") \cup Ok(Shed(p)),
                          LAMBDA q : On(q, {"worker_done"}))
        ELSE IF data = {} THEN NoHook
        ELSE MixerMix(p)

MixerSetProperty(p) == Fail(p) \cup Ok(On(p, {"max-lateness"}))

----------------------------------------------------------------------------
(* rtsp_sink.c.  The sink listens; the muxer lives from start() to stop(). *)

RtspPads  == {"video", "audio"}
RtspFlags == {"header_written"} \cup PadFlags(RtspPads, "idx") \cup PadFlags(RtspPads, "eos")

RtspSinkOpen(p)  == Ok(Off(Null(p, {"fc"}), RtspFlags))
RtspSinkClose(p) == Ok(Off(Free(p, {"fc"} \cup PadFlags(RtspPads, "pacer")), RtspFlags))
RtspSinkStop(p)  == RtspSinkClose(p)

(* The video stream is made before the audio stream.  After a failure the  *)
(* muxer is gone and the stream indices stay.                              *)
RtspSinkStart(p) ==
    LET made == {S \in SUBSET p.links : "video" \in p.links \ S => S = {}}
    IN  Fail(Null(p, {"fc"})) \cup
        (UNION {Fail(On(p, PadFlags(S, "idx"))) : S \in made}) \cup
        Ok(On(Off(Get(p, {"fc"}), PadFlags(RtspPads, "eos")),
              {"header_written"} \cup PadFlags(p.links, "idx")))

(* The trailer is written once all linked pads have ended; nothing is said *)
(* on the bus.                                                             *)
RtspSinkCheckEos(p) ==
    IF Has(p, "fc") /\ \A m \in p.links : Is(p, PadFlag(m, "eos"))
    THEN Off(p, {"header_written"}) ELSE p

RtspSinkPacer(p, m) ==
    IF {"udp-timestamp-pacing", "udp"} \subseteq p.on
    THEN Get(p, {PadFlag(m, "pacer")} \ p.held) ELSE p

RtspSinkWritePacket(p, m) ==
    IF ~Has(p, "fc") THEN Fail(p)
    ELSE LET q == RtspSinkPacer(p, m)
         IN  Ok(q) \cup Fail(q) \cup (IF Has(q, PadFlag(m, "pacer")) THEN Ok(Shed(q)) ELSE {})

RtspSinkPush(p, in) ==
    IF in.kind = "eos" THEN Ok(RtspSinkCheckEos(On(p, {PadFlag(in.pad, "eos")})))
    ELSE IF ~Is(p, PadFlag(in.pad, "idx")) THEN Ok(Shed(p))
    ELSE RtspSinkWritePacket(p, in.pad)

RtspSinkSetProperty(p) == Fail(p) \cup {Outcome("ok", On(p, {f}), "none") :
                                            f \in {"udp-timestamp-pacing", "udp"}}

----------------------------------------------------------------------------
(* ipp_comp_sink.c and gl_comp_sink.c: inputs of request pads (sink_0 is   *)
(* there from the start), drawn on a canvas by a thread between open() and *)
(* close().  An input owns its queue and its latest frame.                 *)

CompPads == {"sink_0", "sink_1"}

CompCreate(L) ==
    [Calloc EXCEPT !.links = L, !.held = PadFlags(L \cup {"sink_0"}, "input")]

CompInputs(p) == {m \in CompPads : Has(p, PadFlag(m, "input"))}

CompInputFree(p, S) == Off(Free(p, PadFlags(S, "input")), PadFlags(S, "eos"))

CompReleasePad(p) ==
    UNION {IF m \in CompInputs(p)
           THEN Ok(Unlinked(CompInputFree(p, {m}), m))
           ELSE Fail(p) : m \in p.links}

(* The queue of an input takes what it has room for.  The last EOS is      *)
(* answered with ZST_EOF and not told to the bus.  The pad of an input     *)
(* that close() freed still points to it.                                  *)
CompSinkPadPush(p, in) ==
    LET q == On(p, {PadFlag(in.pad, "eos")})
    IN  IF in.pad \notin CompInputs(p) THEN MayFail(Use(p, {PadFlag(in.pad, "input")}))
        ELSE IF in.kind = "data" THEN Ok(p) \cup Ok(Shed(p))
        ELSE IF \A m \in CompInputs(p) : Is(q, PadFlag(m, "eos")) THEN Eof(q) ELSE Ok(q)

(* process() is the push of sink_0; without a buffer there is nothing to do. *)
CompProcess(p, in) ==
    IF in = "none" THEN Again(p) ELSE CompSinkPadPush(p, [pad |-> "sink_0", kind |-> in])

IppCompOpen(p) ==
    LET q == Off(p, {"resized"})
    IN  Fail(q) \cup ThreadUnchecked(Get(q, {"canvas"}), "worker")

IppCompClose(p) == Ok(CompInputFree(Free(Joined(p, "worker"), {"canvas"}), CompPads))

(* The canvas has the size of open(), and is drawn with the size of now. *)
IppCompRender(p) ==
    IF Is(p, "resized") THEN Stray(p, {"canvas"}) ELSE p

IppCompWorker(p) == IF Has(p, "worker") THEN Ok(IppCompRender(p)) ELSE NoHook

IppCompSetProperty(p) ==
    Fail(p) \cup Ok(On(p, {"canvas-width"} \cup (IF Has(p, "canvas") THEN {"resized"} ELSE {})))

(* The first thing the worker does: a context on the window open() made.   *)
(* Both flags are never reset: after one failure every later open() gives  *)
(* up its window, after a success none waits for the worker.               *)
GlCompWorkerInit(p) ==
    LET q == Off(p, {"starting"})
    IN  IF Has(q, "display") /\ ~Is(q, "null_mode")
        THEN Ok(On(Get(q, {"gl_context"}), {"gl_ready"})) \cup
             Ok(On(q, {"null_mode", "gl_init_error"}))
        ELSE Ok(On(q, {"gl_ready"}))

(* Every failure ends in the null mode, with success. *)
GlCompOpen(p) ==
    LET q == Off(p, {"null_mode"})
        null(r) == On(Free(r, {"display"}), {"null_mode"})
        started == Finally(ThreadUnchecked(Get(q, {"display"}), "worker"),
                           LAMBDA r : IF Has(r, "worker") THEN On(r, {"starting"}) ELSE r)
        waited(r) ==
            IF Is(r, "gl_init_error") THEN {null(r)}
            ELSE IF Is(r, "gl_ready") THEN {r}
            ELSE {null(r)} \cup
                 (IF ~Is(r, "starting") THEN {}
                  ELSE {IF Is(w.p, "gl_init_error") THEN null(w.p) ELSE w.p :
                            w \in GlCompWorkerInit(r)})
    IN  Ok(null(q)) \cup UNION {UNION {Ok(x) : x \in waited(r.p)} : r \in started}

(* The worker that is joined has had its first turn, and takes its context *)
(* with it.                                                                *)
GlCompClose(p) ==
    Finally(IF Is(p, "starting") THEN GlCompWorkerInit(p) ELSE Ok(p),
            LAMBDA q : CompInputFree(Off(Free(Joined(q, "worker"), {"gl_context", "display"}),
                                         {"null_mode"}), CompPads))

(* ZST_EOF when the user has closed the window *)
GlCompRender(p) ==
    LET q == Use(p, {"display"})
    IN  IF Is(p, "null_mode") \/ ~Has(p, "gl_context") THEN Ok(p) ELSE Ok(q) \cup Eof(q)

(* A closed window is an EOS on the bus, and null mode. *)
GlCompWorker(p) ==
    IF ~Has(p, "worker") THEN NoHook
    ELSE IF Is(p, "starting") THEN GlCompWorkerInit(p)
    ELSE UNION {IF r.ret = "ok" THEN {r}
                ELSE Ok(On(Send(r.p, <<"eos">>), {"null_mode"})) : r \in GlCompRender(p)}

GlCompSetProperty(p) == Fail(p) \cup Ok(On(p, {"canvas-width"}))

----------------------------------------------------------------------------
(* The ops tables *)
QueueElOps(h, p, in) ==
    CASE h = "open" -> QueueElOpen(p) [] h = "close" -> QueueElClose(p)
      [] h = "start" -> QueueElStart(p) [] h = "stop" -> QueueElStop(p)
      [] h = "push" -> QueueElSinkPush(p, in) [] h = "thread" -> QueueElWorker(p)
      [] h = "set_property" -> QueueElSetPool(p) [] OTHER -> NoHook

MixerOps(h, p, in) ==
    CASE h = "open" -> MixerOpen(p) [] h = "close" -> MixerClose(p)
      [] h = "start" -> MixerStart(p) [] h = "stop" -> MixerStop(p)
      [] h = "push" -> MixerSinkPush(p, in) [] h = "thread" -> MixerWorker(p)
      [] h = "release_pad" -> MixerReleasePad(p)
      [] h = "set_property" -> MixerSetProperty(p) [] OTHER -> NoHook

RtspSinkOps(h, p, in) ==
    CASE h = "open" -> RtspSinkOpen(p) [] h = "close" -> RtspSinkClose(p)
      [] h = "start" -> RtspSinkStart(p) [] h = "stop" -> RtspSinkStop(p)
      [] h = "push" -> RtspSinkPush(p, in)
      [] h = "set_property" -> RtspSinkSetProperty(p) [] OTHER -> NoHook

IppCompOps(h, p, in) ==
    CASE h = "open" -> IppCompOpen(p) [] h = "close" -> IppCompClose(p)
      [] h = "process" -> CompProcess(p, in) [] h = "push" -> CompSinkPadPush(p, in)
      [] h = "thread" -> IppCompWorker(p) [] h = "release_pad" -> CompReleasePad(p)
      [] h = "set_property" -> IppCompSetProperty(p) [] OTHER -> NoHook

GlCompOps(h, p, in) ==
    CASE h = "open" -> GlCompOpen(p) [] h = "close" -> GlCompClose(p)
      [] h = "process" -> CompProcess(p, in) [] h = "push" -> CompSinkPadPush(p, in)
      [] h = "thread" -> GlCompWorker(p) [] h = "release_pad" -> CompReleasePad(p)
      [] h = "set_property" -> GlCompSetProperty(p) [] OTHER -> NoHook
=============================================================================
