---------------------------- MODULE ZstDevices ----------------------------
(***************************************************************************)
(* The hooks of the elements in front of devices and files.  Where the     *)
(* device cannot be opened many of them go on as a mock without it.        *)
(***************************************************************************)
EXTENDS ZstHwCodecs

----------------------------------------------------------------------------
(* alsa_sink.c *)

AlsaSinkOpen(p) ==
    LET q == Null(p, {"handle"})
    IN  Ok(On(q, {"mock"})) \cup Ok(Off(Get(q, {"handle"}), {"mock"}))

AlsaSinkClose(p) == Ok(Free(p, {"handle"}))
AlsaSinkStart(p) == Ok(On(p, {"started"}))
AlsaSinkStop(p)  == Ok(Off(p, {"started"}))

(* An underrun is answered by preparing the device and writing again. *)
AlsaSinkProcess(p, in) ==
    IF ~Is(p, "started") THEN Fail(p)
    ELSE IF Is(p, "mock") THEN Ok(p) ELSE MayFail(Use(p, {"handle"}))

AlsaSinkSetProperty(p) == Fail(p) \cup Ok(On(p, {"device"}))

(* alsa_source.c.  The pool is not checked: without it process() fails. *)
AlsaSrcOpen(p) ==
    LET q == Null(p, {"handle"})
    IN  UNION {Ok(On(s, {"mock"})) \cup Ok(Off(Get(s, {"handle"}), {"mock"})) :
                   s \in {Get(q, {"pool"}), q}}

AlsaSrcClose(p) == Ok(Free(p, {"handle", "pool"}))
AlsaSrcStart(p) == Ok(p)

(* A read that fails is replaced by silence. *)
AlsaSrcProcess(p, in) ==
    Fail(p) \cup
    (IF ~Has(p, "pool") THEN {}
     ELSE IF Is(p, "mock") THEN Out(p, "data") ELSE Out(Use(p, {"handle"}), "data"))

AlsaSrcSetProperty(p) == Fail(p) \cup Ok(On(p, {"device"}))

----------------------------------------------------------------------------
(* v4l2_sink.c.  start maps the device's buffers, every failure of it      *)
(* returns at once, and stop leaves them mapped.  The property memory-type *)
(* may change at any time.                                                 *)

V4l2SinkOpen(p) ==
    Ok(On(p, {"mock"})) \cup Ok(Off(Get(p, {"fd"}), {"mock"}))

V4l2SinkStart(p) ==
    IF Is(p, "mock") THEN Ok(On(p, {"started"}))
    ELSE Fail(p) \cup
         Then(Ok(Get(Inside(Use(p, {"fd"}), 0),
                     {"buffers"} \cup (IF Is(p, "userptr") THEN {} ELSE {"maps"}))),
              LAMBDA q : Fail(q) \cup Ok(On(q, {"started"})))

V4l2SinkStop(p) == Ok(Off(p, {"started"}))

(* With all buffers in the device's queue one is taken back first. *)
V4l2SinkProcess(p, in) ==
    IF ~Is(p, "started") THEN Fail(p)
    ELSE IF Is(p, "mock") THEN Ok(p)
    ELSE LET u == Use(p, {"fd"} \cup (IF Is(p, "userptr") THEN {} ELSE {"buffers", "maps"}))
             q == IF CanTake(u) THEN u ELSE Inside(u, u.n - 1)
         IN  Fail(u) \cup Fail(q) \cup Ok(Taken(q))

V4l2SinkClose(p) ==
    Ok(IF Is(p, "mock") THEN p
       ELSE Free(p, {"buffers", "fd"} \cup (IF Is(p, "userptr") THEN {} ELSE {"maps"})))

V4l2SinkSetProperty(p) ==
    Fail(p) \cup Ok(On(p, {"device"})) \cup Ok(On(p, {"userptr"}))

(* v4l2_source.c.  The device's buffers are mapped by open, or, for        *)
(* userptr and dmabuf, taken from the pool by start.                       *)

V4l2SrcCloseExportedFds(p) == Free(p, {"exported_fds"})

V4l2SrcOpen(p) ==
    LET real(q) ==
            IF Is(p, "userptr") THEN {Get(q, {"fd", "pool_buffers"})}
            ELSE IF Is(p, "export") THEN {Get(q, {"fd", "buffers", "exported_fds"})}
            ELSE {Get(q, {"fd", "buffers"})}
    IN  UNION {Ok(On(q, {"mock"})) \cup UNION {Ok(Off(r, {"mock"})) : r \in real(q)} :
                   q \in {p, Get(p, {"pool"})}}

V4l2SrcClose(p) ==
    Ok(Free(IF Is(p, "mock") THEN V4l2SrcCloseExportedFds(p)
            ELSE Off(Free(V4l2SrcCloseExportedFds(p),
                          {"buffers", "pool_buffers", "queued", "fd"}), {"streaming"}),
            {"pool"}))

V4l2SrcStart(p) ==
    IF Is(p, "mock") THEN Ok(p)
    ELSE Then(IF Is(p, "userptr")
              THEN Fail(p) \cup MayFail(Get(Use(p, {"pool_buffers"}), {"queued"}))
              ELSE Ok(p),
              LAMBDA q : Fail(q) \cup Ok(On(q, {"streaming"})))

V4l2SrcStop(p) == Ok(IF Is(p, "mock") THEN p ELSE Off(p, {"streaming"}))

(* Without a frame within 200 ms, and for a mock, a picture is made up. *)
V4l2SrcProcess(p, in) ==
    Fail(p) \cup (IF Has(p, "pool") THEN Out(p, "data") ELSE {}) \cup
    (IF Is(p, "mock") THEN {}
     ELSE Out(Use(p, IF Is(p, "userptr") THEN {"fd"} ELSE {"fd", "buffers"}), "data"))

V4l2SrcSetProperty(p) ==
    Fail(p) \cup Ok(On(p, {"userptr"})) \cup Ok(On(p, {"export"}))

----------------------------------------------------------------------------
(* x11_sink.c.  Without a display, and after its window was closed, the    *)
(* sink counts frames in null_mode.                                        *)

X11DestroyWindow(p) == Off(Free(p, {"ximage", "gc", "window"}), {"configured"})

X11ProcessEvents(p) == {p, On(X11DestroyWindow(p), {"null_mode"})}

X11Configure(p) ==
    IF Is(p, "null_mode") THEN Ok(On(p, {"configured"}))
    ELSE IF ~Has(p, "display") THEN Fail(p)
    ELSE (IF Is(p, "configured") THEN Ok(p) ELSE {}) \cup
         LET q == X11DestroyWindow(p)
         IN  Fail(q) \cup Ok(On(Get(q, {"window", "gc", "ximage"}), {"configured"}))

X11Open(p) == Ok(Off(Get(p, {"display"}), {"null_mode"})) \cup Ok(On(p, {"null_mode"}))

X11Close(p) == Ok(Off(Free(X11DestroyWindow(p), {"display"}), {"null_mode"}))

X11Process(p, in) ==
    Fail(p) \cup
    Then(X11Configure(p),
         LAMBDA q : IF Is(q, "null_mode") THEN Ok(q)
             ELSE UNION {IF ~Is(r, "configured") \/ Is(r, "null_mode") THEN Ok(r)
                         ELSE MayFail(Use(r, {"window", "gc", "ximage"})) :
                             r \in X11ProcessEvents(q)})

X11SetProperty(p) == Fail(p) \cup Ok(On(p, {"title"}))

----------------------------------------------------------------------------
(* file_sink.c *)

FileSinkOpen(p)  == AllOrNothing(Null(p, {"fp"}), {"fp"})
FileSinkClose(p) == Ok(Free(p, {"fp"}))

FileSinkProcess(p, in) == IF ~Has(p, "fp") THEN Fail(p) ELSE MayFail(p)

FileSinkSetProperty(p) == Fail(p) \cup Ok(On(p, {"path"}))

(* file_source.c *)
FileSrcOpen(p) == AllOrNothing(Null(p, {"fp"}), {"fp", "pool"})

FileSrcClose(p) == Ok(Free(p, {"fp", "pool"}))

(* A file that loops ends only when nothing lies behind its offset. *)
FileSrcProcess(p, in) ==
    IF ~Has(p, "fp") THEN Fail(p)
    ELSE LET u == Use(p, {"pool"}) IN Fail(u) \cup Eof(u) \cup Out(u, "data")

FileSrcSetProperty(p) == Fail(p) \cup Ok(On(p, {"loop"})) \cup Ok(On(p, {"path"}))

----------------------------------------------------------------------------
(* fake_sink.c *)

FakeSinkOpen(p) == Ok(p)
FakeSinkProcess(p, in) == Ok(p)
FakeSinkSetProperty(p) == Fail(p) \cup Ok(On(p, {"drop_probability"}))

(* text_source.c.  A source that has made num-buffers frames hands out EOS *)
(* at every further call.                                                  *)
TextSrcOpen(p) ==
    Then(AllOrNothing(Off(p, {"done"}), {"ft", "face", "pool"}), Ok)

TextSrcClose(p) == Ok(Free(p, {"pool", "ft", "face"}))

TextSrcProcess(p, in) ==
    IF Is(p, "done") /\ ~Is(p, "loop") THEN Out(p, "eos") \cup Ok(p)
    ELSE LET u == Off(Use(p, {"pool", "face"}), {"done"})
         IN  Fail(u) \cup Out(u, "data") \cup
             (IF Is(u, "num_buffers") THEN Out(On(u, {"done"}), "data") ELSE {})

TextSrcSetProperty(p) ==
    Fail(p) \cup Ok(On(p, {"loop"})) \cup Ok(On(p, {"num_buffers"}))

----------------------------------------------------------------------------
(* gl_sink.c.  Without a display, a window or shaders it counts frames in  *)
(* null_mode.                                                              *)

(* The program names outlive close(), so a build that fails after an       *)
(* earlier one is taken for a success.                                     *)
GlSinkBuildShaders(p) ==
    Fail(p) \cup Ok(On(Get(p, {"programs"}), {"program_ids"})) \cup
    (IF Is(p, "program_ids") THEN Ok(p) ELSE {})

GlSinkCreateTextures(p) == IF Has(p, "textures") THEN p ELSE Get(p, {"textures"})

GlSinkOpen(p) ==
    LET q == Off(Null(p, {"gl_context", "textures"}), {"null_mode"})
        null(r) == Ok(On(r, {"null_mode"}))
    IN  null(q) \cup
        UNION {IF r.ret # "ok" THEN null(q)
               ELSE Ok(GlSinkCreateTextures(
                           Get(r.p, {"x_display", "x_window", "gl_context"}))) :
                   r \in GlSinkBuildShaders(q)}

GlSinkClose(p) ==
    Ok(Off(Free(p, {"programs", "textures", "gl_context", "x_window", "x_display"}),
           {"null_mode"}))

(* The user may close the window, which ends the stream. *)
GlSinkCheckEvents(p) == Ok(p) \cup Eof(p)

GlSinkProcess(p, in) ==
    IF Is(p, "null_mode") \/ ~Has(p, "gl_context") THEN Ok(p)
    ELSE Then(GlSinkCheckEvents(p),
              LAMBDA q : GlSinkCheckEvents(Use(GlSinkCreateTextures(q),
                                               {"programs", "x_window"})))

GlSinkSetProperty(p) == Fail(p) \cup Ok(On(p, {"vsync"}))

----------------------------------------------------------------------------
(* hls_sink.c.  Two sink pads; the header is written with the first frame, *)
(* the trailer once every linked pad has ended.                            *)

HlsParseExtradata(p) ==
    IF Has(p, "video_extradata") THEN Ok(p) ELSE AllOrNothing(p, {"video_extradata"})

HlsPads == {"video", "audio"}

HlsSampleLinks(p) ==
    On(Off(p, PadFlags(HlsPads, "linked")), PadFlags(p.links, "linked"))

(* Each attempt makes a new context, whatever became of the one before. *)
HlsWriteHeader(p) ==
    IF ~Is(p, "location") THEN Fail(p)
    ELSE LET q == HlsSampleLinks(Get(p, {"fc"}))
         IN  Fail(p) \cup Fail(q) \cup
             Ok(On(Off(q, PadFlags(HlsPads, "eos")), {"header_written"}))

HlsWrite(p) == MayFail(Use(p, {"fc"}))

HlsCheckEos(p) ==
    IF \A m \in HlsPads : Is(p, PadFlag(m, "linked")) => Is(p, PadFlag(m, "eos"))
    THEN Send(Off(p, {"header_written"}), <<"eos">>)
    ELSE p

HlsVideoPush(p, kind) ==
    IF kind = "eos" THEN Ok(HlsCheckEos(On(p, {"video_eos"})))
    ELSE IF Is(p, "header_written") THEN HlsWrite(p)
    ELSE Then(HlsParseExtradata(p), LAMBDA q : Then(HlsWriteHeader(q), HlsWrite))

(* Audio that comes before the first video frame is dropped. *)
HlsAudioPush(p, kind) ==
    IF kind = "eos" THEN Ok(HlsCheckEos(On(p, {"audio_eos"})))
    ELSE IF Is(p, "header_written") THEN HlsWrite(p)
    ELSE IF Is(p, "video_linked") /\ ~Has(p, "video_extradata") THEN Ok(p)
    ELSE Then(HlsWriteHeader(p), HlsWrite)

HlsStart(p) == Ok(Off(HlsSampleLinks(p), {"header_written"} \cup PadFlags(HlsPads, "eos")))

HlsStop(p) == Ok(Off(Free(p, {"fc", "video_extradata"}), {"header_written"}))

HlsSetProperty(p) == Fail(p) \cup Ok(On(p, {"location"}))

----------------------------------------------------------------------------
(* audio_test_src.c *)

AudioTestCreatePool(p) == AllOrNothing(p, {"pool"})

AudioTestOpen(p) == AudioTestCreatePool(Off(Free(p, {"pool"}), {"stopped", "done"}))

AudioTestClose(p) == Ok(Free(p, {"pool"}))
AudioTestStart(p) == Ok(Off(p, {"stopped"}))
AudioTestStop(p)  == Ok(On(p, {"stopped"}))

(* done: buffer_count or sample_count has reached its limit *)
AudioTestProcess(p, in) ==
    IF Is(p, "stopped") \/ (Is(p, "done") /\ ~Is(p, "loop")) THEN Eof(p)
    ELSE LET q == Off(p, {"done"})
         IN  Fail(q) \cup
             (IF Has(p, "pool")
              THEN Out(q, "data") \cup
                   (IF Is(p, "num_buffers") THEN Out(On(q, {"done"}), "data") ELSE {})
              ELSE {})

(* A new number of channels or sample format replaces the pool. *)
AudioTestSetProperty(p) ==
    Fail(p) \cup Ok(On(p, {"loop"})) \cup Ok(On(p, {"num_buffers"})) \cup
    (IF Has(p, "pool") THEN AudioTestCreatePool(Free(p, {"pool"})) ELSE Ok(p))

(* video_test_src.c.  The pool is not checked; frames of another format    *)
(* than YUV420P are drawn into tmp_yuv420p_buf, if there is one.           *)
VideoTestOpen(p) ==
    LET q == Off(p, {"done"})
        tmp == IF Is(p, "pixel_format") THEN {"tmp_yuv420p_buf"} ELSE {}
    IN  (IF tmp = {} THEN {} ELSE Fail(q)) \cup
        Ok(Get(q, tmp)) \cup Ok(Get(q, {"pool"} \cup tmp))

VideoTestStart(p) == Ok(p)
VideoTestClose(p) == Ok(Free(p, {"pool", "tmp_yuv420p_buf"}))

VideoTestProcess(p, in) ==
    IF Is(p, "done") /\ ~Is(p, "loop") THEN Eof(p)
    ELSE LET q == Off(p, {"done"})
         IN  Fail(q) \cup
             (IF Has(p, "pool")
              THEN Out(q, "data") \cup
                   (IF Is(p, "num_buffers") THEN Out(On(q, {"done"}), "data") ELSE {})
              ELSE {})

VideoTestSetProperty(p) ==
    Fail(p) \cup UNION {Ok(On(p, {f})) : f \in {"pixel_format", "loop", "num_buffers"}}

----------------------------------------------------------------------------
(* sc6f0_source.c.  A monitor thread follows the signal and builds or      *)
(* removes the capture branch, an element and a ghost pad per medium.      *)
(* close() destroys the lock that create() made, and open() does not make  *)
(* it again.                                                               *)

ScVideo == {"v4l2_src", "video_pad"}
ScAudio == {"alsa_src", "audio_pad"}

ScLock(p) == IF Is(p, "lock_destroyed") THEN Stray(p, {"lock"}) ELSE p

ScOpen(p) ==
    LET q == Off(Null(p, {"media_fd", "subdev_fd", "vpss_csc_fd", "video_pad", "audio_pad"}),
                 {"signal_locked", "audio_detected"})
    IN  Ok(On(q, {"mock"})) \cup
        (IF Is(p, "mock") THEN {} ELSE Ok(Get(q, {"media_fd", "subdev_fd", "vpss_csc_fd"})))

ScClose(p) ==
    Ok(On(Free(p, {"vpss_csc_fd", "subdev_fd", "media_fd"}), {"lock_destroyed"}))

ScTeardownCaptureBranch(p) == Free(ScLock(p), ScVideo \cup ScAudio)

(* Only what is missing is made; audio that went away is removed. *)
ScReconfigureCaptureBranch(p) ==
    LET q == ScLock(p)
        v == Get(q, ScVideo \ q.held)
    IN  IF ~Is(p, "signal_locked") THEN q
        ELSE IF Is(p, "audio_detected") THEN Get(v, ScAudio \ v.held)
        ELSE Free(v, ScAudio)

(* The signal is lost, appears or changes its format, or is as before. *)
ScCheckSignal(p) ==
    LET q == ScLock(p)
    IN  Ok(q) \cup
        (IF Is(q, "signal_locked")
         THEN Ok(ScTeardownCaptureBranch(Off(q, {"signal_locked"}))) ELSE {}) \cup
        UNION {Ok(ScReconfigureCaptureBranch(On(a, {"signal_locked"}))) :
                   a \in {Off(q, {"audio_detected"}), On(q, {"audio_detected"})}}

ScStart(p) == Ok(Get(p, {"thread"})) \cup Fail(p)
ScStop(p)  == Ok(ScTeardownCaptureBranch(Free(p, {"thread"})))

ScThread(p) == IF Has(p, "thread") THEN ScCheckSignal(p) ELSE NoHook

ScProcess(p, in) == Ok(p)

ScSetProperty(p) == Fail(ScLock(p)) \cup Ok(On(ScLock(p), {"mock"}))

----------------------------------------------------------------------------
(* The ops tables *)

AlsaSinkOps(h, p, in) ==
    CASE h = "open" -> AlsaSinkOpen(p) [] h = "close" -> AlsaSinkClose(p)
      [] h = "start" -> AlsaSinkStart(p) [] h = "stop" -> AlsaSinkStop(p)
      [] h = "process" -> AlsaSinkProcess(p, in)
      [] h = "set_property" -> AlsaSinkSetProperty(p) [] OTHER -> NoHook

AlsaSrcOps(h, p, in) ==
    CASE h = "open" -> AlsaSrcOpen(p) [] h = "close" -> AlsaSrcClose(p)
      [] h = "start" -> AlsaSrcStart(p)
      [] h = "process" -> AlsaSrcProcess(p, in)
      [] h = "set_property" -> AlsaSrcSetProperty(p) [] OTHER -> NoHook

V4l2SinkOps(h, p, in) ==
    CASE h = "open" -> V4l2SinkOpen(p) [] h = "start" -> V4l2SinkStart(p)
      [] h = "stop" -> V4l2SinkStop(p)
      [] h = "process" -> V4l2SinkProcess(p, in)
      [] h = "close" -> V4l2SinkClose(p)
      [] h = "set_property" -> V4l2SinkSetProperty(p) [] OTHER -> NoHook

V4l2SrcOps(h, p, in) ==
    CASE h = "open" -> V4l2SrcOpen(p) [] h = "close" -> V4l2SrcClose(p)
      [] h = "start" -> V4l2SrcStart(p) [] h = "stop" -> V4l2SrcStop(p)
      [] h = "process" -> V4l2SrcProcess(p, in)
      [] h = "set_property" -> V4l2SrcSetProperty(p) [] OTHER -> NoHook

X11Ops(h, p, in) ==
    CASE h = "open" -> X11Open(p) [] h = "close" -> X11Close(p)
      [] h = "process" -> X11Process(p, in)
      [] h = "set_property" -> X11SetProperty(p) [] OTHER -> NoHook

FileSinkOps(h, p, in) ==
    CASE h = "open" -> FileSinkOpen(p) [] h = "close" -> FileSinkClose(p)
      [] h = "process" -> FileSinkProcess(p, in)
      [] h = "set_property" -> FileSinkSetProperty(p) [] OTHER -> NoHook

FileSrcOps(h, p, in) ==
    CASE h = "open" -> FileSrcOpen(p) [] h = "close" -> FileSrcClose(p)
      [] h = "process" -> FileSrcProcess(p, in)
      [] h = "set_property" -> FileSrcSetProperty(p) [] OTHER -> NoHook

FakeSinkOps(h, p, in) ==
    CASE h = "open" -> FakeSinkOpen(p)
      [] h = "process" -> FakeSinkProcess(p, in)
      [] h = "set_property" -> FakeSinkSetProperty(p) [] OTHER -> NoHook

TextSrcOps(h, p, in) ==
    CASE h = "open" -> TextSrcOpen(p) [] h = "close" -> TextSrcClose(p)
      [] h = "process" -> TextSrcProcess(p, in)
      [] h = "set_property" -> TextSrcSetProperty(p) [] OTHER -> NoHook

GlSinkOps(h, p, in) ==
    CASE h = "open" -> GlSinkOpen(p) [] h = "close" -> GlSinkClose(p)
      [] h = "process" -> GlSinkProcess(p, in)
      [] h = "set_property" -> GlSinkSetProperty(p) [] OTHER -> NoHook

HlsOps(h, p, in) ==
    CASE h = "start" -> HlsStart(p) [] h = "stop" -> HlsStop(p)
      [] h = "push" -> IF in.pad = "video" THEN HlsVideoPush(p, in.kind)
                     ELSE HlsAudioPush(p, in.kind)
      [] h = "set_property" -> HlsSetProperty(p) [] OTHER -> NoHook

AudioTestOps(h, p, in) ==
    CASE h = "open" -> AudioTestOpen(p) [] h = "close" -> AudioTestClose(p)
      [] h = "start" -> AudioTestStart(p) [] h = "stop" -> AudioTestStop(p)
      [] h = "process" -> AudioTestProcess(p, in)
      [] h = "set_property" -> AudioTestSetProperty(p) [] OTHER -> NoHook

VideoTestOps(h, p, in) ==
    CASE h = "open" -> VideoTestOpen(p) [] h = "close" -> VideoTestClose(p)
      [] h = "start" -> VideoTestStart(p)
      [] h = "process" -> VideoTestProcess(p, in)
      [] h = "set_property" -> VideoTestSetProperty(p) [] OTHER -> NoHook

ScOps(h, p, in) ==
    CASE h = "open" -> ScOpen(p) [] h = "close" -> ScClose(p)
      [] h = "start" -> ScStart(p) [] h = "stop" -> ScStop(p)
      [] h = "process" -> ScProcess(p, in) [] h = "thread" -> ScThread(p)
      [] h = "set_property" -> ScSetProperty(p) [] OTHER -> NoHook
===========================================================================
