----------------------------- MODULE ZstElement -----------------------------
(***************************************************************************)
(* One element of any kind, driven the way the pipeline drives it: the     *)
(* single steps of zst_element_set_state with the element's own hooks      *)
(* (which may fail), buffers and EOS pushed into its sink pad by an        *)
(* upstream thread, the calls of process() the scheduler makes for a       *)
(* source, properties set by the application, events from downstream, and  *)
(* destruction in any state.                                               *)
(*                                                                         *)
(* The hooks are those of the family modules; this module holds what       *)
(* zst_element.c, zst_pad.c and zst_scheduler.c do around a hook.          *)
(***************************************************************************)
EXTENDS ZstComposers

CONSTANT Elements                       \* the kinds of element of this instance

(* The kinds of element the family modules model, of those that           *)
(* zst_builtins.c can make.                                               *)
Kinds ==
    {"aacenc", "opusenc", "x264enc", "x265enc", "h265enc", "h264dec", "h265dec",
     "aacdec", "opusdec", "vp8enc", "vp8dec", "vp9enc", "vp9dec", "nvenc",
     "nvdec", "nvscale", "vaapienc", "vaapidec", "oneapienc", "oneapidec",
     "alsasink", "alsasrc", "v4l2sink", "v4l2src", "x11sink", "filesink",
     "filesrc", "fakesink", "textsrc", "glsink", "hlssink", "audiotestsrc",
     "videotestsrc", "sc6f0src", "netsrc", "netsink", "srtsrc", "srtsink",
     "httpsrc", "rtmpsrc", "rtmpsink", "videoscaler", "audioresampler",
     "textoverlay", "h26xparse", "aacparse", "srtparse", "mp4mux", "tsmux",
     "mp4demux", "tsdemux", "rtppay", "rtpdepay", "st2110_20pay",
     "st2110_20depay", "st2110_21pay", "st2110_21depay", "st2110_22pay",
     "st2110_22depay", "st2110_30pay", "st2110_30depay", "st2110_40pay",
     "st2110_40depay", "st2110_fecenc", "st2110_fecdec", "st2110_redmux",
     "st2110_reddemux", "sdpmux", "sdpdemux", "danteudpsrc", "danteudpsink",
     "dantedepsrc", "dantedepsink", "queue", "audiomixer", "rtspsink",
     "ippcompsink", "glcompsink"}

ASSUME ElementsAssumption == Elements \subseteq Kinds

VARIABLES
    elem,       \* the kind of element
    state,      \* el->state, or "GONE" once it is destroyed
    p,          \* its private structure (see ZstHooks)
    up,         \* per sink pad, what upstream has pushed since the last preroll
    ended,      \* the results upstream got for EOS
    asked,      \* the settings set_property has accepted
    odd         \* "early": it was pushed to while PAUSED;
                \* "reset": a setting was changed after it was opened

vars == <<elem, state, p, up, ended, asked, odd>>

(* el->ops of the element, and the push function of its sink pads *)
Ops(e, h, q, in) ==
    CASE e = "aacenc" -> AacEncOps(h, q, in)   [] e = "opusenc" -> OpusEncOps(h, q, in)
      [] e = "x264enc" -> X264Ops(h, q, in)    [] e = "x265enc" -> X265Ops(h, q, in)
      [] e = "h265enc" -> H265EncOps(h, q, in) [] e = "h264dec" -> H264DecOps(h, q, in)
      [] e = "h265dec" -> H265DecOps(h, q, in) [] e = "aacdec" -> AacDecOps(h, q, in)
      [] e = "opusdec" -> OpusDecOps(h, q, in) [] e = "vp8enc" -> Vp8EncOps(h, q, in)
      [] e = "vp8dec" -> Vp8DecOps(h, q, in)   [] e = "vp9enc" -> Vp9EncOps(h, q, in)
      [] e = "vp9dec" -> Vp9DecOps(h, q, in)   [] e = "nvenc" -> NvEncOps(h, q, in)
      [] e = "nvdec" -> NvDecOps(h, q, in)     [] e = "nvscale" -> NvScaleOps(h, q, in)
      [] e = "vaapienc" -> VaEncOps(h, q, in)  [] e = "vaapidec" -> VaDecOps(h, q, in)
      [] e = "oneapienc" -> OneEncOps(h, q, in) [] e = "oneapidec" -> OneDecOps(h, q, in)

      [] e = "alsasink" -> AlsaSinkOps(h, q, in) [] e = "alsasrc" -> AlsaSrcOps(h, q, in)
      [] e = "v4l2sink" -> V4l2SinkOps(h, q, in) [] e = "v4l2src" -> V4l2SrcOps(h, q, in)
      [] e = "x11sink" -> X11Ops(h, q, in)      [] e = "filesink" -> FileSinkOps(h, q, in)
      [] e = "filesrc" -> FileSrcOps(h, q, in)  [] e = "fakesink" -> FakeSinkOps(h, q, in)
      [] e = "textsrc" -> TextSrcOps(h, q, in)  [] e = "glsink" -> GlSinkOps(h, q, in)
      [] e = "hlssink" -> HlsOps(h, q, in)      [] e = "audiotestsrc" -> AudioTestOps(h, q, in)
      [] e = "videotestsrc" -> VideoTestOps(h, q, in) [] e = "sc6f0src" -> ScOps(h, q, in)
      [] e = "netsrc" -> NetSrcOps(h, q, in)    [] e = "netsink" -> NetSinkOps(h, q, in)
      [] e = "srtsrc" -> SrtSrcOps(h, q, in)    [] e = "srtsink" -> SrtSinkOps(h, q, in)
      [] e = "httpsrc" -> HttpOps(h, q, in)     [] e = "rtmpsrc" -> RtmpSrcOps(h, q, in)
      [] e = "rtmpsink" -> RtmpSinkOps(h, q, in)
      [] e = "videoscaler" -> ScalerOps(h, q, in) [] e = "audioresampler" -> ResamplerOps(h, q, in)
      [] e = "textoverlay" -> OverlayOps(h, q, in) [] e = "h26xparse" -> H26xOps(h, q, in)
      [] e = "aacparse" -> AacParserOps(h, q, in) [] e = "srtparse" -> SubRipOps(h, q, in)
      [] e = "mp4mux" -> Mp4MuxOps(h, q, in)    [] e = "tsmux" -> TsMuxOps(h, q, in)
      [] e = "mp4demux" -> Mp4DemuxOps(h, q, in) [] e = "tsdemux" -> TsDemuxOps(h, q, in)
      [] e = "rtppay" -> RtpPayOps(h, q, in)
      [] e = "rtpdepay" -> RtpDepayOps(h, q, in)
      [] e = "st2110_20pay" -> Pay20Ops(h, q, in)
      [] e = "st2110_20depay" -> Depay20Ops(h, q, in)
      [] e = "st2110_21pay" -> Pay21Ops(h, q, in)
      [] e = "st2110_21depay" -> Depay21Ops(h, q, in)
      [] e = "st2110_22pay" -> Pay22Ops(h, q, in)
      [] e = "st2110_22depay" -> Depay22Ops(h, q, in)
      [] e = "st2110_30pay" -> Pay30Ops(h, q, in)
      [] e = "st2110_30depay" -> Depay30Ops(h, q, in)
      [] e = "st2110_40pay" -> Pay40Ops(h, q, in)
      [] e = "st2110_40depay" -> Depay40Ops(h, q, in)
      [] e = "st2110_fecenc" -> FecEncoderOps(h, q, in)
      [] e = "st2110_fecdec" -> FecDecoderOps(h, q, in)
      [] e = "st2110_redmux" -> RedMuxOps(h, q, in)
      [] e = "st2110_reddemux" -> RedDemuxOps(h, q, in)
      [] e = "sdpmux" -> SdpMuxOps(h, q, in)
      [] e = "sdpdemux" -> SdpDemuxOps(h, q, in)
      [] e = "danteudpsrc" -> UdpSrcOps(h, q, in)
      [] e = "danteudpsink" -> UdpSinkOps(h, q, in)
      [] e = "dantedepsrc" -> DepSourceOps(h, q, in)
      [] e = "dantedepsink" -> DepSinkOps(h, q, in)
      [] e = "queue" -> QueueElOps(h, q, in)
      [] e = "audiomixer" -> MixerOps(h, q, in) [] e = "rtspsink" -> RtspSinkOps(h, q, in)
      [] e = "ippcompsink" -> IppCompOps(h, q, in) [] e = "glcompsink" -> GlCompOps(h, q, in)

(* Elements without a source pad: the EOS they get is posted on the bus. *)
Sinks == {"alsasink", "v4l2sink", "x11sink", "filesink", "fakesink", "glsink",
          "netsink", "srtsink", "danteudpsink", "dantedepsink"}

Compositors == {"ippcompsink", "glcompsink"}

(* The sink pads of an element. *)
Pads(e) ==
    IF e \in {"alsasrc", "v4l2src", "filesrc", "textsrc", "audiotestsrc",
              "videotestsrc", "sc6f0src", "netsrc", "srtsrc", "httpsrc", "rtmpsrc",
              "srtparse", "danteudpsrc", "dantedepsrc"} THEN {}
    ELSE IF e = "hlssink" THEN HlsPads
    ELSE IF e = "rtmpsink" THEN RtmpPads
    ELSE IF e = "textoverlay" THEN OverlayPads
    ELSE IF e \in {"mp4mux", "tsmux"} THEN MuxPads
    ELSE IF e = "sdpmux" THEN SdpPads
    ELSE IF e = "audiomixer" THEN MixerPads
    ELSE IF e = "rtspsink" THEN RtspPads
    ELSE IF e \in Compositors THEN CompPads
    ELSE IF e = "st2110_reddemux" THEN RedPads
    ELSE {"sink"}

(* Elements that are a source when their sink pad is not linked. *)
Dual == {"mp4demux", "tsdemux"}

(* A new element whose sink pads L have been requested and linked. *)
Create(e, L) ==
    CASE e = "audiomixer" -> MixerCreate(L)
      [] e \in Compositors -> CompCreate(L)
      [] OTHER -> [Calloc EXCEPT !.links = L]

Hook(h, q) == Ops(elem, h, q, "none")

----------------------------------------------------------------------------
(* zst_element_set_state, one step: the hook if there is one, and the new  *)
(* state unless it failed.                                                 *)
CallHook(h, q) == IF Hook(h, q) = NoHook THEN Ok(q) ELSE Hook(h, q)

Step(h, from, to) ==
    /\ state = from
    /\ \E r \in CallHook(h, p) :
           /\ p' = r.p
           /\ state' = IF r.ret = "ok" THEN to ELSE from
    /\ UNCHANGED <<elem, asked, odd>>

Start     == Step("start", "PAUSED", "PLAYING") /\ UNCHANGED <<up, ended>>
Stop      == Step("stop", "PLAYING", "PAUSED") /\ UNCHANGED <<up, ended>>
Unpreroll == Step("unpreroll", "PAUSED", "READY") /\ UNCHANGED <<up, ended>>
Close     == Step("close", "READY", "NULL") /\ UNCHANGED <<up, ended>>

(* An open and a preroll begin a new stream. *)
NewStream == up' = [m \in Pads(elem) |-> "none"] /\ ended' = {}

Open ==
    /\ state = "NULL"
    /\ \E r \in CallHook("open", [p EXCEPT !.sent = "none", !.shed = FALSE]) :
           /\ p' = r.p
           /\ state' = IF r.ret = "ok" THEN "READY" ELSE "NULL"
    /\ NewStream
    /\ UNCHANGED <<elem, asked, odd>>

Preroll ==
    /\ state = "READY"
    /\ \E r \in CallHook("preroll", [p EXCEPT !.sent = "none"]) :
           /\ p' = r.p
           /\ state' = IF r.ret = "ok" THEN "PAUSED" ELSE "READY"
    /\ NewStream
    /\ UNCHANGED <<elem, asked, odd>>

(* zst_element_destroy: down to NULL, a failing hook ends the descent and  *)
(* its result is ignored; then the structure is freed.                     *)
DownFromPaused(q) == Then(CallHook("unpreroll", q), LAMBDA r : CallHook("close", r))

Down(q, s) ==
    CASE s = "PLAYING" -> Then(CallHook("stop", q), DownFromPaused)
      [] s = "PAUSED" -> DownFromPaused(q)
      [] s = "READY" -> CallHook("close", q)
      [] OTHER -> Ok(q)

Destroy ==
    /\ state # "GONE"
    /\ \E r \in Down(p, state) : p' = r.p
    /\ state' = "GONE"
    /\ UNCHANGED <<elem, up, ended, asked, odd>>

----------------------------------------------------------------------------
(* default_sink_pad_push: EOS goes past process(); what process() returns  *)
(* is pushed; a sink drops what is late.                                   *)
DefaultSinkPadPush(q, in) ==
    LET isSink == elem \in Sinks
        forward(r) == IF r.ret = "ok" /\ r.out # "none" /\ ~isSink
                      THEN Push(r.p, r.out) ELSE {r}
    IN  IF in = "eos" THEN IF isSink THEN Ok(Send(q, <<"eos">>)) ELSE Push(q, "eos")
        ELSE (IF isSink THEN Ok(Shed(q)) ELSE {}) \cup
             UNION {forward(r) : r \in LET S == Ops(elem, "process", q, in)
                                       IN  IF S = NoHook THEN Ok(q) ELSE S}

(* An element with several sink pads is told which of them was pushed to. *)
SinkPadPush(q, m, kind) ==
    LET in == IF Pads(elem) = {"sink"} THEN kind ELSE [pad |-> m, kind |-> kind]
        S  == Ops(elem, "push", q, in)
    IN  IF S # NoHook THEN S ELSE DefaultSinkPadPush(q, kind)

(* An upstream thread pushes into a linked sink pad: data, then EOS once. *)
UpstreamPush(kind) ==
    /\ state \in {"PAUSED", "PLAYING"}
    /\ \E m \in p.links :
        /\ up[m] # "eos"
        /\ up' = [up EXCEPT ![m] = kind]
        /\ \E r \in SinkPadPush(p, m, kind) :
               /\ r.ret # "blocked"
               /\ p' = IF kind = "eos" /\ r.ret = "err" THEN Shed(r.p) ELSE r.p
               /\ ended' = IF kind = "eos" THEN ended \cup {r.ret} ELSE ended
    /\ odd' = IF state = "PAUSED" THEN odd \cup {"early"} ELSE odd
    /\ UNCHANGED <<elem, state, asked>>

PushData == UpstreamPush("data")
PushEos  == UpstreamPush("eos")

(* execute_element_task for a source: what process() returns is pushed,    *)
(* whatever the peer says; ZST_EOF is sent on as EOS and puts the element  *)
(* into READY; an error ends the requeueing.                               *)
ExecuteTask ==
    /\ p.links = {} /\ state = "PLAYING"
    /\ \E r \in Ops(elem, "process", p, "none") :
           \/ /\ r.ret = "eof"
              /\ \E q \in Push(r.p, "eos") : p' = q.p
              /\ state' = "READY"
           \/ /\ r.ret # "eof"
              /\ \E q \in IF r.ret = "ok" /\ r.out # "none" THEN Push(r.p, r.out)
                          ELSE Ok(r.p) : p' = q.p
              /\ UNCHANGED state
    /\ UNCHANGED <<elem, up, ended, asked, odd>>

(* One turn of the thread an element runs by itself *)
ThreadTurn ==
    /\ state # "GONE"
    /\ \E r \in Hook("thread", p) : p' = r.p
    /\ UNCHANGED <<elem, state, up, ended, asked, odd>>

----------------------------------------------------------------------------
(* What a set_property works out from a setting, besides keeping it *)
Derived == {"sdp_valid", "sdp_parsed", "resized"}

(* zst_element_set_property, in any state *)
SetProperty ==
    /\ state # "GONE"
    /\ \E r \in Hook("set_property", p) :
           /\ p' = r.p
           /\ asked' = IF r.ret = "ok" THEN asked \cup ((r.p.on \ p.on) \ Derived) ELSE asked
           /\ odd' = IF r.p # p /\ state # "NULL" THEN odd \cup {"reset"} ELSE odd
    /\ UNCHANGED <<elem, state, up, ended>>

(* An event from downstream, such as the request for a key frame *)
Event ==
    /\ state \in {"PAUSED", "PLAYING"}
    /\ \E r \in Hook("event", p) : p' = r.p
    /\ UNCHANGED <<elem, state, up, ended, asked, odd>>

(* A requested sink pad is released, in any state. *)
ReleasePad ==
    /\ state # "GONE"
    /\ \E r \in Hook("release_pad", p) : p' = r.p
    /\ UNCHANGED <<elem, state, up, ended, asked, odd>>

Init ==
    /\ elem \in Elements
    /\ state = "NULL"
    /\ p \in {Create(elem, L) : L \in SUBSET Pads(elem)}
    /\ p.links = {} => Pads(elem) = {} \/ elem \in Dual
    /\ up = [m \in Pads(elem) |-> "none"] /\ ended = {} /\ asked = {} /\ odd = {}

Next ==
    \/ Open \/ Preroll \/ Start \/ Stop \/ Unpreroll \/ Close \/ Destroy
    \/ PushData \/ PushEos \/ ExecuteTask \/ ThreadTurn \/ SetProperty \/ Event
    \/ ReleasePad
    \/ state = "GONE" /\ UNCHANGED vars

Spec == Init /\ [][Next]_vars

----------------------------------------------------------------------------
TypeOK ==
    /\ elem \in Elements
    /\ state \in {"NULL", "READY", "PAUSED", "PLAYING", "GONE"}
    /\ p.n \in 0 .. MaxInside
    /\ p.sent \in {"none", "data", "eos", "late"}
    /\ p.pend \in Seq({"data", "eos"})
    /\ up \in [Pads(elem) -> {"none", "data", "eos"}]

----------------------------------------------------------------------------
(***************************************************************************)
(* What the code does not keep.  Each table names, per kind of element,    *)
(* where a property below fails in the code as it is; the property is      *)
(* checked of everything else.  The second table of a pair holds only once *)
(* the element was pushed to while PAUSED or a setting was changed while   *)
(* it was open (odd).                                                      *)
(***************************************************************************)
Odd(o, S) == IF o # {} THEN S ELSE {}

(* Initialisation that is retried after it failed half way overwrites what *)
(* it had made: V4L2 buffers, hardware frames, format contexts, packets.   *)
(* Packets of st2110_21/22 have memory.release without memory.priv; the    *)
(* packets st2110_30 pushes keep their first reference; close() of         *)
(* st2110_20depay, sdpdemux, v4l2sink and netsrc does not free these.  The *)
(* inputs of a mixer or compositor that was never opened are never closed. *)
KnownLeaks(e, o) ==
    CASE e = "hlssink" -> {"fc"} \cup Odd(o, {"video_extradata"})
      [] e = "mp4mux" -> {"avio", "fc", "file"} \cup Odd(o, {"video_extradata"})
      [] e = "tsmux" -> {"avio", "fc", "file"}
      [] e = "mp4demux" -> {"fc", "file", "pads"} \cup Odd(o, {"avio", "queue"})
      [] e = "tsdemux" -> {"temporary_avio"} \cup Odd(o, {"avio", "fc", "pads", "queue"})
      [] e = "rtmpsink" -> Odd(o, {"video_extradata"})
      [] e = "rtmpsrc" -> {"thread"}
      [] e = "netsrc" -> {"pool"}
      [] e \in {"nvenc", "nvdec", "nvscale"} -> {"capture", "output"}
      [] e = "v4l2sink" -> {"buffers", "maps"}
      [] e = "v4l2src" -> {"queued"}
      [] e = "vaapidec" -> {"hw_frame"}
      [] e = "vaapienc" -> {"hw_frames"}
      [] e \in {"x264enc", "x265enc", "st2110_30pay"} -> {"packet"}
      [] e = "sdpdemux" -> {"tracks"}
      [] e = "st2110_20depay" -> {"current_frame"}
      [] e = "st2110_21depay" -> {"packet_data"} \cup Odd(o, {"au_data"})
      [] e \in {"st2110_21pay", "st2110_22depay"} -> {"packet_data"}
      [] e = "danteudpsrc" -> {"fd"}
      [] e = "audiomixer" -> PadFlags(MixerPads, "queue")
      [] e \in Compositors -> PadFlags(CompPads, "input")
      [] OTHER -> {}

(* A lock or a string that close() destroyed and open() does not make; a   *)
(* buffer unreferenced on behalf of its caller; a context used after the   *)
(* call that freed it failed; a field of an earlier configuration; a       *)
(* thread that could not be made; the input of a pad that close() freed.   *)
KnownStrays(e, o) ==
    CASE e \in {"sc6f0src", "danteudpsrc"} -> {"lock"}
      [] e = "audioresampler" -> {"compensation"}
      [] e = "glsink" -> {"programs"}
      [] e = "mp4mux" -> {"pb"} \cup Odd(o, {"file"})
      [] e = "tsmux" -> Odd(o, {"file"})
      [] e = "tsdemux" -> {"temp_fc"}
      [] e = "nvscale" -> {"planes"}
      [] e = "rtmpsrc" -> {"thread"}
      [] e = "srtsink" -> {"conn_sock"}
      [] e = "v4l2src" -> Odd(o, {"pool_buffers"})
      [] e \in {"vp8enc", "vp9enc"} -> {"frame_buffers"}
      [] e = "st2110_22depay" -> {"decoder_instance"}
      [] e = "st2110_22pay" -> {"bitstream"}
      [] e = "st2110_40pay" -> {"callers_buffer", "aux_data_type"}
      [] e \in {"textoverlay", "st2110_30pay", "st2110_30depay", "st2110_40depay"} ->
             {"callers_buffer"}
      [] e = "audiomixer" -> {"thread"}
      [] e = "ippcompsink" -> {"worker"} \cup PadFlags(CompPads, "input") \cup Odd(o, {"canvas"})
      [] e = "glcompsink" -> {"worker"} \cup PadFlags(CompPads, "input")
      [] OTHER -> {}

(* open() puts back the default of a setting that was made before it; the  *)
(* redundancy elements' close() frees what set_property wrote to           *)
(* (st2110_redundancy_mux.c:67-75, st2110_redundancy_demux.c:158-167).     *)
Forgotten(e) ==
    CASE e \in {"aacdec", "opusdec", "h264dec", "h265dec", "vp8dec", "vp9dec"} -> {"threads"}
      [] e \in {"aacenc", "opusenc"} -> {"bitrate"}
      [] e \in {"x264enc", "x265enc"} -> {"bframes"}
      [] e = "audioresampler" -> {"rate"}
      [] e = "st2110_redmux" -> {"fec_enabled"}
      [] e = "st2110_reddemux" -> {"failover_detection_ms"}
      [] OTHER -> {}

(* EOS is answered with ZST_OK and goes no further: rtp_payloader.c:380,   *)
(* rtp_depayloader.c:516 (they push the packets and not the EOS), the      *)
(* muxers and sinks whose end waits for a pad that starting again forgot,  *)
(* the parser and the decoder that turn it into data only, the sinks that  *)
(* tell the bus nothing, the mixer whose inputs went with its first close  *)
(* or whose thread could not be made.                                      *)
EosKept(e, q, o) ==
    \/ e \in {"h26xparse", "hlssink", "mp4mux", "nvdec", "rtmpsink", "tsmux", "rtpdepay",
              "rtppay", "rtspsink"} \cup Compositors
             \cup Odd(o, {"mp4demux", "sdpdemux", "tsdemux"})
    \/ e = "audiomixer" /\ (Is(q, "thread_unset") \/ q.links # MixerWith(q, "active"))

(* The list of finished buffers stays when a push is refused, EOS in it. *)
ListKeepers == {"x264enc", "x265enc", "h265enc", "vaapienc", "oneapienc", "oneapidec"}

(* A thread of the element sends EOS, in its turn; what the peer refuses,  *)
(* or stop() flushes, is gone.                                             *)
Async == {"queue", "audiomixer"}

(* Buffers follow EOS: those of the list above, of a second pad that ends  *)
(* later, or of a stream that begins again without a preroll (the inputs   *)
(* of a mixer that starts again have still ended, and it ends at once).    *)
GoesOn(o) ==
    {"h265enc", "h26xparse", "mp4demux", "oneapidec", "oneapienc", "rtmpsrc", "textsrc",
     "tsdemux", "vaapienc", "x265enc", "sdpmux", "st2110_reddemux", "audiomixer"}
    \cup Odd(o, {"queue", "hlssink", "mp4mux", "rtmpsink", "tsmux"})

(* EOS goes past what the codec or the assembly still holds: there is no   *)
(* drain in aac_encoder.c, opus_encoder.c, vp8/vp9, v4l2_sink.c and the    *)
(* ST 2110 elements, and x264 is drained of one frame.  A second run of    *)
(* the mixer ends before its inputs do.                                    *)
NotDrained(o) ==
    {"aacenc", "h26xparse", "opusenc", "v4l2sink", "vp8dec", "vp8enc", "vp9dec", "vp9enc",
     "x264enc", "sdpdemux", "st2110_20depay", "st2110_21depay", "st2110_22pay",
     "audiomixer"}
    \cup Odd(o, {"queue", "mp4demux", "mp4mux", "tsdemux", "tsmux"})

----------------------------------------------------------------------------
(* No hook, in whatever order the hooks are called and wherever they fail, *)
(* overwrites what it still owns; a closed element owns no more than a new *)
(* one does and a destroyed one nothing: open() after a failed open(), a   *)
(* failed init retried by the next buffer, destruction in mid-stream.      *)
Released ==
    p.lost \cup (CASE state = "NULL" -> p.held \ Create(elem, p.links).held
                  [] state = "GONE" -> p.held
                  [] OTHER -> {}) \subseteq KnownLeaks(elem, odd)

(* No hook uses what a failed or undone step has not made, or has freed:   *)
(* process() after a failed init, stop() after a failed start(), close()   *)
(* after a failed open(), a second run after close().                      *)
NeverStray == p.stray \subseteq KnownStrays(elem, odd)

(* When every linked sink pad has been given EOS and the element accepted  *)
(* it, the element has sent EOS downstream (or posted it): a pipeline ends *)
(* only if every element on the way passes it on, after failures too.      *)
EosForwarded ==
    /\ p.links \ {"text"} # {} /\ \A m \in p.links : up[m] = "eos"
    /\ ended \subseteq {"ok", "eof"}
    /\ ~EosKept(elem, p, odd)
    => \/ p.sent \in {"eos", "late"}
       \/ p.shed /\ elem \in ListKeepers \cup Async
       \/ elem \in Async /\ (state # "PLAYING" \/ Hook("thread", p) # NoHook)

(* Nothing follows EOS downstream in a stream: no buffer that was still in *)
(* a codec, a list or a second pad when EOS went past it.                  *)
NothingAfterEos == p.sent = "late" => elem \in GoesOn(odd)

(* When EOS was sent and no step failed, every frame the element had taken *)
(* was sent before it.                                                     *)
Drained ==
    p.sent = "eos" /\ ~p.shed /\ elem \notin NotDrained(odd) => p.n = 0 /\ p.pend = <<>>

(* A setting that set_property accepted is still in force after any open,  *)
(* close, start, stop and failure, but for the settings of Forgotten.      *)
SettingsKept == asked \ p.on \subseteq Forgotten(elem)

(* A stream ends once: EOS is passed on, and nothing after it, whatever    *)
(* failed before (EosForwarded and NothingAfterEos, with the types).       *)
EosLast == TypeOK /\ EosForwarded /\ NothingAfterEos
============================================================================
