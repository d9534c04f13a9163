-------------------------- MODULE ZstElementProofs --------------------------
(***************************************************************************)
(* What an element owns, uses and remembers, for every kind of element,    *)
(* every number of frames inside a codec, and every order of state         *)
(* changes, failures, buffers, properties, events, thread turns and        *)
(* destruction: the theorems at the end of this module.                    *)
(*                                                                         *)
(* The argument has three layers.                                          *)
(*   1. For each kind of element, what its private structure looks like in *)
(*      each state: XFits(s, q, o), with o the oddities met so far.        *)
(*   2. For each kind, every outcome of every hook leaves a structure that *)
(*      fits the state the element is then in (XKeeps), so that the kind   *)
(*      is sound (XSound): the lemmas AllSound collects.                   *)
(*   3. For any sound kind, the steps zst_element.c, zst_pad.c and         *)
(*      zst_scheduler.c make around the hooks keep ElementInv.             *)
(***************************************************************************)
EXTENDS ZstElement, TLAPS

-----------------------------------------------------------------------------
(* 1. What a structure looks like.                                          *)

\* q is a private structure: it has the fields of Calloc and no other.
Struct(q) ==
    q \in [held : {q.held}, lost : {q.lost}, on : {q.on}, n : {q.n}, pend : {q.pend},
           sent : {q.sent}, stray : {q.stray}, shed : {q.shed}, links : {q.links}]

\* What each kind's structure q is like while the element is in state s and the
\* oddities of o have been met: which pointers, descriptors, threads and strings
\* it owns, as its flags and the state tell, and the most that it may have lost
\* or used astray.  It is what every close(), stop() and retried init relies on.
AacEncFits(s, q, o) ==
    /\ Struct(q) /\ q.lost = {} /\ q.stray = {}
    /\ Is(q, "initialized") => q.held = {"ctx", "frame", "pool"}
    /\ ~Is(q, "initialized") => q.held = {}
    /\ s = "NULL" => ~Is(q, "initialized")

X264Fits(s, q, o) ==
    /\ Struct(q) /\ q.lost \subseteq {"packet"} /\ q.stray = {}
    /\ Is(q, "initialized") => q.held = {"x264", "pool"}
    /\ ~Is(q, "initialized") => q.held = {}
    /\ s = "NULL" => ~Is(q, "initialized")

X265Fits(s, q, o) ==
    /\ Struct(q) /\ q.lost \subseteq {"packet"} /\ q.stray = {}
    /\ q.held \subseteq {"param", "pic_in", "pic_out", "x265", "pool"}
    /\ s = "NULL" => q.held = {}
    /\ s # "NULL" => {"param", "pic_in", "pic_out"} \subseteq q.held
    /\ Is(q, "initialized") => {"x265", "pool"} \subseteq q.held
    /\ ~Is(q, "initialized") => {"x265", "pool"} \cap q.held = {}
    /\ s = "NULL" => ~Is(q, "initialized")

H265EncFits(s, q, o) ==
    /\ Struct(q) /\ q.lost = {} /\ q.stray = {}
    /\ Is(q, "initialized") => q.held = {"ctx", "frame", "pool"}
    /\ ~Is(q, "initialized") => q.held = {}
    /\ s = "NULL" => ~Is(q, "initialized")

H264DecFits(s, q, o) ==
    /\ Struct(q) /\ q.lost = {} /\ q.stray = {}
    /\ "initialized" \notin q.on => q.held = {}
    /\ "initialized" \in q.on => q.held \ {"pool"} = {"parser", "ctx", "frame"}
    /\ s = "NULL" => ~Is(q, "initialized")

AacDecFits(s, q, o) ==
    /\ Struct(q) /\ q.lost = {} /\ q.stray = {}
    /\ "initialized" \notin q.on => q.held = {}
    /\ "initialized" \in q.on => q.held \ {"pool"} = {"ctx", "frame"}
    /\ s = "NULL" => ~Is(q, "initialized")

Vp8EncFits(s, q, o) ==
    /\ Struct(q) /\ q.lost = {} /\ q.stray \subseteq {"frame_buffers"}
    /\ Is(q, "initialized") => q.held = {"ctx", "frame"}
    /\ ~Is(q, "initialized") => q.held = {}
    /\ s = "NULL" => ~Is(q, "initialized")

Vp8DecFits(s, q, o) ==
    /\ Struct(q) /\ q.lost = {} /\ q.stray = {}
    /\ Is(q, "initialized") => q.held = {"ctx", "frame"}
    /\ ~Is(q, "initialized") => q.held = {}
    /\ s = "NULL" => ~Is(q, "initialized")

NvEncFits(s, q, o) ==
    /\ Struct(q) /\ q.lost \subseteq {"capture", "output"} /\ q.stray = {}
    /\ q.held \subseteq {"fd", "capture", "output", "pool"}
    /\ s = "NULL" => q.held = {}
    /\ s # "NULL" => "fd" \in q.held
    /\ s # "NULL" /\ Is(q, "initialized") => {"output", "capture", "pool"} \subseteq q.held
    /\ ~Is(q, "initialized") => "pool" \notin q.held

NvDecFits(s, q, o) ==
    /\ Struct(q) /\ q.lost \subseteq {"capture", "output"} /\ q.stray = {}
    /\ q.held \subseteq {"fd", "capture", "output", "pool"}
    /\ s = "NULL" => q.held = {}
    /\ s # "NULL" => "fd" \in q.held
    /\ s # "NULL" /\ Is(q, "initialized") => "output" \in q.held

NvScaleFits(s, q, o) ==
    /\ Struct(q) /\ q.lost \subseteq {"capture", "output"} /\ q.stray \subseteq {"planes"}
    /\ q.held \subseteq {"fd", "capture", "output", "pool"}
    /\ s = "NULL" => q.held = {}
    /\ s # "NULL" => "fd" \in q.held
    /\ s # "NULL" /\ Is(q, "initialized") => {"output", "capture", "pool"} \subseteq q.held
    /\ ~Is(q, "initialized") => "pool" \notin q.held

VaEncFits(s, q, o) ==
    /\ Struct(q) /\ q.lost \subseteq {"hw_frames"} /\ q.stray = {}
    /\ q.held \subseteq {"device", "ctx", "hw_frames", "pool"}
    /\ s = "NULL" => q.held = {}
    /\ s = "NULL" => ~Is(q, "initialized")
    /\ s # "NULL" => "device" \in q.held
    /\ Is(q, "initialized") => {"ctx", "hw_frames", "pool"} \subseteq q.held
    /\ ~Is(q, "initialized") => {"ctx", "pool"} \cap q.held = {}

VaDecFits(s, q, o) ==
    /\ Struct(q) /\ q.lost \subseteq {"hw_frame"} /\ q.stray = {}
    /\ q.held \subseteq {"hw_frame", "device", "ctx", "pool"}
    /\ s = "NULL" => q.held \subseteq {"hw_frame"}
    /\ s # "NULL" => {"hw_frame", "device"} \subseteq q.held
    /\ Is(q, "initialized") <=> "ctx" \in q.held

OneEncFits(s, q, o) ==
    /\ Struct(q) /\ q.lost = {} /\ q.stray = {}
    /\ q.held \subseteq {"loader", "session", "bitstream", "pool"}
    /\ s = "NULL" => q.held = {}
    /\ s # "NULL" => {"loader", "session"} \subseteq q.held
    /\ s # "NULL" /\ Is(q, "initialized") => {"bitstream", "pool"} \subseteq q.held
    /\ ~Is(q, "initialized") => {"bitstream", "pool"} \cap q.held = {}

OneDecFits(s, q, o) ==
    /\ Struct(q) /\ q.lost = {} /\ q.stray = {}
    /\ q.held \subseteq {"loader", "session", "bitstream", "pool", "va_dpy", "drm_fd"}
    /\ s = "NULL" => q.held = {}
    /\ s # "NULL" => {"loader", "session"} \subseteq q.held
    /\ s # "NULL" /\ Is(q, "initialized") => {"bitstream", "pool"} \subseteq q.held
    /\ ~Is(q, "initialized") => "pool" \notin q.held

AlsaSinkFits(s, q, o) ==
    /\ Struct(q) /\ q.lost = {} /\ q.stray = {}
    /\ q.held \subseteq {"handle"}
    /\ s = "NULL" => q.held = {}
    /\ s # "NULL" /\ ~Is(q, "mock") => "handle" \in q.held

AlsaSrcFits(s, q, o) ==
    /\ Struct(q) /\ q.lost = {} /\ q.stray = {}
    /\ q.held \subseteq {"handle", "pool"}
    /\ s = "NULL" => q.held = {}
    /\ s # "NULL" /\ ~Is(q, "mock") => "handle" \in q.held

V4l2SinkFits(s, q, o) ==
    /\ Struct(q) /\ q.lost \subseteq {"buffers", "maps"} /\ q.stray = {}
    /\ q.held \subseteq {"fd", "buffers", "maps"}
    /\ s = "NULL" \/ Is(q, "mock") => "fd" \notin q.held
    /\ s # "NULL" /\ ~Is(q, "mock") => "fd" \in q.held
    /\ Is(q, "started") => s = "PLAYING"
    /\ Is(q, "started") /\ ~Is(q, "mock") /\ ~Is(q, "userptr") => {"buffers", "maps"}
       \subseteq q.held

V4l2SrcFits(s, q, o) ==
    /\ Struct(q)
    /\ q.lost \subseteq {"queued"}
    /\ q.stray \subseteq Odd(o, {"pool_buffers"})
    /\ q.held \subseteq {"fd", "pool", "buffers", "pool_buffers", "exported_fds", "queued"}
    /\ s = "NULL" => q.held = {}
    /\ s # "NULL" /\ Is(q, "mock") => q.held \subseteq {"pool"}
    /\ s # "NULL" /\ ~Is(q, "mock") => "fd" \in q.held
    /\ s # "NULL" /\ ~Is(q, "mock") /\ ~Is(q, "userptr") => "buffers" \in q.held
    /\ s # "NULL" /\ ~Is(q, "mock") /\ Is(q, "userptr") /\ o = {} => "pool_buffers" \in
       q.held

X11Fits(s, q, o) ==
    /\ Struct(q) /\ q.lost = {} /\ q.stray = {}
    /\ q.held \subseteq {"display", "window", "gc", "ximage"}
    /\ s = "NULL" => q.held = {}
    /\ s = "NULL" => ~Is(q, "configured")
    /\ Is(q, "configured") /\ ~Is(q, "null_mode") => {"window", "gc", "ximage"} \subseteq
       q.held

FileSinkFits(s, q, o) ==
    /\ Struct(q) /\ q.lost = {} /\ q.stray = {}
    /\ q.held \subseteq {"fp"}
    /\ s = "NULL" => q.held = {}

FileSrcFits(s, q, o) ==
    /\ Struct(q) /\ q.lost = {} /\ q.stray = {}
    /\ s = "NULL" => q.held = {}
    /\ s # "NULL" => q.held = {"fp", "pool"}

OwnsNothingFits(s, q, o) ==
    /\ Struct(q) /\ q.lost = {} /\ q.stray = {}
    /\ q.held = {}

TextSrcFits(s, q, o) ==
    /\ Struct(q) /\ q.lost = {} /\ q.stray = {}
    /\ s = "NULL" => q.held = {}
    /\ s # "NULL" => q.held = {"ft", "face", "pool"}

GlSinkFits(s, q, o) ==
    /\ Struct(q) /\ q.lost = {} /\ q.stray \subseteq {"programs"}
    /\ q.held \subseteq {"programs", "textures", "gl_context", "x_window", "x_display"}
    /\ s = "NULL" => q.held = {}
    /\ "gl_context" \in q.held => "x_window" \in q.held

HlsFits(s, q, o) ==
    /\ Struct(q) /\ q.lost \subseteq {"fc"} /\ q.stray = {}
    /\ q.held \subseteq {"fc", "video_extradata"}
    /\ Is(q, "header_written") => "fc" \in q.held
    /\ s # "PLAYING" /\ o = {} => "video_extradata" \notin q.held

AudioTestFits(s, q, o) ==
    /\ Struct(q) /\ q.lost = {} /\ q.stray = {}
    /\ q.held \subseteq {"pool"}
    /\ s = "NULL" => q.held = {}

VideoTestFits(s, q, o) ==
    /\ Struct(q) /\ q.lost = {} /\ q.stray = {}
    /\ q.held \subseteq {"pool", "tmp_yuv420p_buf"}
    /\ s = "NULL" => q.held = {}

ScFits(s, q, o) ==
    /\ Struct(q) /\ q.lost = {} /\ q.stray \subseteq {"lock"}
    /\ q.held \subseteq {"media_fd", "subdev_fd", "vpss_csc_fd", "v4l2_src", "video_pad",
       "alsa_src", "audio_pad", "thread"}
    /\ s = "NULL" => q.held = {}
    /\ s # "PLAYING" => q.held \subseteq {"media_fd", "subdev_fd", "vpss_csc_fd"}

NetSrcFits(s, q, o) ==
    /\ Struct(q) /\ q.lost \subseteq {"pool"} /\ q.stray = {}
    /\ q.held \subseteq {"pool", "conn_fd", "listen_fd"}
    /\ s = "NULL" => q.held \subseteq {"pool"}
    /\ s # "NULL" => "pool" \in q.held

NetSinkFits(s, q, o) ==
    /\ Struct(q) /\ q.lost = {} /\ q.stray = {}
    /\ q.held \subseteq {"conn_fd", "listen_fd", "pacer"}
    /\ s = "NULL" => q.held = {}

SrtSrcFits(s, q, o) ==
    /\ Struct(q) /\ q.lost = {} /\ q.stray = {}
    /\ q.held \subseteq {"srt", "pool", "listen_sock", "conn_sock"}
    /\ s = "NULL" => q.held = {}
    /\ s # "NULL" => {"srt", "pool"} \subseteq q.held
    /\ "listen_sock" \in q.held => Is(q, "listener") /\ ~Is(q, "connecting")
    /\ s # "NULL" /\ Is(q, "connecting") => "conn_sock" \in q.held

SrtSinkFits(s, q, o) ==
    /\ Struct(q) /\ q.lost = {} /\ q.stray \subseteq {"conn_sock"}
    /\ q.held \subseteq {"srt", "listen_sock", "conn_sock"}
    /\ s = "NULL" => q.held = {}
    /\ s # "NULL" => "srt" \in q.held
    /\ "listen_sock" \in q.held => Is(q, "listener") /\ ~Is(q, "connecting")

HttpFits(s, q, o) ==
    /\ Struct(q) /\ q.lost = {} /\ q.stray = {}
    /\ q.held \subseteq {"pb", "pool"}
    /\ s = "NULL" => q.held = {}
    /\ s # "NULL" => "pool" \in q.held

RtmpSrcFits(s, q, o) ==
    /\ Struct(q) /\ q.lost \subseteq {"thread"} /\ q.stray \subseteq {"thread"}
    /\ q.held \subseteq {"thread", "fc", "lock"}
    /\ s = "NULL" => q.held \subseteq {"thread"}
    /\ Is(q, "running") => s = "PLAYING"

RtmpSinkFits(s, q, o) ==
    /\ Struct(q) /\ q.lost = {} /\ q.stray = {}
    /\ q.held \subseteq {"lock", "fc", "video_extradata"}
    /\ "lock" \in q.held <=> s # "NULL"
    /\ s # "PLAYING" => "fc" \notin q.held /\ {"running", "header_written"} \cap q.on = {}
    /\ Is(q, "header_written") => "fc" \in q.held
    /\ s # "PLAYING" /\ o = {} => "video_extradata" \notin q.held

ScalerFits(s, q, o) ==
    /\ Struct(q) /\ q.lost = {} /\ q.stray = {}
    /\ q.held \subseteq {"sws_ctx", "pool"}
    /\ s = "NULL" => q.held = {}

ResamplerFits(s, q, o) ==
    /\ Struct(q) /\ q.lost = {} /\ q.stray \subseteq {"compensation"}
    /\ q.held \subseteq {"swr_ctx", "pool"}
    /\ s = "NULL" => q.held = {}

OverlayFits(s, q, o) ==
    /\ Struct(q) /\ q.lost = {} /\ q.stray \subseteq {"callers_buffer"}
    /\ s = "NULL" => q.held = {}
    /\ s # "NULL" => q.held = {"ft", "face", "text_lock"}

H26xFits(s, q, o) ==
    /\ Struct(q) /\ q.lost = {} /\ q.stray = {}
    /\ q.held \subseteq {"adapter", "au", "ps"}
    /\ s = "NULL" => q.held = {}

SubRipFits(s, q, o) ==
    /\ Struct(q) /\ q.lost = {} /\ q.stray = {}
    /\ q.held \subseteq {"entries", "thread"}
    /\ "entries" \in q.held <=> s # "NULL"
    /\ s # "PLAYING" => "thread" \notin q.held /\ ~Is(q, "running")

Mp4MuxFits(s, q, o) ==
    /\ Struct(q)
    /\ q.lost \subseteq {"avio", "fc", "file"}
    /\ q.stray \subseteq {"pb"} \cup Odd(o, {"file"})
    /\ q.held \subseteq {"fc", "file", "avio", "video_extradata"}
    /\ ~Is(q, "direct_file") => "file" \notin q.held
    /\ "fc" \in q.held /\ Is(q, "direct_file") /\ o = {} /\ IoContexts \cap q.held # {} =>
       "file" \in q.held
    /\ s # "PLAYING" /\ o = {} => {"fc", "video_extradata"} \cap q.held = {}

TsMuxFits(s, q, o) ==
    /\ Struct(q)
    /\ q.lost \subseteq {"avio", "fc", "file"}
    /\ q.stray \subseteq Odd(o, {"file"})
    /\ q.held \subseteq {"fc", "file", "avio"}
    /\ ~Is(q, "direct_file") => "file" \notin q.held
    /\ "fc" \in q.held /\ Is(q, "direct_file") /\ o = {} /\ IoContexts \cap q.held # {} =>
       "file" \in q.held
    /\ s # "PLAYING" /\ o = {} => "fc" \notin q.held
    /\ Is(q, "header_written") => "fc" \in q.held /\ IoContexts \cap q.held # {}

Mp4DemuxFits(s, q, o) ==
    /\ Struct(q)
    /\ q.lost \subseteq {"fc", "file"} \cup Odd(o, {"avio", "queue"})
    /\ q.stray = {}
    /\ q.held \subseteq {"lock", "fc", "file", "avio", "pads"}
    /\ "lock" \in q.held <=> s # "NULL"
    /\ Is(q, "direct_file") => q.links = {}
    /\ q.links = {} => q.n = 0 /\ "avio" \notin q.held
    /\ "file" \in q.held => Is(q, "direct_file")
    /\ "avio" \in q.held => "fc" \in q.held
    /\ s # "PLAYING" /\ o = {} => q.n = 0
    /\ q.n \in Nat
    /\ s # "PLAYING" /\ o = {} => "avio" \notin q.held

TsDemuxFits(s, q, o) ==
    /\ Struct(q)
    /\ q.lost \subseteq {"temporary_avio"} \cup Odd(o, {"avio", "fc", "queue"})
    /\ q.stray \subseteq {"temp_fc"}
    /\ q.held \subseteq {"lock", "fc", "file", "avio", "pads"}
    /\ "lock" \in q.held <=> s # "NULL"
    /\ Is(q, "direct_file") => q.links = {}
    /\ q.links = {} => q.n = 0 /\ "avio" \notin q.held
    /\ "file" \in q.held => Is(q, "direct_file")
    /\ "avio" \in q.held => "fc" \in q.held
    /\ s # "PLAYING" /\ o = {} => q.n = 0
    /\ q.n \in Nat
    /\ s # "PLAYING" => "file" \notin q.held
    /\ "file" \in q.held => "fc" \in q.held
    /\ s # "PLAYING" /\ o = {} => q.held \subseteq {"lock"}

RtpPayFits(s, q, o) ==
    /\ Struct(q) /\ q.lost = {} /\ q.stray = {}
    /\ q.held \subseteq {"pool"}
    /\ s = "NULL" => q.held = {}

RtpDepayFits(s, q, o) ==
    /\ Struct(q) /\ q.lost = {} /\ q.stray = {}
    /\ q.held \subseteq {"au_data"}
    /\ s = "NULL" => q.held = {}

Depay20Fits(s, q, o) ==
    /\ Struct(q) /\ q.lost = {} /\ q.stray = {}
    /\ q.held \subseteq {"current_frame"}

Pay21Fits(s, q, o) ==
    /\ Struct(q) /\ q.lost \subseteq {"packet_data"} /\ q.stray = {}
    /\ q.held \subseteq {"pacer"}
    /\ s # "PLAYING" => q.held = {}

Depay21Fits(s, q, o) ==
    /\ Struct(q) /\ q.lost \subseteq {"packet_data"} /\ q.stray = {}
    /\ q.held \subseteq {"au_data"}
    /\ s # "PLAYING" /\ o = {} => q.held = {}

Pay22Fits(s, q, o) ==
    /\ Struct(q) /\ q.lost = {} /\ q.stray \subseteq {"bitstream"}
    /\ q.held \subseteq {"encoder"}
    /\ s # "PLAYING" => q.held = {}

Depay22Fits(s, q, o) ==
    /\ Struct(q)
    /\ q.lost \subseteq {"packet_data"}
    /\ q.stray \subseteq {"decoder_instance"}
    /\ q.held \subseteq {"decoder", "decoder_instance"}
    /\ s # "PLAYING" => q.held = {}
    /\ ~Is(q, "config") => "decoder_instance" \notin q.held

Pay30Fits(s, q, o) ==
    /\ Struct(q) /\ q.lost \subseteq {"packet"} /\ q.stray \subseteq {"callers_buffer"}
    /\ q.held = {}

Depay30Fits(s, q, o) ==
    /\ Struct(q) /\ q.lost = {} /\ q.stray \subseteq {"callers_buffer"}
    /\ q.held = {}

Pay40Fits(s, q, o) ==
    /\ Struct(q) /\ q.lost = {} /\ q.stray \subseteq {"callers_buffer", "aux_data_type"}
    /\ q.held = {}

SdpDemuxFits(s, q, o) ==
    /\ Struct(q) /\ q.lost = {} /\ q.stray = {}
    /\ q.held \subseteq {"tracks", "pads"}
    /\ s = "NULL" => "pads" \notin q.held /\ ~Is(q, "opened")

UdpSrcFits(s, q, o) ==
    /\ Struct(q) /\ q.lost = {} /\ q.stray \subseteq {"lock"}
    /\ q.held \subseteq {"fd", "ring", "reader"}
    /\ s = "NULL" => q.held \subseteq {"fd"}

UdpSinkFits(s, q, o) ==
    /\ Struct(q) /\ q.lost = {} /\ q.stray = {}
    /\ s = "NULL" => q.held = {}
    /\ s # "NULL" => q.held = {"fd", "pacer"}

DepFits(s, q, o) ==
    /\ Struct(q) /\ q.lost = {} /\ q.stray = {}
    /\ q.held \subseteq {"endpoint", "context"}
    /\ s = "NULL" => q.held = {}

QueueElFits(s, q, o) ==
    /\ Struct(q) /\ q.lost = {} /\ q.stray = {}
    /\ q.held \subseteq {"queue", "thread"}
    /\ s = "NULL" => q.held = {}
    /\ s # "PLAYING" => "thread" \notin q.held

MixerFits(s, q, o) ==
    /\ Struct(q) /\ q.lost = {} /\ q.stray \subseteq {"thread"}
    /\ q.held \subseteq {"sink_0_queue", "sink_1_queue", "thread", "fmix"}
    /\ s = "NULL" => "fmix" \notin q.held
    /\ s # "PLAYING" => "thread" \notin q.held

RtspSinkFits(s, q, o) ==
    /\ Struct(q) /\ q.lost = {} /\ q.stray = {}
    /\ q.held \subseteq {"fc", "video_pacer", "audio_pacer"}
    /\ s # "PLAYING" => q.held = {}

IppCompFits(s, q, o) ==
    /\ Struct(q)
    /\ q.lost = {}
    /\ q.stray \subseteq {"worker", "sink_0_input", "sink_1_input"} \cup Odd(o, {"canvas"})
    /\ q.held \subseteq {"canvas", "worker", "sink_0_input", "sink_1_input"}
    /\ s = "NULL" => {"canvas", "worker"} \cap q.held = {}
    /\ Is(q, "resized") => o # {}

GlCompFits(s, q, o) ==
    /\ Struct(q)
    /\ q.lost = {}
    /\ q.stray \subseteq {"worker", "sink_0_input", "sink_1_input"}
    /\ q.held \subseteq {"display", "worker", "gl_context", "sink_0_input", "sink_1_input"}
    /\ s = "NULL" => {"display", "worker", "gl_context"} \cap q.held = {}
    /\ Is(q, "starting") => "gl_context" \notin q.held /\ "worker" \in q.held
    /\ "gl_context" \in q.held /\ ~Is(q, "null_mode") => "display" \in q.held

\* The same for the kind e.
Fits(e, s, q, o) ==
    CASE e \in {"aacenc", "opusenc"} -> AacEncFits(s, q, o)
      [] e = "x264enc" -> X264Fits(s, q, o)
      [] e = "x265enc" -> X265Fits(s, q, o)
      [] e = "h265enc" -> H265EncFits(s, q, o)
      [] e \in {"h264dec", "h265dec"} -> H264DecFits(s, q, o)
      [] e \in {"aacdec", "opusdec"} -> AacDecFits(s, q, o)
      [] e \in {"vp8enc", "vp9enc"} -> Vp8EncFits(s, q, o)
      [] e \in {"vp8dec", "vp9dec"} -> Vp8DecFits(s, q, o)
      [] e = "nvenc" -> NvEncFits(s, q, o)
      [] e = "nvdec" -> NvDecFits(s, q, o)
      [] e = "nvscale" -> NvScaleFits(s, q, o)
      [] e = "vaapienc" -> VaEncFits(s, q, o)
      [] e = "vaapidec" -> VaDecFits(s, q, o)
      [] e = "oneapienc" -> OneEncFits(s, q, o)
      [] e = "oneapidec" -> OneDecFits(s, q, o)
      [] e = "alsasink" -> AlsaSinkFits(s, q, o)
      [] e = "alsasrc" -> AlsaSrcFits(s, q, o)
      [] e = "v4l2sink" -> V4l2SinkFits(s, q, o)
      [] e = "v4l2src" -> V4l2SrcFits(s, q, o)
      [] e = "x11sink" -> X11Fits(s, q, o)
      [] e = "filesink" -> FileSinkFits(s, q, o)
      [] e = "filesrc" -> FileSrcFits(s, q, o)
      [] e \in {"fakesink", "aacparse", "st2110_20pay", "st2110_fecenc", "st2110_fecdec",
                "st2110_redmux", "st2110_reddemux", "sdpmux"} -> OwnsNothingFits(s, q, o)
      [] e = "textsrc" -> TextSrcFits(s, q, o)
      [] e = "glsink" -> GlSinkFits(s, q, o)
      [] e = "hlssink" -> HlsFits(s, q, o)
      [] e = "audiotestsrc" -> AudioTestFits(s, q, o)
      [] e = "videotestsrc" -> VideoTestFits(s, q, o)
      [] e = "sc6f0src" -> ScFits(s, q, o)
      [] e = "netsrc" -> NetSrcFits(s, q, o)
      [] e = "netsink" -> NetSinkFits(s, q, o)
      [] e = "srtsrc" -> SrtSrcFits(s, q, o)
      [] e = "srtsink" -> SrtSinkFits(s, q, o)
      [] e = "httpsrc" -> HttpFits(s, q, o)
      [] e = "rtmpsrc" -> RtmpSrcFits(s, q, o)
      [] e = "rtmpsink" -> RtmpSinkFits(s, q, o)
      [] e = "videoscaler" -> ScalerFits(s, q, o)
      [] e = "audioresampler" -> ResamplerFits(s, q, o)
      [] e = "textoverlay" -> OverlayFits(s, q, o)
      [] e = "h26xparse" -> H26xFits(s, q, o)
      [] e = "srtparse" -> SubRipFits(s, q, o)
      [] e = "mp4mux" -> Mp4MuxFits(s, q, o)
      [] e = "tsmux" -> TsMuxFits(s, q, o)
      [] e = "mp4demux" -> Mp4DemuxFits(s, q, o)
      [] e = "tsdemux" -> TsDemuxFits(s, q, o)
      [] e = "rtppay" -> RtpPayFits(s, q, o)
      [] e = "rtpdepay" -> RtpDepayFits(s, q, o)
      [] e = "st2110_20depay" -> Depay20Fits(s, q, o)
      [] e = "st2110_21pay" -> Pay21Fits(s, q, o)
      [] e = "st2110_21depay" -> Depay21Fits(s, q, o)
      [] e = "st2110_22pay" -> Pay22Fits(s, q, o)
      [] e = "st2110_22depay" -> Depay22Fits(s, q, o)
      [] e = "st2110_30pay" -> Pay30Fits(s, q, o)
      [] e \in {"st2110_30depay", "st2110_40depay"} -> Depay30Fits(s, q, o)
      [] e = "st2110_40pay" -> Pay40Fits(s, q, o)
      [] e = "sdpdemux" -> SdpDemuxFits(s, q, o)
      [] e = "danteudpsrc" -> UdpSrcFits(s, q, o)
      [] e = "danteudpsink" -> UdpSinkFits(s, q, o)
      [] e \in {"dantedepsrc", "dantedepsink"} -> DepFits(s, q, o)
      [] e = "queue" -> QueueElFits(s, q, o)
      [] e = "audiomixer" -> MixerFits(s, q, o)
      [] e = "rtspsink" -> RtspSinkFits(s, q, o)
      [] e = "ippcompsink" -> IppCompFits(s, q, o)
      [] e = "glcompsink" -> GlCompFits(s, q, o)

\* The flags that stand for what an application can set on an element of kind e.
Settings(e) ==
    CASE e \in {"aacenc", "opusenc"} -> {"bitrate"}
      [] e \in {"x264enc", "x265enc"} -> {"bframes", "output_nal_units"}
      [] e = "h265enc" -> {"crf"}
      [] e \in {"h264dec", "h265dec", "opusdec", "vp8dec", "vp9dec"} -> {"threads"}
      [] e = "aacdec" -> {"threads", "fixed_point"}
      [] e \in {"vp8enc", "vp9enc"} -> {"size", "threads"}
      [] e \in {"nvenc", "nvdec", "oneapienc", "oneapidec"} -> {"codec"}
      [] e = "nvscale" -> {"width"}
      [] e \in {"vaapienc", "alsasink", "alsasrc"} -> {"device"}
      [] e = "vaapidec" -> {"codec", "dmabuf"}
      [] e = "v4l2sink" -> {"device", "userptr"}
      [] e = "v4l2src" -> {"userptr", "export"}
      [] e = "x11sink" -> {"title"}
      [] e = "filesink" -> {"path"}
      [] e = "filesrc" -> {"loop", "path"}
      [] e = "fakesink" -> {"drop_probability"}
      [] e \in {"textsrc", "audiotestsrc"} -> {"loop", "num_buffers"}
      [] e = "glsink" -> {"vsync"}
      [] e = "hlssink" -> {"location"}
      [] e = "videotestsrc" -> {"pixel_format", "loop", "num_buffers"}
      [] e = "sc6f0src" -> {"mock"}
      [] e = "netsrc" -> {"server", "udp"}
      [] e = "netsink" -> {"server", "udp", "timestamp_pacing"}
      [] e \in {"srtsrc", "srtsink"} -> {"listener"}
      [] e \in {"httpsrc", "rtmpsrc", "rtmpsink"} -> {"url", "reconnect"}
      [] e = "videoscaler" -> {"target"}
      [] e = "audioresampler" -> {"rate", "asrc", "block_samples", "sample_rate"}
      [] e = "textoverlay" -> {"text", "timecode", "font_path"}
      [] e = "h26xparse" -> {"codec", "input_format", "policy", "aggregate"}
      [] e = "aacparse" -> {"config"}
      [] e = "mp4mux" -> {"direct_file", "split_at_keyframe"}
      [] e \in {"tsmux", "mp4demux", "tsdemux"} -> {"direct_file"}
      [] e = "rtppay" -> {"codec", "mtu", "seq"}
      [] e = "rtpdepay" -> {"codec", "ssrc"}
      [] e \in {"st2110_fecenc", "st2110_fecdec"} -> {"L", "D"}
      [] e = "st2110_redmux" -> {"fec_enabled"}
      [] e = "st2110_reddemux" -> {"failover_detection_ms"}
      [] e = "sdpmux" -> {"emit_always"}
      [] e = "sdpdemux" -> {"sdp", "reorder_capacity"}
      [] e = "danteudpsrc" -> {"address"}
      [] e = "danteudpsink" -> {"timestamp_pacing"}
      [] e \in {"dantedepsrc", "dantedepsink"} -> {"shm_name"}
      [] e = "queue" -> {"pool"}
      [] e = "audiomixer" -> {"max-lateness"}
      [] e = "rtspsink" -> {"udp-timestamp-pacing", "udp"}
      [] e \in {"ippcompsink", "glcompsink"} -> {"canvas-width"}
      [] OTHER -> {}

-----------------------------------------------------------------------------
(* 2. What a hook may rely on, and what it has to keep.                      *)

\* The hooks of a state change.
Hooks == {"open", "preroll", "start", "stop", "unpreroll", "close"}

\* The state of an element that was in state s after its hook h returned ret.
To(h, s, ret) ==
    IF ret # "ok" THEN s
    ELSE CASE h = "open" -> "READY" [] h = "preroll" -> "PAUSED" [] h = "start" -> "PLAYING"
           [] h = "stop" -> "PAUSED" [] h = "unpreroll" -> "READY" [] h = "close" -> "NULL"
           [] OTHER -> s

\* The framework may call hook h in state s: with v, the oddities met once the
\* call is made, a push or a process() while PAUSED is one.  P are the pads.
Calls(P, h, s, q, in, v) ==
    /\ s \in {"NULL", "READY", "PAUSED", "PLAYING"} /\ q.links \subseteq P
    /\ h = "open" => s = "NULL"
    /\ h \in {"preroll", "close"} => s = "READY"
    /\ h \in {"start", "unpreroll"} => s = "PAUSED"
    /\ h = "stop" => s = "PLAYING"
    /\ h \in {"push", "process", "event"} => s \in {"PAUSED", "PLAYING"}
    /\ h \in {"push", "process"} /\ s = "PAUSED" => v # {}
    /\ h = "push" => q.links # {} /\ (P # {"sink"} => in.pad \in q.links)

\* What an outcome r of hook h is: the structure fits the new state (READY too,
\* when a source ended), the way down never fails, no setting of S is forgotten
\* but those of G, set_property adds settings only, and no pad gains a link.
Fine(Fit(_, _, _), S, G, h, s, q, in, v, r) ==
    (h = "set_property" /\ s # "NULL" /\ r.p # q => v # {}) =>
    /\ Fit(To(h, s, r.ret), r.p, v)
    /\ h = "process" /\ in = "none" /\ q.links = {} /\ r.ret = "eof" => Fit("READY", r.p, v)
    /\ h \in {"stop", "unpreroll", "close"} => r.ret = "ok"
    /\ (q.on \ r.p.on) \cap S \subseteq G
    /\ h = "set_property" => r.p.on \ q.on \subseteq S \cup Derived
    /\ r.p.links \subseteq q.links

\* r is q, but for what was sent, what is on the list and what was given up.
Nearly(q, r) ==
    /\ Struct(r) /\ r.held = q.held /\ r.lost = q.lost /\ r.on = q.on /\ r.n = q.n
    /\ r.stray = q.stray /\ r.links = q.links

\* Every outcome of every hook of e is fine.
Moves(e) ==
    \A h, s, q, in, o, v :
        Fits(e, s, q, o) /\ o \subseteq v /\ Calls(Pads(e), h, s, q, in, v) =>
        \A r \in Ops(e, h, q, in) :
            Fine(LAMBDA a, b, c : Fits(e, a, b, c), Settings(e), Forgotten(e), h, s, q, in, v, r)

\* A state change without a hook leaves a structure that fits the new state.
Idle(e) ==
    \A h \in Hooks : \A s, q, in, o :
        Fits(e, s, q, o) /\ Calls(Pads(e), h, s, q, in, o) /\ Ops(e, h, q, in) = NoHook =>
        Fits(e, To(h, s, "ok"), q, o)

\* Sending, giving up a frame and a further oddity change nothing of the fit.
Steady(e) ==
    \A s, q, r, o, v : Fits(e, s, q, o) /\ o \subseteq v /\ Nearly(q, r) => Fits(e, s, r, v)

\* A new element fits NULL.
Born(e) == \A L : L \subseteq Pads(e) => Fits(e, "NULL", Create(e, L), {})

\* A structure that fits has lost and strayed no more than the tables say.
Safe(e) ==
    \A s, q, o : Fits(e, s, q, o) =>
        /\ Struct(q) /\ q.lost \subseteq KnownLeaks(e, o) /\ q.stray \subseteq KnownStrays(e, o)
        /\ s = "NULL" => q.held \subseteq KnownLeaks(e, o)

\* The five together.
Sound(e) == Moves(e) /\ Idle(e) /\ Steady(e) /\ Born(e) /\ Safe(e)

-----------------------------------------------------------------------------
(* What the primitives of ZstHooks do to each field.                        *)
LEMMA OnFields ==
    ASSUME NEW q, NEW F, Struct(q)
    PROVE  /\ Struct(On(q, F))
           /\ On(q, F).on = q.on \cup F
           /\ On(q, F).held = q.held /\ On(q, F).lost = q.lost /\ On(q, F).n = q.n
           /\ On(q, F).pend = q.pend /\ On(q, F).sent = q.sent /\ On(q, F).stray = q.stray
           /\ On(q, F).shed = q.shed /\ On(q, F).links = q.links
BY DEF Struct, On

LEMMA OffFields ==
    ASSUME NEW q, NEW F, Struct(q)
    PROVE  /\ Struct(Off(q, F))
           /\ Off(q, F).on = q.on \ F
           /\ Off(q, F).held = q.held /\ Off(q, F).lost = q.lost /\ Off(q, F).n = q.n
           /\ Off(q, F).pend = q.pend /\ Off(q, F).sent = q.sent /\ Off(q, F).stray = q.stray
           /\ Off(q, F).shed = q.shed /\ Off(q, F).links = q.links
BY DEF Struct, Off

LEMMA GetFields ==
    ASSUME NEW q, NEW F, Struct(q)
    PROVE  /\ Struct(Get(q, F))
           /\ Get(q, F).held = q.held \cup F
           /\ Get(q, F).lost = q.lost \cup (F \cap q.held)
           /\ Get(q, F).on = q.on /\ Get(q, F).n = q.n /\ Get(q, F).pend = q.pend
           /\ Get(q, F).sent = q.sent /\ Get(q, F).stray = q.stray /\ Get(q, F).shed = q.shed
           /\ Get(q, F).links = q.links
BY DEF Struct, Get

LEMMA FreeFields ==
    ASSUME NEW q, NEW F, Struct(q)
    PROVE  /\ Struct(Free(q, F))
           /\ Free(q, F).held = q.held \ F
           /\ Free(q, F).lost = q.lost /\ Free(q, F).on = q.on /\ Free(q, F).n = q.n
           /\ Free(q, F).pend = q.pend /\ Free(q, F).sent = q.sent /\ Free(q, F).stray = q.stray
           /\ Free(q, F).shed = q.shed /\ Free(q, F).links = q.links
BY DEF Struct, Free

LEMMA NullFields ==
    ASSUME NEW q, NEW F, Struct(q)
    PROVE  /\ Struct(Null(q, F))
           /\ Null(q, F).held = q.held \ F
           /\ Null(q, F).lost = q.lost \cup (F \cap q.held)
           /\ Null(q, F).on = q.on /\ Null(q, F).n = q.n /\ Null(q, F).pend = q.pend
           /\ Null(q, F).sent = q.sent /\ Null(q, F).stray = q.stray /\ Null(q, F).shed = q.shed
           /\ Null(q, F).links = q.links
BY DEF Struct, Null

LEMMA LoseFields ==
    ASSUME NEW q, NEW F, Struct(q)
    PROVE  /\ Struct(Lose(q, F))
           /\ Lose(q, F).lost = q.lost \cup F
           /\ Lose(q, F).held = q.held /\ Lose(q, F).on = q.on /\ Lose(q, F).n = q.n
           /\ Lose(q, F).pend = q.pend /\ Lose(q, F).sent = q.sent /\ Lose(q, F).stray = q.stray
           /\ Lose(q, F).shed = q.shed /\ Lose(q, F).links = q.links
BY DEF Struct, Lose

LEMMA StrayFields ==
    ASSUME NEW q, NEW F, Struct(q)
    PROVE  /\ Struct(Stray(q, F))
           /\ Stray(q, F).stray = q.stray \cup F
           /\ Stray(q, F).held = q.held /\ Stray(q, F).lost = q.lost /\ Stray(q, F).on = q.on
           /\ Stray(q, F).n = q.n /\ Stray(q, F).pend = q.pend /\ Stray(q, F).sent = q.sent
           /\ Stray(q, F).shed = q.shed /\ Stray(q, F).links = q.links
BY DEF Struct, Stray

LEMMA UseFields ==
    ASSUME NEW q, NEW F, Struct(q)
    PROVE  /\ Struct(Use(q, F))
           /\ Use(q, F).stray = q.stray \cup (F \ q.held)
           /\ Use(q, F).held = q.held /\ Use(q, F).lost = q.lost /\ Use(q, F).on = q.on
           /\ Use(q, F).n = q.n /\ Use(q, F).pend = q.pend /\ Use(q, F).sent = q.sent
           /\ Use(q, F).shed = q.shed /\ Use(q, F).links = q.links
BY DEF Struct, Use, Stray

LEMMA ShedFields ==
    ASSUME NEW q, Struct(q)
    PROVE  /\ Struct(Shed(q))
           /\ Shed(q).held = q.held /\ Shed(q).lost = q.lost /\ Shed(q).on = q.on
           /\ Shed(q).n = q.n /\ Shed(q).pend = q.pend /\ Shed(q).sent = q.sent
           /\ Shed(q).stray = q.stray /\ Shed(q).links = q.links
BY DEF Struct, Shed

LEMMA InsideFields ==
    ASSUME NEW q, NEW k, Struct(q)
    PROVE  /\ Struct(Inside(q, k))
           /\ Inside(q, k).n = k
           /\ Inside(q, k).held = q.held /\ Inside(q, k).lost = q.lost /\ Inside(q, k).on = q.on
           /\ Inside(q, k).pend = q.pend /\ Inside(q, k).sent = q.sent /\ Inside(q, k).stray = q.stray
           /\ Inside(q, k).shed = q.shed /\ Inside(q, k).links = q.links
BY DEF Struct, Inside

LEMMA ListedFields ==
    ASSUME NEW q, NEW t, Struct(q)
    PROVE  /\ Struct(Listed(q, t))
           /\ Listed(q, t).pend = t
           /\ Listed(q, t).held = q.held /\ Listed(q, t).lost = q.lost /\ Listed(q, t).on = q.on
           /\ Listed(q, t).n = q.n /\ Listed(q, t).sent = q.sent /\ Listed(q, t).stray = q.stray
           /\ Listed(q, t).shed = q.shed /\ Listed(q, t).links = q.links
BY DEF Struct, Listed

LEMMA UnlinkedFields ==
    ASSUME NEW q, NEW m, Struct(q)
    PROVE  /\ Struct(Unlinked(q, m))
           /\ Unlinked(q, m).links = q.links \ {m}
           /\ Unlinked(q, m).held = q.held /\ Unlinked(q, m).lost = q.lost /\ Unlinked(q, m).on = q.on
           /\ Unlinked(q, m).n = q.n /\ Unlinked(q, m).pend = q.pend /\ Unlinked(q, m).sent = q.sent
           /\ Unlinked(q, m).stray = q.stray /\ Unlinked(q, m).shed = q.shed
BY DEF Struct, Unlinked

LEMMA SendFields ==
    ASSUME NEW q, NEW t, Struct(q)
    PROVE  /\ Struct(Send(q, t))
           /\ Send(q, t).sent = Seen(q.sent, t)
           /\ Send(q, t).held = q.held /\ Send(q, t).lost = q.lost /\ Send(q, t).on = q.on
           /\ Send(q, t).n = q.n /\ Send(q, t).pend = q.pend /\ Send(q, t).stray = q.stray
           /\ Send(q, t).shed = q.shed /\ Send(q, t).links = q.links
BY DEF Struct, Send

-----------------------------------------------------------------------------
(* Structures that differ only in what is inside a codec or on a list.      *)

\* r owns, lost and strayed the same as q, and has the same flags but "ended".
Alike(q, r) ==
    /\ Struct(r) /\ r.held = q.held /\ r.lost = q.lost /\ r.stray = q.stray /\ r.links = q.links
    /\ \A f : f # "ended" => (f \in r.on <=> f \in q.on)

\* The same, but a buffer pool may have been made or replaced.
Pooled(q, r) ==
    /\ Struct(r) /\ r.lost = q.lost /\ r.stray = q.stray /\ r.links = q.links
    /\ \A x : x # "pool" => (x \in r.held <=> x \in q.held)
    /\ \A f : f # "ended" => (f \in r.on <=> f \in q.on)

LEMMA FlowAlike ==
    ASSUME NEW q, Struct(q)
    PROVE  /\ Alike(q, q) /\ Alike(q, Shed(q)) /\ Alike(q, End(q)) /\ Alike(q, Flushed(q))
           /\ Alike(q, Taken(q))
  BY ShedFields, InsideFields, OnFields, OffFields DEF Alike, End, Flushed, Taken

LEMMA FlowsAlike ==
    ASSUME NEW q, NEW k, Struct(q)
    PROVE  Alike(q, Inside(q, k)) /\ Alike(q, Listed(q, k)) /\ Alike(q, Send(q, k))
  BY InsideFields, ListedFields, SendFields DEF Alike

LEMMA UseAlike ==
    ASSUME NEW q, NEW R, Struct(q), R \subseteq q.held
    PROVE  Alike(q, Use(q, R))
<1>1. q.stray \cup (R \ q.held) = q.stray
  OBVIOUS
<1> QED
  BY <1>1, UseFields DEF Alike

LEMMA AlikeTrans ==
    ASSUME NEW q, NEW r, NEW t, Alike(q, r), Alike(r, t)
    PROVE  Alike(q, t)
  BY DEF Alike

LEMMA PooledTrans ==
    ASSUME NEW q, NEW r, NEW t, Pooled(q, r), Pooled(r, t)
    PROVE  Pooled(q, t)
  BY DEF Pooled

LEMMA AlikePooled ==
    ASSUME NEW q, NEW r, Alike(q, r)
    PROVE  Pooled(q, r)
  BY DEF Pooled, Alike

LEMMA PushAlike ==
    ASSUME NEW q, NEW o, Struct(q), NEW r \in Push(q, o)
    PROVE  Alike(q, r.p) /\ r.out = "none"
  BY FlowAlike, FlowsAlike DEF Push, Ok, Fail, Outcome

LEMMA PushOutAlike ==
    ASSUME NEW S, \A t \in S : Struct(t.p), NEW r \in PushOut(S)
    PROVE  \E t \in S : Alike(t.p, r.p)
  BY FlowAlike, FlowsAlike, PushAlike DEF PushOut, Outcome

LEMMA PushListAlike ==
    ASSUME NEW S, \A t \in S : Struct(t.p), NEW r \in PushList(S)
    PROVE  \E t \in S : Alike(t.p, r.p)
<1>1. PICK t \in S : r \in (IF t.out = "none" THEN {t}
           ELSE LET all == <<t.out>> \o t.p.pend
                IN  {Outcome(t.ret, Send(Listed(t.p, <<>>), all), "none")}
                    \cup
                    {Outcome("err", Shed(Send(Listed(t.p, SubSeq(all, k + 1, Len(all))),
                                              SubSeq(all, 1, k - 1))), "none") :
                         k \in 1 .. Len(all)})
  BY DEF PushList
<1> DEFINE all == <<t.out>> \o t.p.pend
<1>2. CASE r = t
  BY <1>2, FlowAlike, FlowsAlike
<1>3. CASE r = Outcome(t.ret, Send(Listed(t.p, <<>>), all), "none")
  <2> HIDE DEF all
  <2>1. Struct(Listed(t.p, <<>>)) /\ Alike(t.p, Listed(t.p, <<>>))
    BY FlowAlike, FlowsAlike DEF Alike
  <2>2. Alike(Listed(t.p, <<>>), Send(Listed(t.p, <<>>), all))
    BY <2>1, FlowAlike, FlowsAlike
  <2> QED
    BY <1>3, <2>1, <2>2, AlikeTrans DEF Outcome
<1>4. CASE \E k \in 1 .. Len(all) :
              r = Outcome("err", Shed(Send(Listed(t.p, SubSeq(all, k + 1, Len(all))),
                                           SubSeq(all, 1, k - 1))), "none")
  <2>1. PICK k \in 1 .. Len(all) :
              r = Outcome("err", Shed(Send(Listed(t.p, SubSeq(all, k + 1, Len(all))),
                                           SubSeq(all, 1, k - 1))), "none")
    BY <1>4
  <2> DEFINE a == SubSeq(all, k + 1, Len(all))
             b == SubSeq(all, 1, k - 1)
  <2>2. r.p = Shed(Send(Listed(t.p, a), b))
    BY <2>1 DEF Outcome
  <2> HIDE DEF a, b
  <2>3. Alike(t.p, Listed(t.p, a)) /\ Struct(Listed(t.p, a))
    BY FlowAlike, FlowsAlike DEF Alike
  <2>4. Alike(Listed(t.p, a), Send(Listed(t.p, a), b)) /\ Struct(Send(Listed(t.p, a), b))
    BY <2>3, FlowAlike, FlowsAlike DEF Alike
  <2>5. Alike(Send(Listed(t.p, a), b), Shed(Send(Listed(t.p, a), b)))
    BY <2>4, FlowAlike, FlowsAlike
  <2> QED
    BY <2>2, <2>3, <2>4, <2>5, AlikeTrans
<1> QED
  BY <1>1, <1>2, <1>3, <1>4

\* What the helpers the encoders and decoders share do.
LEMMA PendingAlike ==
    ASSUME NEW q, NEW o, Struct(q)
    PROVE  /\ \A r \in PendingPop(q) : Alike(q, r.p) /\ r.ret = "ok"
           /\ \A r \in PendingPush(q, o) : Alike(q, r.p)
  BY FlowAlike, FlowsAlike DEF PendingPop, PendingPush, Ok, Fail, Out, Outcome

LEMMA QueuePacketAlike ==
    ASSUME NEW q, Struct(q), NEW r \in H265QueuePacket(q)
    PROVE  Alike(q, r.p)
<1> DEFINE m == q.n - 1
           got == Inside(q, m)
           l == Append(got.pend, "data")
<1>1. r \in Ok(Listed(got, l)) \cup Fail(Shed(got))
  BY DEF H265QueuePacket
<1> HIDE DEF m
<1>2. Alike(q, got) /\ Struct(got)
  BY FlowAlike, FlowsAlike DEF Alike
<1> HIDE DEF got, l
<1>3. Alike(got, Listed(got, l)) /\ Alike(got, Shed(got))
  BY <1>2, FlowAlike, FlowsAlike
<1> QED
  BY <1>1, <1>2, <1>3, AlikeTrans DEF Ok, Fail, Outcome

LEMMA ReceivePacketsAlike ==
    ASSUME NEW q, Struct(q), {"ctx", "pool"} \subseteq q.held, NEW r \in H265ReceivePackets(q)
    PROVE  Alike(q, r.p)
<1> DEFINE u == Use(q, {"ctx", "pool"})
           after(k) == Listed(Inside(u, u.n - k), u.pend \o [i \in 1 .. k |-> "data"])
<1>1. Alike(q, u) /\ Struct(u)
  BY UseAlike DEF Alike
<1>2. \/ r \in Fail(Shed(u))
      \/ \E k : r \in Ok(after(k))
      \/ \E k : r \in H265QueuePacket(after(k))
  BY DEF H265ReceivePackets
<1> HIDE DEF u
<1>3. ASSUME NEW k PROVE Alike(u, after(k)) /\ Struct(after(k))
  <2> DEFINE m == u.n - k
             l == u.pend \o [i \in 1 .. k |-> "data"]
  <2> HIDE DEF m, l
  <2>1. Alike(u, Inside(u, m)) /\ Struct(Inside(u, m))
    BY <1>1, FlowAlike, FlowsAlike DEF Alike
  <2>2. Alike(Inside(u, m), Listed(Inside(u, m), l)) /\ Struct(Listed(Inside(u, m), l))
    BY <2>1, FlowAlike, FlowsAlike DEF Alike
  <2> QED
    BY <2>1, <2>2, AlikeTrans DEF m, l
<1> HIDE DEF after
<1>4. Alike(u, r.p)
  BY <1>1, <1>2, <1>3, QueuePacketAlike, FlowAlike, FlowsAlike, AlikeTrans DEF Ok, Fail, Outcome
<1> QED
  BY <1>1, <1>4, AlikeTrans

LEMMA UpdatePoolPooled ==
    ASSUME NEW q, Struct(q), NEW r \in H264UpdatePool(q)
    PROVE  Pooled(q, r.p)
<1> DEFINE g == Free(q, {"pool"})
<1>1. Pooled(q, g) /\ "pool" \notin g.held
  BY FreeFields DEF Pooled
<1>2. \/ r.p = q \/ r.p = g \/ r.p = Get(g, {"pool"})
  BY DEF H264UpdatePool, AllOrNothing, Ok, Fail, Outcome, Has
<1> HIDE DEF g
<1>3. Pooled(g, Get(g, {"pool"}))
  <2>1. Struct(g) /\ g.lost \cup ({"pool"} \cap g.held) = g.lost
    BY <1>1 DEF Pooled
  <2>2. /\ Struct(Get(g, {"pool"})) /\ Get(g, {"pool"}).held = g.held \cup {"pool"}
        /\ Get(g, {"pool"}).lost = g.lost /\ Get(g, {"pool"}).stray = g.stray
        /\ Get(g, {"pool"}).links = g.links /\ Get(g, {"pool"}).on = g.on
    BY <2>1, GetFields
  <2> QED
    BY <2>2 DEF Pooled
<1>4. Pooled(q, q)
  BY DEF Pooled
<1> QED
  BY <1>1, <1>2, <1>3, <1>4, PooledTrans

LEMMA EmitFramePooled ==
    ASSUME NEW q, Struct(q), NEW r \in H264EmitFrame(q)
    PROVE  Pooled(q, r.p)
<1> DEFINE m == q.n - 1
           got == Inside(q, m)
<1>1. PICK t \in H264UpdatePool(got) :
          r \in IF t.ret = "ok" THEN Push(t.p, "data") \cup Fail(Shed(t.p)) ELSE Fail(Shed(t.p))
  BY DEF H264EmitFrame
<1> HIDE DEF m
<1>2. Pooled(q, got) /\ Struct(got)
  BY FlowAlike, FlowsAlike, AlikePooled DEF Alike
<1> HIDE DEF got
<1>3. Pooled(got, t.p) /\ Struct(t.p)
  BY <1>2, UpdatePoolPooled DEF Pooled
<1>4. Pooled(t.p, r.p)
  BY <1>1, <1>3, PushAlike, FlowAlike, FlowsAlike, AlikePooled DEF Fail, Outcome
<1> QED
  BY <1>2, <1>3, <1>4, PooledTrans

LEMMA ReceivePooled ==
    ASSUME NEW q, NEW ready, Struct(q), NEW r \in H264Receive(q, ready)
    PROVE  Pooled(q, r.p)
<1>1. \/ r \in Fail(Flushed(q)) \cup Again(Flushed(q)) \cup Ok(q)
      \/ \E k : r \in H264EmitFrame(Inside(q, k))
  BY DEF H264Receive
<1>2. ASSUME NEW k PROVE Pooled(q, Inside(q, k)) /\ Struct(Inside(q, k))
  BY FlowAlike, FlowsAlike, AlikePooled DEF Alike
<1> QED
  BY <1>1, <1>2, EmitFramePooled, PooledTrans, FlowAlike, FlowsAlike, AlikePooled DEF Ok, Again, Fail, Outcome

LEMMA DecodePacketPooled ==
    ASSUME NEW q, NEW pkt, Struct(q), {"ctx", "frame"} \subseteq q.held,
           NEW r \in H264DecodePacket(q, pkt)
    PROVE  Pooled(q, r.p)
<1> DEFINE u == Use(q, {"ctx", "frame"})
<1>1. Pooled(q, u) /\ Struct(u)
  BY UseAlike, AlikePooled DEF Alike
<1>2. \/ r \in Ok(Shed(u)) \cup Fail(Flushed(u)) \cup Again(Flushed(u))
      \/ \E k : r \in H264Receive(u, k) \cup H264Receive(End(u), k)
      \/ \E k : r \in H264Receive(Taken(u), k)
      \/ \E k, l : \E t \in H264Receive(u, k) : r \in H264Receive(Taken(t.p), l)
  BY DEF H264DecodePacket, Then, Ok, Outcome
<1> HIDE DEF u
<1>3. ASSUME NEW t, Struct(t) PROVE Pooled(t, Taken(t)) /\ Struct(Taken(t))
  BY <1>3, FlowAlike, FlowsAlike, AlikePooled DEF Alike
<1>4. Pooled(u, End(u)) /\ Struct(End(u)) /\ Pooled(u, Shed(u)) /\ Pooled(u, Flushed(u))
  BY <1>1, FlowAlike, FlowsAlike, AlikePooled DEF Alike
<1>5. ASSUME NEW t, Pooled(u, t) PROVE Struct(t)
  BY <1>5 DEF Pooled
<1>6. CASE r \in Ok(Shed(u)) \cup Fail(Flushed(u)) \cup Again(Flushed(u))
  BY <1>1, <1>4, <1>6, PooledTrans DEF Ok, Fail, Again, Outcome
<1>7. CASE \E k : r \in H264Receive(u, k) \cup H264Receive(End(u), k)
  BY <1>1, <1>4, <1>7, ReceivePooled, PooledTrans
<1>8. CASE \E k : r \in H264Receive(Taken(u), k)
  BY <1>1, <1>3, <1>8, ReceivePooled, PooledTrans
<1>9. CASE \E k, l : \E t \in H264Receive(u, k) : r \in H264Receive(Taken(t.p), l)
  <2>1. PICK k, l : \E t \in H264Receive(u, k) : r \in H264Receive(Taken(t.p), l)
    BY <1>9
  <2>2. PICK t \in H264Receive(u, k) : r \in H264Receive(Taken(t.p), l)
    BY <2>1
  <2>3. Pooled(u, t.p) /\ Struct(t.p)
    BY <1>1, <1>5, <2>2, ReceivePooled
  <2>4. Pooled(t.p, Taken(t.p)) /\ Struct(Taken(t.p))
    BY <1>3, <2>3
  <2>5. Pooled(Taken(t.p), r.p)
    BY <2>2, <2>4, ReceivePooled
  <2> QED
    BY <1>1, <2>3, <2>4, <2>5, PooledTrans
<1> QED
  BY <1>2, <1>6, <1>7, <1>8, <1>9

-----------------------------------------------------------------------------
(* process() and push() of the codecs: each call they make, in turn.         *)

\* The flags of S that q has r has too, and the links are the same.
Kept(S, q, r) == r.links = q.links /\ \A f \in S : f \in q.on => f \in r.on

LEMMA KeptTrans ==
    ASSUME NEW S, NEW q, NEW r, NEW t, Kept(S, q, r), Kept(S, r, t)
    PROVE  Kept(S, q, t)
  BY DEF Kept

LEMMA AlikeKept ==
    ASSUME NEW S, NEW q, NEW r, Alike(q, r), "ended" \notin S
    PROVE  Kept(S, q, r)
  BY DEF Kept, Alike

LEMMA X264Alike ==
    ASSUME NEW s, NEW q, NEW r, NEW o, X264Fits(s, q, o), Alike(q, r)
    PROVE  X264Fits(s, r, o) /\ Kept({"bframes", "output_nal_units"}, q, r)
  BY DEF X264Fits, Alike, Kept, Is

LEMMA X264ProcessKeeps ==
    ASSUME NEW s, NEW q, NEW o, NEW in, s # "NULL", X264Fits(s, q, o),
           NEW r \in X264Process(q, in)
    PROVE  X264Fits(s, r.p, o) /\ Kept({"bframes", "output_nal_units"}, q, r.p)
<1> DEFINE Good(a) == X264Fits(s, a, o) /\ Kept({"bframes", "output_nal_units"}, q, a)
<1>1. Good(q) /\ \A a : Good(a) => Struct(a)
  BY DEF X264Fits, Kept
<1>2. \A a, b : Good(a) /\ Alike(a, b) => Good(b)
  BY X264Alike, KeptTrans
<1>3. ASSUME NEW a, Good(a), ~Is(a, "initialized"), NEW t \in X264InitEncoder(a)
      PROVE  Good(t.p) /\ (t.ret = "ok" => Is(t.p, "initialized"))
  BY <1>3, GetFields, OnFields
     DEF X264InitEncoder, X264Fits, Is, Kept, Then, AllOrNothing, Ok, Fail, Outcome
<1>4. ASSUME NEW a, Good(a), Is(a, "initialized")
      PROVE  Good(Off(Use(a, {"x264"}), {"force_keyframe"}))
  BY <1>4, UseFields, OffFields DEF X264Fits, Is, Kept
<1>5. ASSUME NEW a, Good(a), NEW k, NEW t \in X264Queue(a, k)
      PROVE  Good(t.p)
  BY <1>5, ListedFields, ShedFields, LoseFields
     DEF X264Queue, X264Fits, Kept, Is, Ok, Fail, Outcome
<1> HIDE DEF Good
<1>6. ASSUME NEW a, Good(a), NEW k, NEW t \in PendingPop(a) \cup PendingPush(a, k)
      PROVE  Good(t.p)
  BY <1>1, <1>2, <1>6, PendingAlike
<1>7. ASSUME NEW a, Good(a), NEW t \in Fail(a) \cup Fail(Shed(a)) \cup Ok(Taken(a))
      PROVE  Good(t.p)
  BY <1>1, <1>2, <1>7, FlowAlike DEF Ok, Fail, Outcome
<1>8. LET Ready == IF Is(q, "initialized") THEN Ok(q) ELSE X264InitEncoder(q)
          Used(a) == Off(Use(a, {"x264"}), {"force_keyframe"})
      IN  \/ r \in PendingPop(q) \cup Fail(q)
          \/ \E t \in PendingPush(q, "eos") : r = t \/ r \in PendingPop(t.p)
          \/ \E t \in Ready : t.ret # "ok" /\ r = t
          \/ \E t \in Ready : t.ret = "ok" /\
                 \/ r \in Fail(Shed(Used(t.p))) \cup Ok(Taken(Used(t.p)))
                 \/ \E k : \E w \in X264Queue(Used(t.p), k) : r = w \/ r \in PendingPop(w.p)
  BY DEF X264Process, Then
<1>9. Good(r.p)
  BY <1>1, <1>3, <1>4, <1>5, <1>6, <1>7, <1>8 DEF Ok, Fail, Outcome
<1> QED
  BY <1>9 DEF Good

LEMMA DrainAlike ==
    ASSUME NEW q, Struct(q), NEW r \in X265Drain(q)
    PROVE  Alike(q, r.p)
<1> DEFINE u == Inside(End(q), 0)
           l(k) == [i \in 1 .. k |-> "data"]
<1>1. Alike(q, End(q)) /\ Struct(End(q))
  BY FlowAlike DEF Alike
<1>2. Alike(q, u) /\ Struct(u)
  BY <1>1, FlowAlike, FlowsAlike, AlikeTrans DEF Alike
<1>3. \E k : r.p = Listed(u, l(k)) \/ r.p = Shed(Listed(u, l(k)))
  BY DEF X265Drain, Ok, Outcome
<1> HIDE DEF u, l
<1>4. \A k : Alike(u, Listed(u, l(k))) /\ Struct(Listed(u, l(k)))
  BY <1>2, FlowAlike, FlowsAlike DEF Alike
<1> QED
  BY <1>2, <1>3, <1>4, FlowAlike, AlikeTrans

LEMMA X265Alike ==
    ASSUME NEW s, NEW q, NEW r, NEW o, X265Fits(s, q, o), Alike(q, r)
    PROVE  X265Fits(s, r, o) /\ Kept({"bframes", "output_nal_units"}, q, r)
  BY DEF X265Fits, Alike, Kept, Is

LEMMA X265ProcessKeeps ==
    ASSUME NEW s, NEW q, NEW o, NEW in, s # "NULL", X265Fits(s, q, o),
           NEW r \in X265Process(q, in)
    PROVE  X265Fits(s, r.p, o) /\ Kept({"bframes", "output_nal_units"}, q, r.p)
<1> DEFINE Good(a) == X265Fits(s, a, o) /\ Kept({"bframes", "output_nal_units"}, q, a)
<1>1. Good(q) /\ \A a : Good(a) => Struct(a)
  BY DEF X265Fits, Kept
<1>2. \A a, b : Good(a) /\ Alike(a, b) => Good(b)
  BY X265Alike, KeptTrans
<1>3. ASSUME NEW a, Good(a), ~Is(a, "initialized"), NEW t \in X265InitEncoder(a)
      PROVE  Good(t.p) /\ (t.ret = "ok" => Is(t.p, "initialized"))
  BY <1>3, GetFields, OnFields, OffFields, UseFields
     DEF X265InitEncoder, X265Fits, Is, Kept, Then, AllOrNothing, Ok, Fail, Outcome
<1>4. ASSUME NEW a, Good(a)
      PROVE  /\ Good(On(a, {"draining"}))
             /\ Is(a, "initialized") => Good(Off(Use(a, {"x265", "pic_in", "pic_out"}), {"force_keyframe"}))
  BY <1>4, UseFields, OffFields, OnFields DEF X265Fits, Is, Kept
<1>5. ASSUME NEW a, Good(a), NEW k, NEW t \in X264Queue(a, k)
      PROVE  Good(t.p)
  BY <1>5, ListedFields, ShedFields, LoseFields
     DEF X264Queue, X265Fits, Kept, Is, Ok, Fail, Outcome
<1> HIDE DEF Good
<1>6. ASSUME NEW a, Good(a), NEW t \in X265Drain(a)
      PROVE  Good(t.p)
  BY <1>1, <1>2, <1>6, DrainAlike
<1>7. ASSUME NEW a, Good(a), NEW k, NEW t \in PendingPop(a) \cup PendingPush(a, k)
      PROVE  Good(t.p)
  BY <1>1, <1>2, <1>7, PendingAlike
<1>8. ASSUME NEW a, Good(a), NEW t \in Fail(a) \cup Fail(Shed(a)) \cup Ok(Taken(a)) \cup Ok(a) \cup Out(a, "data")
      PROVE  Good(t.p)
  BY <1>1, <1>2, <1>8, FlowAlike DEF Ok, Fail, Out, Outcome
<1>9. Good(r.p)
  BY <1>1, <1>3, <1>4, <1>5, <1>6, <1>7, <1>8 DEF X265Process, Then, Ok, Out, Outcome
<1> QED
  BY <1>9 DEF Good

LEMMA H265EncAlike ==
    ASSUME NEW s, NEW q, NEW r, NEW o, H265EncFits(s, q, o), Alike(q, r)
    PROVE  H265EncFits(s, r, o) /\ Kept({"crf"}, q, r)
  BY DEF H265EncFits, Alike, Kept, Is

LEMMA H265EncProcessKeeps ==
    ASSUME NEW s, NEW q, NEW o, NEW in, s # "NULL", H265EncFits(s, q, o),
           NEW r \in H265EncProcess(q, in)
    PROVE  H265EncFits(s, r.p, o) /\ Kept({"crf"}, q, r.p)
<1> DEFINE Good(a) == H265EncFits(s, a, o) /\ Kept({"crf"}, q, a)
<1>1. Good(q) /\ \A a : Good(a) => Struct(a)
  BY DEF H265EncFits, Kept
<1>2. \A a, b : Good(a) /\ Alike(a, b) => Good(b)
  BY H265EncAlike, KeptTrans
<1>3. ASSUME NEW a, Good(a), ~Is(a, "initialized"), NEW t \in H265InitEncoder(a)
      PROVE  Good(t.p) /\ (t.ret = "ok" => Is(t.p, "initialized"))
  BY <1>3, GetFields, OnFields, OffFields
     DEF H265InitEncoder, H265EncFits, Is, Kept, Then, AllOrNothing, Ok, Fail, Outcome
<1>4. ASSUME NEW a, Good(a), Is(a, "initialized")
      PROVE  /\ {"ctx", "pool"} \subseteq a.held /\ Good(On(a, {"draining"}))
             /\ Is(On(a, {"draining"}), "initialized")
             /\ Good(Use(a, {"ctx", "frame"})) /\ Is(Use(a, {"ctx", "frame"}), "initialized")
  BY <1>4, UseFields, OnFields DEF H265EncFits, Is, Kept
<1> HIDE DEF Good
<1>5. ASSUME NEW a, Good(a), Is(a, "initialized"), NEW t \in H265ReceivePackets(a)
      PROVE  Good(t.p)
  BY <1>1, <1>2, <1>4, <1>5, ReceivePacketsAlike
<1>6. ASSUME NEW a, Good(a)
      PROVE  /\ Good(End(a)) /\ (Is(a, "initialized") => Is(End(a), "initialized"))
             /\ Good(Taken(a)) /\ (Is(a, "initialized") => Is(Taken(a), "initialized")) /\ Good(Shed(a))
  BY <1>1, <1>2, <1>6, FlowAlike DEF Alike, Is
<1>7. ASSUME NEW a, Good(a), NEW k, NEW t \in PendingPop(a) \cup PendingPush(a, k)
      PROVE  Good(t.p)
  BY <1>1, <1>2, <1>7, PendingAlike
<1>8. ASSUME NEW a, Good(a), NEW t \in Fail(a) \cup Ok(a)
      PROVE  Good(t.p)
  BY <1>1, <1>2, <1>8, FlowAlike DEF Ok, Fail, Outcome
<1>9. ASSUME NEW a, Good(a), NEW t \in H265QueueEos(a)
      PROVE  Good(t.p)
  BY <1>1, <1>2, <1>9, FlowAlike, PendingAlike DEF H265QueueEos, Ok, Fail, Outcome
<1>10. Good(r.p)
  BY <1>1, <1>3, <1>4, <1>5, <1>6, <1>7, <1>8, <1>9
     DEF H265EncProcess, Then, Ok, Fail, Outcome
<1> QED
  BY <1>10 DEF Good

LEMMA DrainedAlike ==
    ASSUME NEW q, Struct(q), NEW r \in OneEncDrain(q)
    PROVE  Alike(q, r.p)
<1> DEFINE after(k) == Listed(Inside(q, q.n - k), q.pend \o [i \in 1 .. k |-> "data"])
<1>1. \/ \E k : r \in Ok(after(k)) \cup Fail(Shed(after(k)))
      \/ \E k : r \in H265QueuePacket(after(k))
  BY DEF OneEncDrain, OneEncQueuePacket
<1>2. ASSUME NEW k PROVE Alike(q, after(k)) /\ Struct(after(k))
  <2> DEFINE m == q.n - k
             l == q.pend \o [i \in 1 .. k |-> "data"]
  <2> HIDE DEF m, l
  <2>1. Alike(q, Inside(q, m)) /\ Struct(Inside(q, m))
    BY FlowsAlike DEF Alike
  <2>2. Alike(Inside(q, m), Listed(Inside(q, m), l)) /\ Struct(Listed(Inside(q, m), l))
    BY <2>1, FlowsAlike DEF Alike
  <2> QED
    BY <2>1, <2>2, AlikeTrans DEF m, l
<1> HIDE DEF after
<1> QED
  BY <1>1, <1>2, QueuePacketAlike, FlowAlike, AlikeTrans DEF Ok, Fail, Outcome

LEMMA DecodeAllAlike ==
    ASSUME NEW q, Struct(q), {"session", "bitstream", "pool"} \subseteq q.held,
           NEW r \in OneDecDecodeAllAvailable(q)
    PROVE  Alike(q, r.p)
<1> DEFINE u == Use(q, {"session", "bitstream", "pool"})
           after(k) == Listed(Inside(u, u.n - k), u.pend \o [i \in 1 .. k |-> "data"])
<1>1. Alike(q, u) /\ Struct(u)
  BY UseAlike DEF Alike
<1>2. \/ \E k : r \in Ok(after(k)) \cup Fail(Shed(after(k)))
      \/ \E k : r \in H265QueuePacket(after(k))
  BY DEF OneDecDecodeAllAvailable
<1> HIDE DEF u
<1>3. ASSUME NEW k PROVE Alike(u, after(k)) /\ Struct(after(k))
  <2> DEFINE m == u.n - k
             l == u.pend \o [i \in 1 .. k |-> "data"]
  <2> HIDE DEF m, l
  <2>1. Alike(u, Inside(u, m)) /\ Struct(Inside(u, m))
    BY <1>1, FlowsAlike DEF Alike
  <2>2. Alike(Inside(u, m), Listed(Inside(u, m), l)) /\ Struct(Listed(Inside(u, m), l))
    BY <2>1, FlowsAlike DEF Alike
  <2> QED
    BY <2>1, <2>2, AlikeTrans DEF m, l
<1> HIDE DEF after
<1>4. Alike(u, r.p)
  BY <1>1, <1>2, <1>3, QueuePacketAlike, FlowAlike, AlikeTrans DEF Ok, Fail, Outcome
<1> QED
  BY <1>1, <1>4, AlikeTrans

LEMMA VaReceivePooled ==
    ASSUME NEW q, NEW ready, Struct(q), NEW r \in VaDecReceive(q, ready)
    PROVE  Pooled(q, r.p)
<1>1. \/ r \in Fail(Flushed(q)) \cup Again(Flushed(q)) \cup Ok(q)
      \/ \E k : r \in VaDecEmitFrame(Inside(q, k))
  BY DEF VaDecReceive
<1>2. ASSUME NEW k PROVE Pooled(q, Inside(q, k)) /\ Struct(Inside(q, k))
  BY FlowsAlike, AlikePooled DEF Alike
<1>3. ASSUME NEW a, Struct(a), NEW t \in VaDecEmitFrame(a)
      PROVE  Pooled(a, t.p)
  <2> DEFINE m == a.n - 1
             got == Inside(a, m)
  <2>1. t \in Fail(Shed(got)) \cup Push(got, "data") \cup H264EmitFrame(a)
    BY <1>3 DEF VaDecEmitFrame
  <2> HIDE DEF m
  <2>2. Pooled(a, got) /\ Struct(got)
    BY <1>3, FlowsAlike, AlikePooled DEF Alike
  <2> HIDE DEF got
  <2>3. Pooled(got, Shed(got)) /\ \A w \in Push(got, "data") : Pooled(got, w.p)
    BY <2>2, FlowAlike, PushAlike, AlikePooled
  <2> QED
    BY <1>3, <2>1, <2>2, <2>3, EmitFramePooled, PooledTrans DEF Fail, Outcome
<1> QED
  BY <1>1, <1>2, <1>3, PooledTrans, FlowAlike, AlikePooled DEF Ok, Again, Fail, Outcome

LEMMA VaEncAlike ==
    ASSUME NEW s, NEW q, NEW r, NEW o, VaEncFits(s, q, o), Alike(q, r)
    PROVE  VaEncFits(s, r, o) /\ Kept({"device"}, q, r)
  BY DEF VaEncFits, Alike, Kept, Is

LEMMA VaEncProcessKeeps ==
    ASSUME NEW s, NEW q, NEW o, NEW in, s # "NULL", VaEncFits(s, q, o),
           NEW r \in VaEncProcess(q, in)
    PROVE  VaEncFits(s, r.p, o) /\ Kept({"device"}, q, r.p)
<1> DEFINE Good(a) == VaEncFits(s, a, o) /\ Kept({"device"}, q, a)
<1>1. Good(q) /\ \A a : Good(a) => Struct(a)
  BY DEF VaEncFits, Kept
<1>2. \A a, b : Good(a) /\ Alike(a, b) => Good(b)
  BY VaEncAlike, KeptTrans
<1>3. ASSUME NEW a, Good(a), ~Is(a, "initialized"), NEW t \in VaEncInitEncoder(a)
      PROVE  Good(t.p) /\ (t.ret = "ok" => Is(t.p, "initialized"))
  BY <1>3, GetFields, OnFields, FreeFields, UseFields
     DEF VaEncInitEncoder, VaEncSetupHwFrames, VaEncFits, Is, Kept, Ok, Fail, MayFail,
        Outcome
<1>4. ASSUME NEW a, Good(a), Is(a, "initialized")
      PROVE  /\ {"ctx", "pool", "hw_frames"} \subseteq a.held /\ Good(On(a, {"draining"}))
             /\ Is(On(a, {"draining"}), "initialized") /\ Good(Off(a, {"force_keyframe"}))
             /\ Is(Off(a, {"force_keyframe"}), "initialized")
  BY <1>4, OffFields, OnFields DEF VaEncFits, Is, Kept
<1> HIDE DEF Good
<1>5. ASSUME NEW a, NEW b, Alike(a, b), Is(a, "initialized")
      PROVE  Is(b, "initialized")
  BY <1>5 DEF Alike, Is
<1>6. ASSUME NEW a, Good(a), Is(a, "initialized")
      PROVE  \A t \in VaEncMakeHwFrame(a) \cup VaEncReceivePackets(a) : Alike(a, t.p)
  BY <1>1, <1>4, <1>6, UseAlike, ReceivePacketsAlike
     DEF VaEncReceivePackets, VaEncMakeHwFrame, MayFail, Ok, Fail, Outcome
<1>7. ASSUME NEW a, Good(a), Is(a, "initialized"), NEW t \in VaEncMakeHwFrame(a) \cup VaEncReceivePackets(a)
      PROVE  Good(t.p) /\ Is(t.p, "initialized")
  BY <1>2, <1>5, <1>6, <1>7
<1>8. ASSUME NEW a, Good(a)
      PROVE  /\ Good(End(a)) /\ (Is(a, "initialized") => Is(End(a), "initialized"))
             /\ Good(Taken(a)) /\ (Is(a, "initialized") => Is(Taken(a), "initialized")) /\ Good(Shed(a))
  BY <1>1, <1>2, <1>8, FlowAlike DEF Alike, Is
<1>9. ASSUME NEW a, Good(a), NEW k, NEW t \in PendingPop(a) \cup PendingPush(a, k)
      PROVE  Good(t.p)
  BY <1>1, <1>2, <1>9, PendingAlike
<1>10. ASSUME NEW a, Good(a), NEW t \in Fail(a) \cup Ok(a)
      PROVE  Good(t.p)
  BY <1>1, <1>2, <1>10, FlowAlike DEF Ok, Fail, Outcome
<1>11. ASSUME NEW a, Good(a), NEW t \in VaEncQueueEos(a)
      PROVE  Good(t.p)
  BY <1>1, <1>2, <1>11, FlowAlike, PendingAlike DEF VaEncQueueEos, Ok, Fail, Outcome
<1>12. Good(r.p)
  BY <1>1, <1>3, <1>4, <1>5, <1>6, <1>7, <1>8, <1>9, <1>10, <1>11
     DEF VaEncProcess, Then, Ok, Fail, Outcome
<1> QED
  BY <1>12 DEF Good

LEMMA OneEncAlike ==
    ASSUME NEW s, NEW q, NEW r, NEW o, OneEncFits(s, q, o), Alike(q, r)
    PROVE  OneEncFits(s, r, o) /\ Kept({"codec"}, q, r)
  BY DEF OneEncFits, Alike, Kept, Is

LEMMA OneEncProcessKeeps ==
    ASSUME NEW s, NEW q, NEW o, NEW in, s # "NULL", OneEncFits(s, q, o),
           NEW r \in OneEncProcess(q, in)
    PROVE  OneEncFits(s, r.p, o) /\ Kept({"codec"}, q, r.p)
<1> DEFINE Good(a) == OneEncFits(s, a, o) /\ Kept({"codec"}, q, a)
<1>1. Good(q) /\ \A a : Good(a) => Struct(a)
  BY DEF OneEncFits, Kept
<1>2. \A a, b : Good(a) /\ Alike(a, b) => Good(b)
  BY OneEncAlike, KeptTrans
<1>3. ASSUME NEW a, Good(a), ~Is(a, "initialized"), NEW t \in OneEncInitEncoder(a)
      PROVE  Good(t.p) /\ (t.ret = "ok" => Is(t.p, "initialized"))
  BY <1>3, GetFields, OnFields
     DEF OneEncInitEncoder, OneEncFits, Is, Kept, Then, AllOrNothing, Ok, Fail, Outcome
<1>4. ASSUME NEW a, Good(a)
      PROVE  Good(On(a, {"draining"}))
  BY <1>4, OnFields DEF OneEncFits, Is, Kept
<1>5. ASSUME NEW a, Good(a), Is(a, "initialized")
      PROVE  /\ Good(Off(Use(a, {"session", "bitstream"}), {"force_keyframe"}))
  BY <1>5, UseFields, OffFields DEF OneEncFits, Is, Kept
<1> HIDE DEF Good
<1>6. ASSUME NEW a, Good(a)
      PROVE  Good(End(a)) /\ Good(Taken(a)) /\ Good(Shed(a))
  BY <1>1, <1>2, <1>6, FlowAlike
<1>7. ASSUME NEW a, Good(a), NEW t \in OneEncDrain(a)
      PROVE  Good(t.p)
  BY <1>1, <1>2, <1>7, DrainedAlike
<1>8. ASSUME NEW a, Good(a), NEW t \in OneEncQueuePacket(a)
      PROVE  Good(t.p)
  BY <1>1, <1>2, <1>8, QueuePacketAlike DEF OneEncQueuePacket
<1>9. ASSUME NEW a, Good(a), Is(a, "initialized"), NEW t \in OneEncSendSurface(a)
      PROVE  Good(t.p)
  BY <1>5, <1>6, <1>8, <1>9 DEF OneEncSendSurface, Ok, Fail, Outcome
<1>10. ASSUME NEW a, Good(a), NEW k, NEW t \in PendingPop(a) \cup PendingPush(a, k)
      PROVE  Good(t.p)
  BY <1>1, <1>2, <1>10, PendingAlike
<1>11. ASSUME NEW a, Good(a), NEW t \in Fail(a) \cup Ok(a)
      PROVE  Good(t.p)
  BY <1>1, <1>2, <1>11, FlowAlike DEF Ok, Fail, Outcome
<1>12. Good(r.p)
  BY <1>1, <1>3, <1>4, <1>5, <1>6, <1>7, <1>8, <1>9, <1>10, <1>11
     DEF OneEncProcess, Then, Ok, Fail, Outcome
<1> QED
  BY <1>12 DEF Good

LEMMA OneDecAlike ==
    ASSUME NEW s, NEW q, NEW r, NEW o, OneDecFits(s, q, o), Alike(q, r)
    PROVE  OneDecFits(s, r, o) /\ Kept({"codec"}, q, r)
  BY DEF OneDecFits, Alike, Kept, Is

LEMMA OneDecProcessKeeps ==
    ASSUME NEW s, NEW q, NEW o, NEW in, s # "NULL", OneDecFits(s, q, o),
           NEW r \in OneDecProcess(q, in)
    PROVE  OneDecFits(s, r.p, o) /\ Kept({"codec"}, q, r.p)
<1> DEFINE Good(a) == OneDecFits(s, a, o) /\ Kept({"codec"}, q, a)
<1>1. Good(q) /\ \A a : Good(a) => Struct(a)
  BY DEF OneDecFits, Kept
<1>2. \A a, b : Good(a) /\ Alike(a, b) => Good(b)
  BY OneDecAlike, KeptTrans
<1>3. ASSUME NEW a, Good(a), ~Is(a, "initialized"), "bitstream" \in a.held, NEW t \in OneDecInitDecoder(a)
      PROVE  /\ Good(t.p) /\ "bitstream" \in t.p.held
             /\ t.ret \notin {"again", "err"} => Is(t.p, "initialized")
  BY <1>3, GetFields, OnFields
     DEF OneDecInitDecoder, OneDecFits, Again, Is, Kept, Then, AllOrNothing, Ok, Fail,
        Outcome
<1>4. ASSUME NEW a, Good(a), "bitstream" \notin a.held
      PROVE  /\ Good(Get(a, {"bitstream"})) /\ "bitstream" \in Get(a, {"bitstream"}).held
             /\ Is(a, "initialized") <=> Is(Get(a, {"bitstream"}), "initialized")
  BY <1>4, GetFields DEF OneDecFits, Is, Kept
<1>5. ASSUME NEW a, Good(a), Is(a, "initialized")
      PROVE  /\ {"session", "bitstream", "pool"} \subseteq a.held /\ Good(On(a, {"draining"}))
             /\ Is(On(a, {"draining"}), "initialized")
  BY <1>5, OnFields DEF OneDecFits, Is, Kept
<1> HIDE DEF Good
<1>6. ASSUME NEW a, Good(a)
      PROVE  /\ Good(End(a)) /\ (Is(a, "initialized") => Is(End(a), "initialized"))
             /\ Good(Taken(a)) /\ (Is(a, "initialized") => Is(Taken(a), "initialized"))
             /\ Good(Shed(a)) /\ (Is(a, "initialized") => Is(Shed(a), "initialized"))
  BY <1>1, <1>2, <1>6, FlowAlike DEF Alike, Is
<1>7. ASSUME NEW a, Good(a), Is(a, "initialized"), NEW t \in OneDecDrainDecoder(a)
      PROVE  Good(t.p)
  BY <1>1, <1>2, <1>5, <1>7, UseAlike, DrainedAlike DEF OneDecDrainDecoder, Alike
<1>8. ASSUME NEW a, Good(a), Is(a, "initialized"), NEW t \in OneDecDecodeAllAvailable(a)
      PROVE  Good(t.p)
  BY <1>1, <1>2, <1>5, <1>8, DecodeAllAlike
<1>9. ASSUME NEW a, Good(a), NEW k, NEW t \in PendingPop(a) \cup PendingPush(a, k)
      PROVE  Good(t.p)
  BY <1>1, <1>2, <1>9, PendingAlike
<1>10. ASSUME NEW a, Good(a), NEW t \in Fail(a) \cup Ok(a)
      PROVE  Good(t.p)
  BY <1>1, <1>2, <1>10, FlowAlike DEF Ok, Fail, Outcome
<1>11. Good(r.p)
  BY <1>1, <1>3, <1>4, <1>5, <1>6, <1>7, <1>8, <1>9, <1>10
     DEF OneDecProcess, Then, Ok, Fail, Outcome, Has
<1> QED
  BY <1>11 DEF Good

LEMMA H264DecAlike ==
    ASSUME NEW s, NEW q, NEW r, NEW o, H264DecFits(s, q, o), Alike(q, r)
    PROVE  H264DecFits(s, r, o) /\ Kept({"threads"}, q, r)
  BY DEF H264DecFits, Alike, Kept, Is

LEMMA H264DecProcessKeeps ==
    ASSUME NEW s, NEW q, NEW o, NEW in, s # "NULL", H264DecFits(s, q, o),
           NEW r \in H264DecProcess(q, in)
    PROVE  H264DecFits(s, r.p, o) /\ Kept({"threads"}, q, r.p)
<1> DEFINE Good(a) == H264DecFits(s, a, o) /\ Kept({"threads"}, q, a)
<1>1. Good(q) /\ \A a : Good(a) => Struct(a)
  BY DEF H264DecFits, Kept
<1>2. \A a, b : Good(a) /\ Alike(a, b) => Good(b)
  BY H264DecAlike, KeptTrans
<1>3. ASSUME NEW a, Good(a), ~Is(a, "initialized"), NEW t \in H264InitDecoder(a)
      PROVE  Good(t.p) /\ (t.ret = "ok" => Is(t.p, "initialized"))
  BY <1>3, GetFields, OnFields
     DEF H264InitDecoder, H264DecFits, Is, Kept, Then, AllOrNothing, Ok, Fail, Outcome
<1>4. ASSUME NEW a, NEW b, Good(a), Is(a, "initialized"), Pooled(a, b)
      PROVE  Good(b) /\ Is(b, "initialized")
  BY <1>4 DEF H264DecFits, Pooled, Is, Kept
<1>5. ASSUME NEW a, Good(a), Is(a, "initialized")
      PROVE  /\ {"parser", "ctx"} \subseteq a.held /\ Good(Use(a, {"parser", "ctx"}))
             /\ Is(Use(a, {"parser", "ctx"}), "initialized")
  BY <1>5, UseFields DEF H264DecFits, Is, Kept
<1>6. ASSUME NEW a, Good(a), Is(a, "initialized")
      PROVE  {"ctx", "frame"} \subseteq a.held
  BY <1>6 DEF H264DecFits, Is
<1> HIDE DEF Good
<1>7. ASSUME NEW a, Good(a), Is(a, "initialized"), NEW k, NEW t \in H264DecodePacket(a, k)
      PROVE  Good(t.p) /\ Is(t.p, "initialized")
  BY <1>1, <1>4, <1>6, <1>7, DecodePacketPooled
<1>8. ASSUME NEW a, Good(a), NEW t \in Push(a, "eos")
      PROVE  Good(t.p)
  BY <1>1, <1>2, <1>8, PushAlike
<1>9. ASSUME NEW a, Good(a), NEW t \in Fail(a) \cup Ok(a)
      PROVE  Good(t.p)
  BY <1>1, <1>2, <1>9, FlowAlike DEF Ok, Fail, Outcome
<1>10. Good(r.p)
  BY <1>1, <1>3, <1>4, <1>5, <1>6, <1>7, <1>8, <1>9
     DEF H264DecProcess, Then, Regardless, Ok, Fail, Outcome
<1> QED
  BY <1>10 DEF Good

LEMMA AacDecAlike ==
    ASSUME NEW s, NEW q, NEW r, NEW o, AacDecFits(s, q, o), Alike(q, r)
    PROVE  AacDecFits(s, r, o) /\ Kept({"threads", "fixed_point"}, q, r)
  BY DEF AacDecFits, Alike, Kept, Is

LEMMA AacDecProcessKeeps ==
    ASSUME NEW s, NEW q, NEW o, NEW in, s # "NULL", AacDecFits(s, q, o),
           NEW r \in AacDecProcess(q, in)
    PROVE  AacDecFits(s, r.p, o) /\ Kept({"threads", "fixed_point"}, q, r.p)
<1> DEFINE Good(a) == AacDecFits(s, a, o) /\ Kept({"threads", "fixed_point"}, q, a)
<1>1. Good(q) /\ \A a : Good(a) => Struct(a)
  BY DEF AacDecFits, Kept
<1>2. \A a, b : Good(a) /\ Alike(a, b) => Good(b)
  BY AacDecAlike, KeptTrans
<1>3. ASSUME NEW a, Good(a), ~Is(a, "initialized"), NEW t \in AacInitDecoder(a)
      PROVE  Good(t.p) /\ (t.ret = "ok" => Is(t.p, "initialized"))
  BY <1>3, GetFields, OnFields
     DEF AacInitDecoder, AacDecFits, Is, Kept, Then, AllOrNothing, Ok, Fail, Outcome
<1>4. ASSUME NEW a, NEW b, Good(a), Is(a, "initialized"), Pooled(a, b)
      PROVE  Good(b) /\ Is(b, "initialized")
  BY <1>4 DEF AacDecFits, Pooled, Is, Kept
<1>5. ASSUME NEW a, Good(a), Is(a, "initialized")
      PROVE  /\ {"ctx", "frame"} \subseteq a.held /\ Good(Use(a, {"ctx", "frame"}))
             /\ Is(Use(a, {"ctx", "frame"}), "initialized")
  BY <1>5, UseFields DEF AacDecFits, Is, Kept
<1> HIDE DEF Good
<1>6. ASSUME NEW a, Good(a), Is(a, "initialized"), NEW k, NEW t \in H264Receive(a, k)
      PROVE  Good(t.p)
  BY <1>1, <1>4, <1>6, ReceivePooled
<1>7. ASSUME NEW a, Good(a)
      PROVE  /\ Good(End(a)) /\ (Is(a, "initialized") => Is(End(a), "initialized"))
             /\ Good(Taken(a)) /\ (Is(a, "initialized") => Is(Taken(a), "initialized"))
             /\ Good(Shed(a)) /\ Good(Flushed(a))
  BY <1>1, <1>2, <1>7, FlowAlike DEF Alike, Is
<1>8. ASSUME NEW a, Good(a), NEW t \in Push(a, "eos")
      PROVE  Good(t.p)
  BY <1>1, <1>2, <1>8, PushAlike
<1>0. \A t \in (IF Is(q, "initialized") THEN Ok(q) ELSE AacInitDecoder(q)) :
         Good(t.p) /\ (t.ret = "ok" => Is(t.p, "initialized"))
  BY <1>1, <1>3 DEF Ok, Outcome
<1>9. PICK t \in (IF Is(q, "initialized") THEN Ok(q) ELSE AacInitDecoder(q)) :
         r \in (IF t.ret = "ok" THEN
             (LET u == Use(t.p, {"ctx", "frame"}) IN
             IF in = "eos"
             THEN Then(H264Receive(End(u), {u.n}), LAMBDA x : Fail(x) \cup Push(x, "eos"))
             ELSE IF Is(u, "ended") THEN Fail(u) \cup Ok(Shed(u))
             ELSE Fail(u) \cup Again(Flushed(u)) \cup
                  (IF CanTake(u) THEN H264Receive(Taken(u), 0 .. u.n + 1)
                   ELSE Fail(Flushed(u))))
               ELSE {t})
  BY DEF AacDecProcess, Then
<1>10. Good(t.p) /\ (t.ret = "ok" => Is(t.p, "initialized"))
  BY <1>0
<1> DEFINE u == Use(t.p, {"ctx", "frame"})
<1>11. CASE t.ret # "ok"
  BY <1>9, <1>10, <1>11 DEF Good
<1>12. t.ret = "ok" => Good(u) /\ Is(u, "initialized")
  BY <1>5, <1>10
<1> HIDE DEF u
<1>13. CASE t.ret = "ok" /\ in = "eos"
  <2>1. PICK x \in H264Receive(End(u), {u.n}) :
             r \in (IF x.ret = "ok" THEN Fail(x.p) \cup Push(x.p, "eos") ELSE {x})
    BY <1>9, <1>13 DEF u, Then
  <2>2. Good(x.p)
    BY <1>6, <1>7, <1>12, <1>13, <2>1
  <2>3. Good(r.p)
    BY <1>8, <2>1, <2>2 DEF Fail, Outcome
  <2> QED
    BY <2>3 DEF Good
<1>14. CASE t.ret = "ok" /\ in # "eos" /\ Is(u, "ended")
  <2>1. r \in Fail(u) \cup Ok(Shed(u))
    BY <1>9, <1>14 DEF u
  <2>2. Good(r.p)
    BY <1>7, <1>12, <1>14, <2>1 DEF Ok, Fail, Outcome
  <2> QED
    BY <2>2 DEF Good
<1>15. ASSUME t.ret = "ok" /\ in # "eos" /\ ~Is(u, "ended")
       PROVE  Good(r.p)
  <2>1. r \in Fail(u) \cup Again(Flushed(u)) \cup Fail(Flushed(u)) \cup H264Receive(Taken(u), 0 .. u.n + 1)
    BY <1>9, <1>15 DEF u
  <2> QED
    BY <1>6, <1>7, <1>12, <1>15, <2>1 DEF Fail, Again, Outcome
<1> QED
  BY <1>11, <1>13, <1>14, <1>15 DEF Good

LEMMA VaDecAlike ==
    ASSUME NEW s, NEW q, NEW r, NEW o, VaDecFits(s, q, o), Alike(q, r)
    PROVE  VaDecFits(s, r, o) /\ Kept({"codec", "dmabuf"}, q, r)
  BY DEF VaDecFits, Alike, Kept, Is

LEMMA VaDecProcessKeeps ==
    ASSUME NEW s, NEW q, NEW o, NEW in, s # "NULL", VaDecFits(s, q, o),
           NEW r \in VaDecProcess(q, in)
    PROVE  VaDecFits(s, r.p, o) /\ Kept({"codec", "dmabuf"}, q, r.p)
<1> DEFINE Good(a) == VaDecFits(s, a, o) /\ Kept({"codec", "dmabuf"}, q, a)
<1>1. Good(q) /\ \A a : Good(a) => Struct(a)
  BY DEF VaDecFits, Kept
<1>2. \A a, b : Good(a) /\ Alike(a, b) => Good(b)
  BY VaDecAlike, KeptTrans
<1>3. ASSUME NEW a, Good(a), ~Is(a, "initialized"), NEW t \in VaDecInitDecoder(a)
      PROVE  Good(t.p) /\ (t.ret = "ok" => Is(t.p, "initialized"))
  BY <1>3, GetFields, OnFields, UseFields
     DEF VaDecInitDecoder, VaDecFits, Is, Kept, Then, AllOrNothing, Ok, Fail, Outcome
<1>4. ASSUME NEW a, NEW b, Good(a), Is(a, "initialized"), Pooled(a, b)
      PROVE  Good(b) /\ Is(b, "initialized")
  BY <1>4 DEF VaDecFits, Pooled, Is, Kept
<1>5. ASSUME NEW a, Good(a), Is(a, "initialized")
      PROVE  /\ {"ctx", "hw_frame"} \subseteq a.held /\ Good(Use(a, {"ctx", "hw_frame"}))
             /\ Is(Use(a, {"ctx", "hw_frame"}), "initialized")
  BY <1>5, UseFields DEF VaDecFits, Is, Kept
<1> HIDE DEF Good
<1>6. ASSUME NEW a, Good(a), Is(a, "initialized"), NEW k, NEW t \in VaDecReceive(a, k)
      PROVE  Good(t.p) /\ Is(t.p, "initialized")
  BY <1>1, <1>4, <1>6, VaReceivePooled
<1>7. ASSUME NEW a, Good(a)
      PROVE  /\ Good(End(a)) /\ (Is(a, "initialized") => Is(End(a), "initialized"))
             /\ Good(Taken(a)) /\ (Is(a, "initialized") => Is(Taken(a), "initialized"))
             /\ Good(Shed(a)) /\ Good(Flushed(a))
  BY <1>1, <1>2, <1>7, FlowAlike DEF Alike, Is
<1>8. ASSUME NEW a, Good(a), NEW t \in Push(a, "eos")
      PROVE  Good(t.p)
  BY <1>1, <1>2, <1>8, PushAlike
<1>0. \A t \in (IF Is(q, "initialized") THEN Ok(q) ELSE VaDecInitDecoder(q)) :
         Good(t.p) /\ (t.ret = "ok" => Is(t.p, "initialized"))
  BY <1>1, <1>3 DEF Ok, Outcome
<1>9. PICK t \in (IF Is(q, "initialized") THEN Ok(q) ELSE VaDecInitDecoder(q)) :
         r \in (IF t.ret = "ok" THEN
             (LET u == Use(t.p, {"ctx", "hw_frame"}) IN
             IF in = "eos"
             THEN Then(VaDecReceive(End(u), {u.n}), LAMBDA x : Fail(x) \cup Push(x, "eos"))
             ELSE IF Is(u, "ended") THEN Fail(u) \cup Ok(Shed(u))
             ELSE Fail(u) \cup Fail(Flushed(u)) \cup Again(Flushed(u)) \cup
                  Then(IF CanTake(u) THEN Ok(u) ELSE VaDecReceive(u, {u.n}),
                       LAMBDA x : VaDecReceive(Taken(x), 0 .. x.n + 1)))
               ELSE {t})
  BY DEF VaDecProcess, Then
<1>10. Good(t.p) /\ (t.ret = "ok" => Is(t.p, "initialized"))
  BY <1>0
<1> DEFINE u == Use(t.p, {"ctx", "hw_frame"})
<1>11. CASE t.ret # "ok"
  BY <1>9, <1>10, <1>11 DEF Good
<1>12. t.ret = "ok" => Good(u) /\ Is(u, "initialized")
  BY <1>5, <1>10
<1> HIDE DEF u
<1>13. CASE t.ret = "ok" /\ in = "eos"
  <2>1. PICK x \in VaDecReceive(End(u), {u.n}) :
             r \in (IF x.ret = "ok" THEN Fail(x.p) \cup Push(x.p, "eos") ELSE {x})
    BY <1>9, <1>13 DEF u, Then
  <2>2. Good(x.p)
    BY <1>6, <1>7, <1>12, <1>13, <2>1
  <2>3. Good(r.p)
    BY <1>8, <2>1, <2>2 DEF Fail, Outcome
  <2> QED
    BY <2>3 DEF Good
<1>14. CASE t.ret = "ok" /\ in # "eos" /\ Is(u, "ended")
  <2>1. r \in Fail(u) \cup Ok(Shed(u))
    BY <1>9, <1>14 DEF u
  <2>2. Good(r.p)
    BY <1>7, <1>12, <1>14, <2>1 DEF Ok, Fail, Outcome
  <2> QED
    BY <2>2 DEF Good
<1>15. ASSUME t.ret = "ok" /\ in # "eos" /\ ~Is(u, "ended")
       PROVE  Good(r.p)
  <2>1. CASE r \in Fail(u) \cup Fail(Flushed(u)) \cup Again(Flushed(u))
    BY <1>7, <1>12, <1>15, <2>1 DEF Fail, Again, Outcome
  <2>2. CASE r \in Then(IF CanTake(u) THEN Ok(u) ELSE VaDecReceive(u, {u.n}),
                       LAMBDA x : VaDecReceive(Taken(x), 0 .. x.n + 1))
    <3>1. PICK x \in (IF CanTake(u) THEN Ok(u) ELSE VaDecReceive(u, {u.n})) :
               r \in (IF x.ret = "ok" THEN VaDecReceive(Taken(x.p), 0 .. x.p.n + 1) ELSE {x})
      BY <2>2 DEF Then
    <3>2. Good(x.p) /\ Is(x.p, "initialized")
      BY <1>6, <1>12, <1>15, <3>1 DEF Ok, Outcome
    <3> QED
      BY <1>6, <1>7, <3>1, <3>2
  <2> QED
    BY <1>9, <1>15, <2>1, <2>2 DEF u
<1> QED
  BY <1>11, <1>13, <1>14, <1>15 DEF Good

\* StepByStep with one and with two members.
LEMMA OneStep ==
    ASSUME NEW q, NEW x, NEW r \in StepByStep(q, <<x>>)
    PROVE  r \in Ok(Get(q, {x})) \/ r \in Fail(Get(q, {}))
<1>1. ToSet(<<x>>) = {x} /\ ToSet(SubSeq(<<x>>, 1, 0)) = {}
  BY DEF ToSet
<1>2. \/ r \in Ok(Get(q, ToSet(<<x>>)))
      \/ \E i \in 0 .. 0 : r \in Fail(Get(q, ToSet(SubSeq(<<x>>, 1, i))))
  BY DEF StepByStep
<1> QED
  BY <1>1, <1>2

LEMMA TwoSteps ==
    ASSUME NEW q, NEW x, NEW y, NEW r \in StepByStep(q, <<x, y>>)
    PROVE  r \in Ok(Get(q, {x, y})) \/ r \in Fail(Get(q, {})) \/ r \in Fail(Get(q, {x}))
<1>1. ToSet(<<x, y>>) = {x, y} /\ ToSet(SubSeq(<<x, y>>, 1, 0)) = {}
  BY DEF ToSet
<1>2. ToSet(SubSeq(<<x, y>>, 1, 1)) = {x}
  BY DEF ToSet
<1>3. PICK i \in 0 .. 1 : \/ r \in Ok(Get(q, ToSet(<<x, y>>)))
                         \/ r \in Fail(Get(q, ToSet(SubSeq(<<x, y>>, 1, i))))
  BY DEF StepByStep
<1>4. CASE i = 0
  BY <1>1, <1>3, <1>4
<1>5. CASE i = 1
  BY <1>1, <1>2, <1>3, <1>5
<1> QED
  BY <1>4, <1>5

LEMMA NvEncAlike ==
    ASSUME NEW s, NEW q, NEW r, NEW o, NvEncFits(s, q, o), Alike(q, r)
    PROVE  NvEncFits(s, r, o) /\ Kept({"codec"}, q, r)
  BY DEF NvEncFits, Alike, Kept, Is

LEMMA NvEncProcessKeeps ==
    ASSUME NEW s, NEW q, NEW o, NEW in, s # "NULL", NvEncFits(s, q, o),
           NEW r \in NvEncProcess(q, in)
    PROVE  NvEncFits(s, r.p, o) /\ Kept({"codec"}, q, r.p)
<1> DEFINE Good(a) == NvEncFits(s, a, o) /\ Kept({"codec"}, q, a)
<1>1. Good(q) /\ \A a : Good(a) => Struct(a)
  BY DEF NvEncFits, Kept
<1>2. \A a, b : Good(a) /\ Alike(a, b) => Good(b)
  BY NvEncAlike, KeptTrans
<1>3. ASSUME NEW a, Good(a), ~Is(a, "initialized"), NEW w \in NvEncInitV4l2(a)
      PROVE  Good(w.p) /\ (w.ret = "ok" => Is(w.p, "initialized"))
  <2>1. PICK t \in StepByStep(a, <<"capture", "output">>) :
           w \in (IF t.ret = "ok"
                   THEN Fail(t.p) \cup Ok(On(Get(t.p, {"pool"}), {"initialized"})) ELSE {t})
    BY <1>3 DEF NvEncInitV4l2, Then
  <2>2. t \in Ok(Get(a, {"capture", "output"})) \/ t \in Fail(Get(a, {})) \/ t \in Fail(Get(a, {"capture"}))
    BY TwoSteps
  <2>3. CASE t.ret # "ok"
    BY <1>3, <2>1, <2>2, <2>3, GetFields DEF NvEncFits, Is, Kept, Ok, Fail, Outcome
  <2>4. CASE t.ret = "ok"
    <3> DEFINE g == Get(a, {"capture", "output"})
    <3>1. t.p = g
      BY <2>2, <2>4 DEF Ok, Fail, Outcome
    <3>2. /\ Struct(g) /\ g.held = a.held \cup {"capture", "output"} /\ g.on = a.on
          /\ g.lost = a.lost \cup ({"capture", "output"} \cap a.held)
          /\ g.stray = a.stray /\ g.links = a.links /\ Good(g)
      BY <1>3, GetFields DEF NvEncFits, Is, Kept
    <3> HIDE DEF g
    <3>3. CASE w \in Fail(t.p)
      BY <3>1, <3>2, <3>3 DEF Fail, Outcome
    <3>4. CASE w \in Ok(On(Get(t.p, {"pool"}), {"initialized"}))
      BY <1>3, <3>1, <3>2, <3>4, GetFields, OnFields
         DEF NvEncFits, Is, Kept, Ok, Outcome
    <3> QED
      BY <2>1, <2>4, <3>3, <3>4
  <2> QED
    BY <2>3, <2>4
<1>4. ASSUME NEW a, Good(a), Is(a, "initialized")
      PROVE  Good(Use(a, {"output", "capture", "pool"}))
  BY <1>4, UseFields DEF NvEncFits, Is, Kept
<1> HIDE DEF Good
<1>5. ASSUME NEW a, Good(a)
      PROVE  Good(Taken(a)) /\ Good(Shed(a))
  BY <1>1, <1>2, <1>5, FlowAlike
<1>6. Good(r.p)
  <2>1. CASE r \in Fail(q)
    BY <1>1, <2>1 DEF Fail, Outcome
  <2>2. CASE r \notin Fail(q)
    <3>1. PICK t \in (IF Is(q, "initialized") THEN Ok(q) ELSE NvEncInitV4l2(q)) :
             r \in (IF t.ret = "ok"
                     THEN LET u == Use(t.p, {"output", "capture", "pool"}) IN
                          Ok(Shed(u)) \cup (IF CanTake(u) THEN Ok(Taken(u)) ELSE {})
                          \cup Out(u, "data")
                     ELSE {t})
      BY <2>2 DEF NvEncProcess, Then
    <3>2. Good(t.p) /\ (t.ret = "ok" => Is(t.p, "initialized"))
      BY <1>1, <1>3, <3>1 DEF Ok, Outcome
    <3>3. t.ret = "ok" => Good(Use(t.p, {"output", "capture", "pool"}))
      BY <1>4, <3>2
    <3> QED
      BY <1>5, <3>1, <3>2, <3>3 DEF Ok, Out, Outcome
  <2> QED
    BY <2>1, <2>2
<1> QED
  BY <1>6 DEF Good

LEMMA NvScaleAlike ==
    ASSUME NEW s, NEW q, NEW r, NEW o, NvScaleFits(s, q, o), Alike(q, r)
    PROVE  NvScaleFits(s, r, o) /\ Kept({"width"}, q, r)
  BY DEF NvScaleFits, Alike, Kept, Is

LEMMA NvScaleProcessKeeps ==
    ASSUME NEW s, NEW q, NEW o, NEW in, s # "NULL", NvScaleFits(s, q, o),
           NEW r \in NvScaleProcess(q, in)
    PROVE  NvScaleFits(s, r.p, o) /\ Kept({"width"}, q, r.p)
<1> DEFINE Good(a) == NvScaleFits(s, a, o) /\ Kept({"width"}, q, a)
<1>1. Good(q) /\ \A a : Good(a) => Struct(a)
  BY DEF NvScaleFits, Kept
<1>2. \A a, b : Good(a) /\ Alike(a, b) => Good(b)
  BY NvScaleAlike, KeptTrans
<1>3. ASSUME NEW a, Good(a), ~Is(a, "initialized"), NEW w \in NvScaleInitV4l2(a)
      PROVE  Good(w.p) /\ (w.ret = "ok" => Is(w.p, "initialized"))
  <2>1. PICK t \in StepByStep(a, <<"output", "capture">>) :
           w \in (IF t.ret = "ok"
                   THEN Fail(t.p) \cup Ok(On(Get(Use(t.p, {"planes"}), {"pool"}), {"initialized"})) ELSE {t})
    BY <1>3 DEF NvScaleInitV4l2, Then
  <2>2. t \in Ok(Get(a, {"output", "capture"})) \/ t \in Fail(Get(a, {})) \/ t \in Fail(Get(a, {"output"}))
    BY TwoSteps
  <2>3. CASE t.ret # "ok"
    BY <1>3, <2>1, <2>2, <2>3, GetFields DEF NvScaleFits, Is, Kept, Ok, Fail, Outcome
  <2>4. CASE t.ret = "ok"
    <3> DEFINE g == Get(a, {"output", "capture"})
    <3>1. t.p = g
      BY <2>2, <2>4 DEF Ok, Fail, Outcome
    <3>2. /\ Struct(g) /\ g.held = a.held \cup {"output", "capture"} /\ g.on = a.on
          /\ g.lost = a.lost \cup ({"output", "capture"} \cap a.held)
          /\ g.stray = a.stray /\ g.links = a.links /\ Good(g)
      BY <1>3, GetFields DEF NvScaleFits, Is, Kept
    <3> HIDE DEF g
    <3>3. CASE w \in Fail(t.p)
      BY <3>1, <3>2, <3>3 DEF Fail, Outcome
    <3>4. CASE w \in Ok(On(Get(Use(t.p, {"planes"}), {"pool"}), {"initialized"}))
      BY <1>3, <3>1, <3>2, <3>4, GetFields, OnFields, UseFields
         DEF NvScaleFits, Is, Kept, Ok, Outcome
    <3> QED
      BY <2>1, <2>4, <3>3, <3>4
  <2> QED
    BY <2>3, <2>4
<1>4. ASSUME NEW a, Good(a), Is(a, "initialized")
      PROVE  Good(Use(a, {"output", "capture", "pool"}))
  BY <1>4, UseFields DEF NvScaleFits, Is, Kept
<1> HIDE DEF Good
<1>5. ASSUME NEW a, Good(a)
      PROVE  Good(Taken(a)) /\ Good(Shed(a))
  BY <1>1, <1>2, <1>5, FlowAlike
<1>6. Good(r.p)
  <2>1. CASE r \in Fail(q)
    BY <1>1, <2>1 DEF Fail, Outcome
  <2>2. CASE r \notin Fail(q)
    <3>1. PICK t \in (IF Is(q, "initialized") THEN Ok(q) ELSE NvScaleInitV4l2(q)) :
             r \in (IF t.ret = "ok"
                     THEN LET u == Use(t.p, {"output", "capture", "pool"}) IN
                          Ok(Shed(u)) \cup (IF CanTake(u) THEN Ok(Taken(u)) ELSE {})
                          \cup Out(u, "data")
                     ELSE {t})
      BY <2>2 DEF NvScaleProcess, Then
    <3>2. Good(t.p) /\ (t.ret = "ok" => Is(t.p, "initialized"))
      BY <1>1, <1>3, <3>1 DEF Ok, Outcome
    <3>3. t.ret = "ok" => Good(Use(t.p, {"output", "capture", "pool"}))
      BY <1>4, <3>2
    <3> QED
      BY <1>5, <3>1, <3>2, <3>3 DEF Ok, Out, Outcome
  <2> QED
    BY <2>1, <2>2
<1> QED
  BY <1>6 DEF Good

LEMMA NvDecAlike ==
    ASSUME NEW s, NEW q, NEW r, NEW o, NvDecFits(s, q, o), Alike(q, r)
    PROVE  NvDecFits(s, r, o) /\ Kept({"codec"}, q, r)
  BY DEF NvDecFits, Alike, Kept, Is

LEMMA NvDecProcessKeeps ==
    ASSUME NEW s, NEW q, NEW o, NEW in, s # "NULL", NvDecFits(s, q, o),
           NEW r \in NvDecProcess(q, in)
    PROVE  NvDecFits(s, r.p, o) /\ Kept({"codec"}, q, r.p)
<1> DEFINE Good(a) == NvDecFits(s, a, o) /\ Kept({"codec"}, q, a)
<1>1. Good(q) /\ \A a : Good(a) => Struct(a)
  BY DEF NvDecFits, Kept
<1>2. \A a, b : Good(a) /\ Alike(a, b) => Good(b)
  BY NvDecAlike, KeptTrans
<1>3. ASSUME NEW a, Good(a), ~Is(a, "initialized"), NEW w \in NvDecInitV4l2(a)
      PROVE  Good(w.p) /\ (w.ret = "ok" => Is(w.p, "initialized"))
  <2>1. PICK t \in StepByStep(a, <<"output">>) :
           w \in (IF t.ret = "ok"
                   THEN Fail(t.p) \cup Ok(On(t.p, {"initialized"})) ELSE {t})
    BY <1>3 DEF NvDecInitV4l2, Then
  <2>2. t \in Ok(Get(a, {"output"})) \/ t \in Fail(Get(a, {}))
    BY OneStep
  <2>3. CASE t \in Fail(Get(a, {}))
    BY <1>3, <2>1, <2>3, GetFields DEF NvDecFits, Is, Kept, Fail, Outcome
  <2>4. CASE t \in Ok(Get(a, {"output"}))
    <3> DEFINE g == Get(a, {"output"})
    <3>2. /\ Struct(g) /\ g.held = a.held \cup {"output"} /\ g.on = a.on
          /\ g.lost = a.lost \cup ({"output"} \cap a.held)
          /\ g.stray = a.stray /\ g.links = a.links /\ Good(g)
      BY <1>3, GetFields DEF NvDecFits, Is, Kept
    <3> HIDE DEF g
    <3>3. w \in Fail(g) \cup Ok(On(g, {"initialized"}))
      BY <2>1, <2>4 DEF Ok, Outcome, g
    <3> QED
      BY <1>3, <3>2, <3>3, OnFields DEF NvDecFits, Is, Kept, Ok, Fail, Outcome
  <2> QED
    BY <2>2, <2>3, <2>4
<1>4. ASSUME NEW a, Good(a), Is(a, "initialized")
      PROVE  Good(Use(a, {"output"}))
  BY <1>4, UseFields DEF NvDecFits, Is, Kept
<1>5. ASSUME NEW a, Good(a), Is(a, "initialized"), NEW t \in NvDecHandleResolutionChange(a)
      PROVE  Good(t.p) /\ Is(t.p, "initialized")
  <2> DEFINE g == Get(a, {"capture"})
  <2>1. /\ Struct(g) /\ g.held = a.held \cup {"capture"} /\ g.on = a.on
        /\ g.lost = a.lost \cup ({"capture"} \cap a.held)
        /\ g.stray = a.stray /\ g.links = a.links /\ Good(g) /\ Is(g, "initialized")
    BY <1>5, GetFields DEF NvDecFits, Is, Kept
  <2> HIDE DEF g
  <2>2. \/ t.p = a \/ t.p = g
        \/ "pool" \notin g.held /\ t.p = Get(g, {"pool"})
    BY <1>5 DEF NvDecHandleResolutionChange, Then, Ok, Fail, Has, Outcome, g
  <2>3. CASE t.p = a \/ t.p = g
    BY <1>5, <2>1, <2>3
  <2>4. CASE "pool" \notin g.held /\ t.p = Get(g, {"pool"})
    BY <1>5, <2>1, <2>4, GetFields DEF NvDecFits, Is, Kept
  <2> QED
    BY <2>2, <2>3, <2>4
<1> HIDE DEF Good
<1>6. ASSUME NEW a, Good(a)
      PROVE  Good(Taken(a)) /\ Good(Shed(a))
  BY <1>1, <1>2, <1>6, FlowAlike
<1>7. Good(r.p)
  <2>1. CASE r \in Fail(q)
    BY <1>1, <2>1 DEF Fail, Outcome
  <2>2. CASE r \notin Fail(q)
    <3>1. PICK t \in (IF Is(q, "initialized") THEN Ok(q) ELSE NvDecInitV4l2(q)) :
             \/ t.ret # "ok" /\ r = t
             \/ t.ret = "ok" /\ \E w \in Ok(t.p) \cup NvDecHandleResolutionChange(t.p) :
                    LET u == Use(w.p, {"output"}) IN
                    r \in Ok(Shed(u)) \cup Ok(Taken(u)) \cup Out(u, "data") \cup Out(u, "eos")
      BY <2>2 DEF NvDecProcess, Then, Regardless
    <3>2. Good(t.p) /\ (t.ret = "ok" => Is(t.p, "initialized"))
      BY <1>1, <1>3, <3>1 DEF Ok, Outcome
    <3>3. CASE t.ret = "ok"
      <4>1. PICK w \in Ok(t.p) \cup NvDecHandleResolutionChange(t.p) :
                 LET u == Use(w.p, {"output"}) IN
                 r \in Ok(Shed(u)) \cup Ok(Taken(u)) \cup Out(u, "data") \cup Out(u, "eos")
        BY <3>1, <3>3
      <4>2. Good(w.p) /\ Is(w.p, "initialized")
        BY <1>5, <3>2, <3>3, <4>1 DEF Ok, Outcome
      <4>3. Good(Use(w.p, {"output"}))
        BY <1>4, <4>2
      <4> QED
        BY <1>6, <4>1, <4>3 DEF Ok, Out, Outcome
    <3> QED
      BY <3>1, <3>2, <3>3
  <2> QED
    BY <2>1, <2>2
<1> QED
  BY <1>7 DEF Good

-----------------------------------------------------------------------------
(* The per-pad fields of the elements with several sink pads.               *)
LEMMA AvFlags ==
    ASSUME NEW S, S \subseteq {"video", "audio"}
    PROVE  /\ PadFlags(S, "eos") \subseteq {"video_eos", "audio_eos"}
           /\ PadFlags(S, "linked") \subseteq {"video_linked", "audio_linked"}
           /\ PadFlags(S, "idx") \subseteq {"video_idx", "audio_idx"}
           /\ PadFlags(S, "pacer") \subseteq {"video_pacer", "audio_pacer"}
  BY DEF PadFlags, PadFlag, PadFields

LEMMA SinkFlags ==
    ASSUME NEW S, S \subseteq {"sink_0", "sink_1"}
    PROVE  /\ PadFlags(S, "eos") \subseteq {"sink_0_eos", "sink_1_eos"}
           /\ PadFlags(S, "active") \subseteq {"sink_0_active", "sink_1_active"}
           /\ PadFlags(S, "data") \subseteq {"sink_0_data", "sink_1_data"}
           /\ PadFlags(S, "queue") \subseteq {"sink_0_queue", "sink_1_queue"}
           /\ PadFlags(S, "input") \subseteq {"sink_0_input", "sink_1_input"}
  BY DEF PadFlags, PadFlag, PadFields

LEMMA SinkFlag ==
    ASSUME NEW m \in {"sink_0", "sink_1"}
    PROVE  /\ PadFlag(m, "eos") \in {"sink_0_eos", "sink_1_eos"}
           /\ PadFlag(m, "active") \in {"sink_0_active", "sink_1_active"}
           /\ PadFlag(m, "data") \in {"sink_0_data", "sink_1_data"}
           /\ PadFlag(m, "queue") \in {"sink_0_queue", "sink_1_queue"}
           /\ PadFlag(m, "input") \in {"sink_0_input", "sink_1_input"}
  BY DEF PadFlag, PadFields

LEMMA MixerTakeFields ==
    ASSUME NEW q, NEW C, Struct(q), C \subseteq {"sink_0", "sink_1"}
    PROVE  /\ Struct(MixerTake(q, C)) /\ MixerTake(q, C).held = q.held
           /\ MixerTake(q, C).lost = q.lost /\ MixerTake(q, C).stray = q.stray
           /\ MixerTake(q, C).links = q.links
           /\ \A f : f \in MixerTake(q, C).on <=> f \in q.on /\ f \notin PadFlags(C, "data")
<1> DEFINE k == q.n - Cardinality(C)
<1>1. MixerTake(q, C) = Inside(Off(q, PadFlags(C, "data")), k)
  BY DEF MixerTake
<1> HIDE DEF k
<1> QED
  BY <1>1, InsideFields, OffFields

-----------------------------------------------------------------------------
(* Muxers, RTMP and the H.26x parser: their longer hooks.                   *)
LEMMA MuxEmitAlike ==
    ASSUME NEW q, Struct(q)
    PROVE  /\ \A t \in MuxEmit(q) : Alike(q, t)
           /\ \A t \in MuxTrailer(q) : Alike(q, t)
<1>1. ASSUME NEW a, Struct(a), NEW t \in MuxEmit(a) PROVE Alike(a, t)
  BY <1>1, FlowAlike, FlowsAlike DEF MuxEmit
<1>2. ASSUME NEW t \in MuxTrailer(q) PROVE Alike(q, t)
  <2>1. CASE t = q
    BY <2>1, FlowAlike
  <2>2. CASE t # q
    <3>1. PICK e \in MuxEmit(q) : t = Inside(e, 0)
      BY <1>2, <2>2 DEF MuxTrailer
    <3>2. Alike(q, e) /\ Struct(e)
      BY <1>1, <3>1 DEF Alike
    <3> QED
      BY <3>1, <3>2, FlowsAlike, AlikeTrans
  <2> QED
    BY <2>1, <2>2
<1> QED
  BY <1>1, <1>2

LEMMA Mp4MuxAlike ==
    ASSUME NEW s, NEW q, NEW r, NEW o, Mp4MuxFits(s, q, o), Alike(q, r)
    PROVE  Mp4MuxFits(s, r, o) /\ Kept({"direct_file", "split_at_keyframe"}, q, r)
  BY DEF Mp4MuxFits, Alike, Kept, Is

LEMMA Mp4MuxStopKeeps ==
    ASSUME NEW q, NEW v, Mp4MuxFits("PLAYING", q, v), NEW r \in MuxStop(q)
    PROVE  /\ Mp4MuxFits("PLAYING", r.p, v) /\ Kept({"direct_file", "split_at_keyframe"}, q, r.p)
           /\ r.ret = "ok"
           /\ "fc" \notin r.p.held
<1> DEFINE Good(a) == Mp4MuxFits("PLAYING", a, v) /\ Kept({"direct_file", "split_at_keyframe"}, q, a)
<1>1. PICK t \in MuxTrailer(q) :
          r \in Ok(Off(Inside(IF Has(t, "fc") THEN Free(IoFreed(t), {"fc"}) ELSE t, 0),
                       {"header_written"}))
  BY DEF MuxStop
<1>2. Good(t)
  <2>1. Struct(q)
    BY DEF Mp4MuxFits
  <2> QED
    BY <1>1, <2>1, MuxEmitAlike, Mp4MuxAlike
<1>3. /\ Struct(t) /\ Good(Off(t, {"header_written"}))
      /\ Struct(Off(t, {"header_written"}))
  BY <1>2, OffFields DEF Mp4MuxFits, Kept, Is
<1>4. CASE "fc" \notin t.held
  <2> DEFINE a == Inside(t, 0)
  <2>1. r.p = Off(a, {"header_written"}) /\ r.ret = "ok"
    BY <1>1, <1>4 DEF Ok, Outcome, Has
  <2>2. Alike(t, a) /\ a.held = t.held
    BY <1>3, FlowsAlike DEF Alike
  <2> HIDE DEF a
  <2>3. Mp4MuxFits("PLAYING", a, v) /\ Kept({"direct_file", "split_at_keyframe"}, t, a)
    BY <1>2, <2>2, Mp4MuxAlike
  <2>4. Kept({"direct_file", "split_at_keyframe"}, q, a)
    BY <1>2, <2>3, KeptTrans
  <2> QED
    BY <1>4, <2>1, <2>2, <2>3, <2>4, OffFields DEF Mp4MuxFits, Kept, Is
<1>5. CASE "fc" \in t.held /\ IoContexts \cap t.held = {}
  <2> DEFINE b == Free(t, {"fc"})
             a == Inside(b, 0)
  <2>1. r.p = Off(a, {"header_written"}) /\ r.ret = "ok"
    BY <1>1, <1>5 DEF Ok, Outcome, Has, IoFreed
  <2>2. /\ Struct(b) /\ b.held = t.held \ {"fc"} /\ b.on = t.on /\ b.links = t.links
        /\ b.lost = t.lost /\ b.stray = t.stray
    BY <1>3, FreeFields
  <2> HIDE DEF b
  <2>3. /\ Struct(a) /\ a.held = t.held \ {"fc"} /\ a.on = t.on /\ a.links = t.links
        /\ a.lost = t.lost /\ a.stray = t.stray
    BY <2>2, InsideFields
  <2> HIDE DEF a
  <2> QED
    BY <1>2, <1>5, <2>1, <2>3, OffFields DEF Mp4MuxFits, Kept, Is
<1>6. CASE "fc" \in t.held /\ IoContexts \cap t.held # {}
  <2> DEFINE x == IoKind(t)
             c == Free(Use(t, {x}), {x})
             b == Free(c, {"fc"})
             a == Inside(b, 0)
  <2>1. r.p = Off(a, {"header_written"}) /\ r.ret = "ok"
    BY <1>1, <1>6 DEF Ok, Outcome, Has, IoFreed
  <2>2. (x = "file" /\ Is(t, "direct_file")) \/ (x = "avio" /\ ~Is(t, "direct_file"))
    BY DEF IoKind, Is
  <2> HIDE DEF x
  <2>3. x \in t.held \/ (x = "file" /\ v # {})
    BY <1>2, <1>6, <2>2 DEF Mp4MuxFits, IoContexts
  <2>4. /\ Struct(c) /\ c.held = t.held \ {x} /\ c.on = t.on /\ c.links = t.links
        /\ c.lost = t.lost /\ c.stray = t.stray \cup ({x} \ t.held)
    BY <1>3, UseFields, FreeFields
  <2> HIDE DEF c
  <2>5. /\ Struct(b) /\ b.held = t.held \ {x, "fc"} /\ b.on = t.on /\ b.links = t.links
        /\ b.lost = t.lost /\ b.stray = t.stray \cup ({x} \ t.held)
    BY <2>4, FreeFields
  <2> HIDE DEF b
  <2>6. /\ Struct(a) /\ a.held = t.held \ {x, "fc"} /\ a.on = t.on /\ a.links = t.links
        /\ a.lost = t.lost /\ a.stray = t.stray \cup ({x} \ t.held)
    BY <2>5, InsideFields
  <2> HIDE DEF a
  <2>7. a.stray \subseteq t.stray \cup Odd(v, {"file"})
    BY <2>3, <2>6 DEF Odd
  <2> QED
    BY <1>2, <1>6, <2>1, <2>2, <2>6, <2>7, OffFields DEF Mp4MuxFits, Kept, Is
<1> QED
  BY <1>4, <1>5, <1>6

LEMMA Mp4MuxPushKeeps ==
    ASSUME NEW s, NEW q, NEW v, NEW k, s = "PLAYING" \/ v # {}, Mp4MuxFits(s, q, v),
           q.links \subseteq {"video", "audio"},
           NEW r \in Mp4MuxVideoPush(q, k) \cup Mp4MuxAudioPush(q, k)
    PROVE  Mp4MuxFits(s, r.p, v) /\ Kept({"direct_file", "split_at_keyframe"}, q, r.p)
<1> DEFINE Good(a) == Mp4MuxFits(s, a, v) /\ Kept({"direct_file", "split_at_keyframe"}, q, a)
<1>1. Good(q) /\ \A a : Good(a) => Struct(a) /\ a.links = q.links
  BY DEF Mp4MuxFits, Kept
<1>2. \A a, b : Good(a) /\ Alike(a, b) => Good(b)
  BY Mp4MuxAlike, KeptTrans
<1>3. ASSUME NEW a, Good(a), ~Is(a, "header_written"), NEW t \in MuxWriteHeader(a)
      PROVE  Good(t.p)
  <2> DEFINE x == IoKind(a)
             g == Get(a, {"fc", x})
             F == PadFlags(MuxPads, "linked") \cup PadFlags(MuxPads, "eos")
             G == {"header_written"} \cup PadFlags(a.links, "linked")
  <2>1. \/ t.p = Null(a, {"fc"}) \/ t.p = g
        \/ \E e \in MuxEmit(g) : t.p = On(Off(Inside(e, 0), F), G)
    <3>1. CASE t \in Fail(Null(a, {"fc"})) \cup Fail(g)
      BY <3>1 DEF Fail, Outcome
    <3>2. CASE \E e \in MuxEmit(g) : t \in Ok(On(Off(Inside(e, 0), F), G))
      <4>1. \A b : t \in Ok(b) => t.p = b
        BY DEF Ok, Outcome
      <4> HIDE DEF F, G, g
      <4> QED
        BY <3>2, <4>1, Zenon
    <3>3. t \in Fail(Null(a, {"fc"})) \cup Fail(g)
                 \cup UNION {Ok(On(Off(Inside(e, 0), F), G)) : e \in MuxEmit(g)}
      BY <1>3, Zenon DEF MuxWriteHeader
    <3> HIDE DEF F, G, g
    <3> QED
      BY <3>1, <3>2, <3>3, Zenon
  <2>2. /\ F \subseteq {"video_linked", "audio_linked", "video_eos", "audio_eos"}
        /\ G \subseteq {"header_written", "video_linked", "audio_linked"}
    BY <1>1, <1>3, AvFlags DEF MuxPads
  <2>3. (x = "file" /\ Is(a, "direct_file")) \/ (x = "avio" /\ ~Is(a, "direct_file"))
    BY DEF IoKind, Is
  <2> HIDE DEF x, F, G
  <2>4. CASE t.p = Null(a, {"fc"})
    BY <1>1, <1>3, <2>4, NullFields DEF Mp4MuxFits, Kept, Is
  <2>5. /\ Struct(g) /\ g.held = a.held \cup {"fc", x} /\ g.on = a.on /\ g.links = a.links
        /\ g.lost = a.lost \cup ({"fc", x} \cap a.held) /\ g.stray = a.stray
    BY <1>1, <1>3, GetFields
  <2> HIDE DEF g
  <2>6. Good(g)
    BY <1>3, <2>3, <2>5 DEF Mp4MuxFits, Kept, Is, IoContexts
  <2>7. CASE \E e \in MuxEmit(g) : t.p = On(Off(Inside(e, 0), F), G)
    <3>1. PICK e \in MuxEmit(g) : t.p = On(Off(Inside(e, 0), F), G)
      BY <2>7
    <3>2. Alike(g, e) /\ Struct(e)
      BY <2>5, <3>1, MuxEmitAlike DEF Alike
    <3> DEFINE w == Inside(e, 0)
    <3>3. Alike(e, w) /\ Struct(w)
      BY <3>2, FlowsAlike DEF Alike
    <3> HIDE DEF w
    <3>4. Good(w) /\ w.held = g.held
      BY <1>2, <2>6, <3>2, <3>3 DEF Alike
    <3> DEFINE y == Off(w, F)
    <3>5. /\ Struct(y) /\ y.held = g.held /\ y.on = w.on \ F /\ y.links = w.links
          /\ y.lost = w.lost /\ y.stray = w.stray
      BY <3>3, <3>4, OffFields
    <3>6. t.p = On(y, G)
      BY <3>1 DEF w
    <3> HIDE DEF y
    <3>7. /\ Struct(t.p) /\ t.p.held = g.held /\ t.p.on = (w.on \ F) \cup G /\ t.p.links = w.links
          /\ t.p.lost = w.lost /\ t.p.stray = w.stray
      BY <3>5, <3>6, OnFields
    <3> QED
      BY <2>2, <2>3, <2>5, <3>4, <3>7 DEF Mp4MuxFits, Kept, Is, IoContexts
  <2> QED
    BY <2>1, <2>4, <2>6, <2>7
<1>4. ASSUME NEW a, Good(a), NEW t \in MuxWrite(a)
      PROVE  Good(t.p)
  <2> DEFINE b == IF IoContexts \cap a.held = {} THEN Use(a, {"pb"}) ELSE a
  <2>1. t.p = a \/ (Is(a, "header_written") /\ (t.p = Shed(b) \/ t.p = Taken(b) \/ t.p \in MuxEmit(b)))
    BY <1>4 DEF MuxWrite, Ok, Fail, Outcome
  <2>2. Is(a, "header_written") => Good(b)
    BY <1>4, UseFields DEF Mp4MuxFits, Kept, Is
  <2> HIDE DEF b, Good
  <2> QED
    BY <1>1, <1>2, <1>4, <2>1, <2>2, MuxEmitAlike, FlowAlike
<1>5. ASSUME NEW a, Good(a), NEW f \in {"video_eos", "audio_eos"}, NEW t \in MuxCheckEos(On(a, {f}))
      PROVE  Good(t.p)
  <2> DEFINE b == On(a, {f})
  <2>1. t.p = b \/ \E e \in MuxTrailer(b) : t.p = Send(Off(e, {"header_written"}), <<"eos">>)
    BY <1>5 DEF MuxCheckEos, Ok, Outcome
  <2>2. Good(b)
    BY <1>5, OnFields DEF Mp4MuxFits, Kept, Is
  <2> HIDE DEF b
  <2>3. CASE \E e \in MuxTrailer(b) : t.p = Send(Off(e, {"header_written"}), <<"eos">>)
    <3>1. PICK e \in MuxTrailer(b) : t.p = Send(Off(e, {"header_written"}), <<"eos">>)
      BY <2>3
    <3>2. Good(e)
      BY <1>1, <1>2, <2>2, MuxEmitAlike
    <3> DEFINE w == Off(e, {"header_written"})
    <3>3. Good(w)
      BY <3>2, OffFields DEF Mp4MuxFits, Kept, Is
    <3> HIDE DEF w
    <3>4. Alike(w, Send(w, <<"eos">>))
      BY <1>1, <3>3, FlowsAlike
    <3> QED
      BY <1>2, <3>1, <3>3, <3>4 DEF w
  <2> QED
    BY <2>1, <2>2, <2>3
<1>6. ASSUME NEW a, Good(a), NEW t \in Mp4MuxSplit(a)
      PROVE  Good(t.p)
  <2> DEFINE w == Inside(a, 0)
             x == Free(w, IoContexts)
  <2>1. t.p = a \/ (Is(a, "direct_file") /\ Has(a, "fc") /\ (t.p = x \/ t.p = Get(x, {"file"})))
    BY <1>6 DEF Mp4MuxSplit, Ok, Fail, Outcome
  <2>2. Good(w)  /\ w.held = a.held /\ w.on = a.on
    BY <1>1, <1>2, <1>6, FlowsAlike, InsideFields
  <2> HIDE DEF w
  <2>3. /\ Struct(x) /\ x.held = w.held \ {"file", "avio"} /\ x.on = w.on /\ x.links = w.links
        /\ x.lost = w.lost /\ x.stray = w.stray
    BY <1>1, <2>2, FreeFields DEF IoContexts
  <2> HIDE DEF x
  <2>4. CASE t.p = x
    BY <2>2, <2>3, <2>4 DEF Mp4MuxFits, Kept, Is, IoContexts
  <2>5. CASE Is(a, "direct_file") /\ Has(a, "fc") /\ t.p = Get(x, {"file"})
    <3>1. /\ Struct(t.p) /\ t.p.held = x.held \cup {"file"} /\ t.p.on = w.on /\ t.p.links = w.links
          /\ t.p.lost \subseteq w.lost \cup {"file"} /\ t.p.stray = w.stray
      BY <2>3, <2>5, GetFields
    <3> QED
      BY <2>2, <2>3, <2>5, <3>1 DEF Mp4MuxFits, Kept, Is, IoContexts
  <2> QED
    BY <1>6, <2>1, <2>4, <2>5
<1>7. ASSUME NEW a, Good(a), ~Is(a, "header_written")
      PROVE  LET g == Get(Free(a, {"video_extradata"}), {"video_extradata"})
             IN  Good(g) /\ ~Is(g, "header_written")
  <2> DEFINE w == Free(a, {"video_extradata"})
             g == Get(w, {"video_extradata"})
  <2>1. /\ Struct(w) /\ w.held = a.held \ {"video_extradata"} /\ w.on = a.on /\ w.links = a.links
        /\ w.lost = a.lost /\ w.stray = a.stray
    BY <1>1, <1>7, FreeFields
  <2> HIDE DEF w
  <2>2. /\ Struct(g) /\ g.held = w.held \cup {"video_extradata"} /\ g.on = a.on /\ g.links = a.links
        /\ g.stray = a.stray /\ g.lost = a.lost \cup ({"video_extradata"} \cap w.held)
    BY <2>1, GetFields
  <2> HIDE DEF g
  <2>4. g.lost = a.lost /\ g.held = a.held \cup {"video_extradata"}
    BY <2>1, <2>2
  <2>5. Struct(g) /\ g.on = a.on /\ g.links = a.links /\ g.stray = a.stray
    BY <2>2
  <2>3. Good(g) /\ ~Is(g, "header_written")
    BY <1>7, <2>4, <2>5 DEF Mp4MuxFits, Kept, Is, IoContexts
  <2> QED
    BY <2>3 DEF g, w
<1> HIDE DEF Good
<1> DEFINE E == Get(Free(q, {"video_extradata"}), {"video_extradata"})
<1>8. CASE r \in Mp4MuxVideoPush(q, k)
  <2>1. CASE k = "eos"
    <3>1. r \in MuxCheckEos(On(q, {"video_eos"}))
      BY <1>8, <2>1 DEF Mp4MuxVideoPush
    <3>2. Good(r.p)
      BY <1>1, <1>5, <3>1
    <3> QED
      BY <3>2 DEF Good
  <2>2. CASE k # "eos"
    <3>1. PICK t \in (IF Is(q, "header_written") THEN Mp4MuxSplit(q)
                      ELSE Fail(q) \cup MuxWriteHeader(E)) :
             r \in (IF t.ret = "ok" THEN MuxWrite(t.p) ELSE {t})
      BY <1>8, <2>2 DEF Mp4MuxVideoPush, Then
    <3>2. Good(t.p)
      BY <1>1, <1>3, <1>6, <1>7, <3>1 DEF Fail, Outcome
    <3>3. Good(r.p)
      BY <1>4, <3>1, <3>2
    <3> QED
      BY <3>3 DEF Good
  <2> QED
    BY <2>1, <2>2
<1>9. CASE r \in Mp4MuxAudioPush(q, k)
  <2>1. \/ r \in MuxCheckEos(On(q, {"audio_eos"})) \/ r \in MuxWrite(q) \/ r \in Ok(q)
        \/ ~Is(q, "header_written") /\ r \in Then(MuxWriteHeader(q), MuxWrite)
    BY <1>9 DEF Mp4MuxAudioPush
  <2>2. ASSUME ~Is(q, "header_written") /\ r \in Then(MuxWriteHeader(q), MuxWrite)
        PROVE  Good(r.p)
    <3>1. PICK t \in MuxWriteHeader(q) : r \in (IF t.ret = "ok" THEN MuxWrite(t.p) ELSE {t})
      BY <2>2 DEF Then
    <3>2. Good(t.p)
      BY <1>1, <1>3, <2>2
    <3> QED
      BY <1>4, <3>1, <3>2
  <2>4. ASSUME r \in MuxCheckEos(On(q, {"audio_eos"})) PROVE Good(r.p)
    BY <1>1, <1>5, <2>4
  <2>5. ASSUME r \in MuxWrite(q) \cup Ok(q) PROVE Good(r.p)
    BY <1>1, <1>4, <2>5 DEF Ok, Outcome
  <2>3. Good(r.p)
    BY <2>1, <2>2, <2>4, <2>5
  <2> QED
    BY <2>3 DEF Good
<1> QED
  BY <1>8, <1>9 DEF Good

LEMMA TsMuxAlike ==
    ASSUME NEW s, NEW q, NEW r, NEW o, TsMuxFits(s, q, o), Alike(q, r)
    PROVE  TsMuxFits(s, r, o) /\ Kept({"direct_file"}, q, r)
  BY DEF TsMuxFits, Alike, Kept, Is

LEMMA TsMuxStopKeeps ==
    ASSUME NEW q, NEW v, TsMuxFits("PLAYING", q, v), NEW r \in MuxStop(q)
    PROVE  /\ TsMuxFits("PLAYING", r.p, v) /\ Kept({"direct_file"}, q, r.p) /\ r.ret = "ok"
           /\ "fc" \notin r.p.held
<1> DEFINE Good(a) == TsMuxFits("PLAYING", a, v) /\ Kept({"direct_file"}, q, a)
<1>1. PICK t \in MuxTrailer(q) :
          r \in Ok(Off(Inside(IF Has(t, "fc") THEN Free(IoFreed(t), {"fc"}) ELSE t, 0),
                       {"header_written"}))
  BY DEF MuxStop
<1>2. Good(t)
  <2>1. Struct(q)
    BY DEF TsMuxFits
  <2> QED
    BY <1>1, <2>1, MuxEmitAlike, TsMuxAlike
<1>3. /\ Struct(t) /\ Good(Off(t, {"header_written"}))
      /\ Struct(Off(t, {"header_written"}))
  BY <1>2, OffFields DEF TsMuxFits, Kept, Is
<1>4. CASE "fc" \notin t.held
  <2> DEFINE a == Inside(t, 0)
  <2>1. r.p = Off(a, {"header_written"}) /\ r.ret = "ok"
    BY <1>1, <1>4 DEF Ok, Outcome, Has
  <2>2. Alike(t, a) /\ a.held = t.held
    BY <1>3, FlowsAlike DEF Alike
  <2> HIDE DEF a
  <2>3. TsMuxFits("PLAYING", a, v) /\ Kept({"direct_file"}, t, a)
    BY <1>2, <2>2, TsMuxAlike
  <2>4. Kept({"direct_file"}, q, a)
    BY <1>2, <2>3, KeptTrans
  <2> QED
    BY <1>4, <2>1, <2>2, <2>3, <2>4, OffFields DEF TsMuxFits, Kept, Is
<1>5. CASE "fc" \in t.held /\ IoContexts \cap t.held = {}
  <2> DEFINE b == Free(t, {"fc"})
             a == Inside(b, 0)
  <2>1. r.p = Off(a, {"header_written"}) /\ r.ret = "ok"
    BY <1>1, <1>5 DEF Ok, Outcome, Has, IoFreed
  <2>2. /\ Struct(b) /\ b.held = t.held \ {"fc"} /\ b.on = t.on /\ b.links = t.links
        /\ b.lost = t.lost /\ b.stray = t.stray
    BY <1>3, FreeFields
  <2> HIDE DEF b
  <2>3. /\ Struct(a) /\ a.held = t.held \ {"fc"} /\ a.on = t.on /\ a.links = t.links
        /\ a.lost = t.lost /\ a.stray = t.stray
    BY <2>2, InsideFields
  <2> HIDE DEF a
  <2> QED
    BY <1>2, <1>5, <2>1, <2>3, OffFields DEF TsMuxFits, Kept, Is
<1>6. CASE "fc" \in t.held /\ IoContexts \cap t.held # {}
  <2> DEFINE x == IoKind(t)
             c == Free(Use(t, {x}), {x})
             b == Free(c, {"fc"})
             a == Inside(b, 0)
  <2>1. r.p = Off(a, {"header_written"}) /\ r.ret = "ok"
    BY <1>1, <1>6 DEF Ok, Outcome, Has, IoFreed
  <2>2. (x = "file" /\ Is(t, "direct_file")) \/ (x = "avio" /\ ~Is(t, "direct_file"))
    BY DEF IoKind, Is
  <2> HIDE DEF x
  <2>3. x \in t.held \/ (x = "file" /\ v # {})
    BY <1>2, <1>6, <2>2 DEF TsMuxFits, IoContexts
  <2>4. /\ Struct(c) /\ c.held = t.held \ {x} /\ c.on = t.on /\ c.links = t.links
        /\ c.lost = t.lost /\ c.stray = t.stray \cup ({x} \ t.held)
    BY <1>3, UseFields, FreeFields
  <2> HIDE DEF c
  <2>5. /\ Struct(b) /\ b.held = t.held \ {x, "fc"} /\ b.on = t.on /\ b.links = t.links
        /\ b.lost = t.lost /\ b.stray = t.stray \cup ({x} \ t.held)
    BY <2>4, FreeFields
  <2> HIDE DEF b
  <2>6. /\ Struct(a) /\ a.held = t.held \ {x, "fc"} /\ a.on = t.on /\ a.links = t.links
        /\ a.lost = t.lost /\ a.stray = t.stray \cup ({x} \ t.held)
    BY <2>5, InsideFields
  <2> HIDE DEF a
  <2>7. a.stray \subseteq t.stray \cup Odd(v, {"file"})
    BY <2>3, <2>6 DEF Odd
  <2> QED
    BY <1>2, <1>6, <2>1, <2>2, <2>6, <2>7, OffFields DEF TsMuxFits, Kept, Is
<1> QED
  BY <1>4, <1>5, <1>6

LEMMA TsMuxPushKeeps ==
    ASSUME NEW s, NEW q, NEW v, NEW k, s = "PLAYING" \/ v # {}, TsMuxFits(s, q, v),
           q.links \subseteq {"video", "audio"},
           NEW r \in TsMuxVideoPush(q, k) \cup TsMuxAudioPush(q, k)
    PROVE  TsMuxFits(s, r.p, v) /\ Kept({"direct_file"}, q, r.p)
<1> DEFINE Good(a) == TsMuxFits(s, a, v) /\ Kept({"direct_file"}, q, a)
<1>1. Good(q) /\ \A a : Good(a) => Struct(a) /\ a.links = q.links
  BY DEF TsMuxFits, Kept
<1>2. \A a, b : Good(a) /\ Alike(a, b) => Good(b)
  BY TsMuxAlike, KeptTrans
<1>3. ASSUME NEW a, Good(a), ~Is(a, "header_written"), NEW t \in MuxWriteHeader(a)
      PROVE  Good(t.p)
  <2> DEFINE x == IoKind(a)
             g == Get(a, {"fc", x})
             F == PadFlags(MuxPads, "linked") \cup PadFlags(MuxPads, "eos")
             G == {"header_written"} \cup PadFlags(a.links, "linked")
  <2>1. \/ t.p = Null(a, {"fc"}) \/ t.p = g
        \/ \E e \in MuxEmit(g) : t.p = On(Off(Inside(e, 0), F), G)
    <3>1. CASE t \in Fail(Null(a, {"fc"})) \cup Fail(g)
      BY <3>1 DEF Fail, Outcome
    <3>2. CASE \E e \in MuxEmit(g) : t \in Ok(On(Off(Inside(e, 0), F), G))
      <4>1. \A b : t \in Ok(b) => t.p = b
        BY DEF Ok, Outcome
      <4> HIDE DEF F, G, g
      <4> QED
        BY <3>2, <4>1, Zenon
    <3>3. t \in Fail(Null(a, {"fc"})) \cup Fail(g)
                 \cup UNION {Ok(On(Off(Inside(e, 0), F), G)) : e \in MuxEmit(g)}
      BY <1>3, Zenon DEF MuxWriteHeader
    <3> HIDE DEF F, G, g
    <3> QED
      BY <3>1, <3>2, <3>3, Zenon
  <2>2. /\ F \subseteq {"video_linked", "audio_linked", "video_eos", "audio_eos"}
        /\ G \subseteq {"header_written", "video_linked", "audio_linked"}
    BY <1>1, <1>3, AvFlags DEF MuxPads
  <2>3. (x = "file" /\ Is(a, "direct_file")) \/ (x = "avio" /\ ~Is(a, "direct_file"))
    BY DEF IoKind, Is
  <2> HIDE DEF x, F, G
  <2>4. CASE t.p = Null(a, {"fc"})
    BY <1>1, <1>3, <2>4, NullFields DEF TsMuxFits, Kept, Is
  <2>5. /\ Struct(g) /\ g.held = a.held \cup {"fc", x} /\ g.on = a.on /\ g.links = a.links
        /\ g.lost = a.lost \cup ({"fc", x} \cap a.held) /\ g.stray = a.stray
    BY <1>1, <1>3, GetFields
  <2> HIDE DEF g
  <2>6. Good(g)
    BY <1>3, <2>3, <2>5 DEF TsMuxFits, Kept, Is, IoContexts
  <2>7. CASE \E e \in MuxEmit(g) : t.p = On(Off(Inside(e, 0), F), G)
    <3>1. PICK e \in MuxEmit(g) : t.p = On(Off(Inside(e, 0), F), G)
      BY <2>7
    <3>2. Alike(g, e) /\ Struct(e)
      BY <2>5, <3>1, MuxEmitAlike DEF Alike
    <3> DEFINE w == Inside(e, 0)
    <3>3. Alike(e, w) /\ Struct(w)
      BY <3>2, FlowsAlike DEF Alike
    <3> HIDE DEF w
    <3>4. Good(w) /\ w.held = g.held
      BY <1>2, <2>6, <3>2, <3>3 DEF Alike
    <3> DEFINE y == Off(w, F)
    <3>5. /\ Struct(y) /\ y.held = g.held /\ y.on = w.on \ F /\ y.links = w.links
          /\ y.lost = w.lost /\ y.stray = w.stray
      BY <3>3, <3>4, OffFields
    <3>6. t.p = On(y, G)
      BY <3>1 DEF w
    <3> HIDE DEF y
    <3>7. /\ Struct(t.p) /\ t.p.held = g.held /\ t.p.on = (w.on \ F) \cup G /\ t.p.links = w.links
          /\ t.p.lost = w.lost /\ t.p.stray = w.stray
      BY <3>5, <3>6, OnFields
    <3> QED
      BY <2>2, <2>3, <2>5, <3>4, <3>7 DEF TsMuxFits, Kept, Is, IoContexts
  <2> QED
    BY <2>1, <2>4, <2>6, <2>7
<1>4. ASSUME NEW a, Good(a), NEW t \in MuxWrite(a)
      PROVE  Good(t.p)
  <2> DEFINE b == IF IoContexts \cap a.held = {} THEN Use(a, {"pb"}) ELSE a
  <2>1. t.p = a \/ (Is(a, "header_written") /\ (t.p = Shed(b) \/ t.p = Taken(b) \/ t.p \in MuxEmit(b)))
    BY <1>4 DEF MuxWrite, Ok, Fail, Outcome
  <2>2. Is(a, "header_written") => Good(b)
    BY <1>4, UseFields DEF TsMuxFits, Kept, Is
  <2> HIDE DEF b, Good
  <2> QED
    BY <1>1, <1>2, <1>4, <2>1, <2>2, MuxEmitAlike, FlowAlike
<1>5. ASSUME NEW a, Good(a), NEW f \in {"video_eos", "audio_eos"}, NEW t \in MuxCheckEos(On(a, {f}))
      PROVE  Good(t.p)
  <2> DEFINE b == On(a, {f})
  <2>1. t.p = b \/ \E e \in MuxTrailer(b) : t.p = Send(Off(e, {"header_written"}), <<"eos">>)
    BY <1>5 DEF MuxCheckEos, Ok, Outcome
  <2>2. Good(b)
    BY <1>5, OnFields DEF TsMuxFits, Kept, Is
  <2> HIDE DEF b
  <2>3. CASE \E e \in MuxTrailer(b) : t.p = Send(Off(e, {"header_written"}), <<"eos">>)
    <3>1. PICK e \in MuxTrailer(b) : t.p = Send(Off(e, {"header_written"}), <<"eos">>)
      BY <2>3
    <3>2. Good(e)
      BY <1>1, <1>2, <2>2, MuxEmitAlike
    <3> DEFINE w == Off(e, {"header_written"})
    <3>3. Good(w)
      BY <3>2, OffFields DEF TsMuxFits, Kept, Is
    <3> HIDE DEF w
    <3>4. Alike(w, Send(w, <<"eos">>))
      BY <1>1, <3>3, FlowsAlike
    <3> QED
      BY <1>2, <3>1, <3>3, <3>4 DEF w
  <2> QED
    BY <2>1, <2>2, <2>3
<1> HIDE DEF Good
<1>6. ASSUME ~Is(q, "header_written"), r \in Then(MuxWriteHeader(q), MuxWrite)
      PROVE  Good(r.p)
  <2>1. PICK t \in MuxWriteHeader(q) : r \in (IF t.ret = "ok" THEN MuxWrite(t.p) ELSE {t})
    BY <1>6 DEF Then
  <2>2. Good(t.p)
    BY <1>1, <1>3, <1>6
  <2> QED
    BY <1>4, <2>1, <2>2
<1>7. \/ r \in MuxCheckEos(On(q, {"audio_eos"})) \/ r \in MuxCheckEos(On(q, {"video_eos"}))
      \/ r \in MuxWrite(q) \/ r \in Ok(q)
      \/ ~Is(q, "header_written") /\ r \in Then(MuxWriteHeader(q), MuxWrite)
  <2>1. CASE r \in TsMuxAudioPush(q, k)
    BY <2>1 DEF TsMuxAudioPush
  <2>2. CASE r \in TsMuxVideoPush(q, k) /\ k = "eos"
    BY <2>2 DEF TsMuxVideoPush
  <2>3. CASE r \in TsMuxVideoPush(q, k) /\ k # "eos" /\ ~Is(q, "header_written")
    BY <2>3 DEF TsMuxVideoPush
  <2>4. CASE r \in TsMuxVideoPush(q, k) /\ k # "eos" /\ Is(q, "header_written")
    <3>1. r \in Then(Ok(q), MuxWrite)
      BY <2>4 DEF TsMuxVideoPush
    <3> QED
      BY <3>1 DEF Then, Ok, Outcome
  <2> QED
    BY <2>1, <2>2, <2>3, <2>4
<1>8. Good(r.p)
  <2>1. ASSUME NEW f \in {"video_eos", "audio_eos"}, r \in MuxCheckEos(On(q, {f}))
        PROVE  Good(r.p)
    BY <1>1, <1>5, <2>1
  <2>2. ASSUME r \in MuxWrite(q) \cup Ok(q) PROVE Good(r.p)
    BY <1>1, <1>4, <2>2 DEF Ok, Outcome
  <2> QED
    BY <1>6, <1>7, <2>1, <2>2
<1> QED
  BY <1>8 DEF Good

LEMMA RtmpSrcAlike ==
    ASSUME NEW s, NEW q, NEW r, NEW o, RtmpSrcFits(s, q, o), Alike(q, r)
    PROVE  RtmpSrcFits(s, r, o) /\ Kept({"url", "reconnect"}, q, r)
  BY DEF RtmpSrcFits, Alike, Kept, Is

LEMMA RtmpSrcThreadKeeps ==
    ASSUME NEW s, NEW q, NEW v, RtmpSrcFits(s, q, v), NEW r \in RtmpSrcThread(q)
    PROVE  RtmpSrcFits(s, r.p, v) /\ Kept({"url", "reconnect"}, q, r.p)
<1> DEFINE Good(a) == RtmpSrcFits(s, a, v) /\ Kept({"url", "reconnect"}, q, a)
<1>1. Good(q) /\ \A a : Good(a) => Struct(a) /\ a.links = q.links
  BY DEF RtmpSrcFits, Kept
<1>2. \A a, b : Good(a) /\ Alike(a, b) => Good(b)
  BY RtmpSrcAlike, KeptTrans
<1>3. s = "PLAYING"
  BY DEF RtmpSrcThread, RtmpSrcFits, Is, NoHook
<1>4. ASSUME NEW a, Good(a)
      PROVE  Good(Free(a, {"fc"})) /\ Good(Off(a, {"running"}))
  BY <1>4, FreeFields, OffFields DEF RtmpSrcFits, Kept, Is
<1>5. ASSUME NEW a, Good(a), NEW t \in RtmpSrcConnect(a)
      PROVE  Good(t.p)
  <2> DEFINE c == Free(a, {"fc"})
  <2>1. t.p = a \/ t.p = c \/ t.p = Get(c, {"fc"})
    BY <1>5 DEF RtmpSrcConnect, RtmpSrcCloseInput, AllOrNothing, Ok, Fail, Outcome
  <2>2. Good(c) /\ "fc" \notin c.held
    BY <1>1, <1>4, <1>5, FreeFields
  <2> HIDE DEF c
  <2>3. Good(Get(c, {"fc"}))
    BY <1>3, <2>2, GetFields DEF RtmpSrcFits, Kept, Is
  <2> QED
    BY <1>5, <2>1, <2>2, <2>3
<1> HIDE DEF Good
<1>6. ASSUME NEW a, Good(a), NEW k, NEW t \in Push(a, k)
      PROVE  Good(t.p)
  BY <1>1, <1>2, <1>6, PushAlike
<1>7. ASSUME NEW a, Good(a), NEW t \in RtmpSrcEnded(a)
      PROVE  Good(t.p)
  BY <1>4, <1>6, <1>7 DEF RtmpSrcEnded, Regardless, Ok, Outcome
<1>8. ASSUME NEW a, Good(a), NEW t \in RtmpSrcRead(a)
      PROVE  Good(t.p)
  <2>1. \/ \E w \in Push(a, "data") : t.p = w.p
        \/ t.p = Free(a, {"fc"})
        \/ t \in RtmpSrcEnded(Free(a, {"fc"}))
    BY <1>8 DEF RtmpSrcRead, RtmpSrcCloseInput, Regardless, Ok, Outcome
  <2> QED
    BY <1>4, <1>6, <1>7, <1>8, <2>1
<1>9. \/ r \in RtmpSrcRead(q) \/ r \in RtmpSrcEnded(q)
      \/ \E t \in RtmpSrcConnect(q) : r \in RtmpSrcRead(t.p) \/ r.p = t.p
  BY DEF RtmpSrcThread, NoHook, Ok, Outcome
<1>10. Good(r.p)
  BY <1>1, <1>5, <1>7, <1>8, <1>9
<1> QED
  BY <1>10 DEF Good

LEMMA RtmpSinkAlike ==
    ASSUME NEW s, NEW q, NEW r, NEW o, RtmpSinkFits(s, q, o), Alike(q, r)
    PROVE  RtmpSinkFits(s, r, o) /\ Kept({"url", "reconnect"}, q, r)
  BY DEF RtmpSinkFits, Alike, Kept, Is

LEMMA RtmpSinkPushKeeps ==
    ASSUME NEW s, NEW q, NEW v, NEW k, s = "PLAYING" \/ v # {}, s # "NULL", RtmpSinkFits(s, q, v),
           q.links \subseteq {"video", "audio"},
           NEW r \in RtmpSinkVideoPush(q, k) \cup RtmpSinkAudioPush(q, k)
    PROVE  RtmpSinkFits(s, r.p, v) /\ Kept({"url", "reconnect"}, q, r.p)
<1> DEFINE Good(a) == RtmpSinkFits(s, a, v) /\ Kept({"url", "reconnect"}, q, a)
<1>1. Good(q) /\ \A a : Good(a) => Struct(a) /\ a.links = q.links
  BY DEF RtmpSinkFits, Kept
<1>2. \A a, b : Good(a) /\ Alike(a, b) => Good(b)
  BY RtmpSinkAlike, KeptTrans
<1>3. ASSUME NEW a, Good(a)
      PROVE  /\ Good(Off(Free(a, {"fc"}), {"header_written"}))
             /\ "fc" \notin Off(Free(a, {"fc"}), {"header_written"}).held
             /\ Off(Free(a, {"fc"}), {"header_written"}).on = a.on \ {"header_written"}
  BY <1>3, FreeFields, OffFields DEF RtmpSinkFits, Kept, Is
<1>4. ASSUME NEW a, Good(a), NEW t \in RtmpSinkEnsureConnected(a)
      PROVE  Good(t.p) /\ (t.ret = "ok" => Is(t.p, "header_written"))
  <2>1. CASE t.p = a /\ (t.ret = "ok" => Is(a, "header_written"))
    BY <1>4, <2>1
  <2>2. CASE Is(a, "running") /\ t \in RtmpSinkConnectAndWriteHeader(a)
    <3> DEFINE c == Off(Free(a, {"fc"}), {"header_written"})
               F == PadFlags(RtmpPads, "eos")
               g == Get(c, {"fc"})
               w == Off(g, F)
    <3>1. \/ t.p = c /\ t.ret # "ok"
          \/ t.p = On(w, {"header_written"})
      BY <2>2 DEF RtmpSinkConnectAndWriteHeader, Ok, Fail, Outcome
    <3>2. F \subseteq {"video_eos", "audio_eos"}
      BY AvFlags DEF RtmpPads
    <3>3. /\ Good(c) /\ "fc" \notin c.held /\ c.on = a.on \ {"header_written"}
          /\ s = "PLAYING"
      BY <1>3, <1>4, <2>2 DEF RtmpSinkFits, Is
    <3> HIDE DEF c, F
    <3>4. /\ Struct(g) /\ g.held = c.held \cup {"fc"} /\ g.on = c.on /\ g.links = c.links
          /\ g.stray = c.stray /\ g.lost = c.lost \cup ({"fc"} \cap c.held)
      BY <1>1, <3>3, GetFields
    <3> HIDE DEF g
    <3>5. g.lost = c.lost
      BY <3>3, <3>4
    <3>6. /\ Struct(w) /\ w.held = c.held \cup {"fc"} /\ w.on = c.on \ F /\ w.links = c.links
          /\ w.stray = c.stray /\ w.lost = c.lost
      BY <3>4, <3>5, OffFields
    <3> HIDE DEF w
    <3>7. CASE t.p = On(w, {"header_written"})
      BY <3>2, <3>3, <3>6, <3>7, OnFields DEF RtmpSinkFits, Kept, Is
    <3> QED
      BY <3>1, <3>3, <3>7
  <2> QED
    BY <1>4, <2>1, <2>2 DEF RtmpSinkEnsureConnected, Ok, Fail, Outcome
<1>5. ASSUME NEW a, Good(a), Is(a, "header_written")
      PROVE  Good(Use(a, {"fc"}))
  BY <1>5, UseFields DEF RtmpSinkFits, Kept, Is
<1>6. ASSUME NEW a, Good(a), NEW f \in {"video_eos", "audio_eos"}
      PROVE  Good(On(a, {f})) /\ Good(RtmpSinkCheckEos(On(a, {f})))
  <2> DEFINE b == On(a, {f})
             c == Off(b, {"header_written"})
  <2>1. Good(b)
    BY <1>6, OnFields DEF RtmpSinkFits, Kept, Is
  <2>2. RtmpSinkCheckEos(b) = Send(c, <<"eos">>) \/ RtmpSinkCheckEos(b) = b
    BY DEF RtmpSinkCheckEos
  <2> HIDE DEF b
  <2>3. Good(c)
    BY <2>1, OffFields DEF RtmpSinkFits, Kept, Is
  <2> HIDE DEF c
  <2>4. Alike(c, Send(c, <<"eos">>))
    BY <1>1, <2>3, FlowsAlike
  <2> QED
    BY <1>2, <2>1, <2>2, <2>3, <2>4 DEF b
<1>7. ASSUME NEW a, Good(a), ~Has(a, "video_extradata")
      PROVE  Good(Get(a, {"video_extradata"}))
  <2> DEFINE g == Get(a, {"video_extradata"})
  <2>1. /\ Struct(g) /\ g.held = a.held \cup {"video_extradata"} /\ g.on = a.on
        /\ g.links = a.links /\ g.stray = a.stray
        /\ g.lost = a.lost \cup ({"video_extradata"} \cap a.held)
    BY <1>1, <1>7, GetFields
  <2> HIDE DEF g
  <2>3. g.lost = a.lost
    BY <1>7, <2>1 DEF Has
  <2>2. Good(g)
    BY <1>7, <2>1, <2>3 DEF RtmpSinkFits, Kept, Is
  <2> QED
    BY <2>2 DEF g
<1> HIDE DEF Good
<1>8. ASSUME NEW a, Good(a), NEW t \in RtmpSinkWriteLocked(a)
      PROVE  Good(t.p)
  <2>1. CASE t \in Fail(a)
    BY <1>8, <2>1 DEF Fail, Outcome
  <2>2. CASE t \notin Fail(a)
    <3>1. PICK w \in RtmpSinkEnsureConnected(a) :
             \/ w.ret # "ok" /\ t = w
             \/ w.ret = "ok" /\ LET c == Off(Free(w.p, {"fc"}), {"header_written"})
                                IN  \/ t \in Ok(Use(w.p, {"fc"})) \cup Fail(w.p) \cup Fail(c)
                                    \/ t \in RtmpSinkEnsureConnected(c)
      BY <1>8, <2>2 DEF RtmpSinkWriteLocked, Then
    <3>2. Good(w.p) /\ (w.ret = "ok" => Is(w.p, "header_written"))
      BY <1>4, <1>8
    <3> DEFINE c == Off(Free(w.p, {"fc"}), {"header_written"})
    <3>3. Good(c)
      BY <1>3, <3>2
    <3>4. w.ret = "ok" => Good(Use(w.p, {"fc"}))
      BY <1>5, <3>2
    <3>5. \/ t.p = w.p \/ t.p = c \/ t \in RtmpSinkEnsureConnected(c)
          \/ w.ret = "ok" /\ t.p = Use(w.p, {"fc"})
      BY <3>1 DEF Ok, Fail, Outcome
    <3> HIDE DEF c
    <3> QED
      BY <1>4, <3>2, <3>3, <3>4, <3>5
  <2> QED
    BY <2>1, <2>2
<1>9. ASSUME NEW a, Good(a), NEW t \in Then(RtmpSinkEnsureConnected(a), RtmpSinkWriteLocked)
      PROVE  Good(t.p)
  <2>1. PICK w \in RtmpSinkEnsureConnected(a) :
             t \in (IF w.ret = "ok" THEN RtmpSinkWriteLocked(w.p) ELSE {w})
    BY <1>9 DEF Then
  <2> QED
    BY <1>4, <1>8, <1>9, <2>1
<1>10. \/ r \in Ok(RtmpSinkCheckEos(On(q, {"video_eos"})))
       \/ r \in Ok(RtmpSinkCheckEos(On(q, {"audio_eos"}))) \/ r \in Ok(q)
       \/ r \in Then(RtmpSinkEnsureConnected(q), RtmpSinkWriteLocked)
       \/ ~Has(q, "video_extradata") /\
          r \in Then(RtmpSinkEnsureConnected(Get(q, {"video_extradata"})), RtmpSinkWriteLocked)
  BY DEF RtmpSinkVideoPush, RtmpSinkAudioPush
<1>11. CASE r \in Ok(RtmpSinkCheckEos(On(q, {"video_eos"}))) \cup
               Ok(RtmpSinkCheckEos(On(q, {"audio_eos"}))) \cup Ok(q)
  <2>1. Good(r.p)
    BY <1>1, <1>6, <1>11 DEF Ok, Outcome
  <2> QED
    BY <2>1 DEF Good
<1>12. CASE r \in Then(RtmpSinkEnsureConnected(q), RtmpSinkWriteLocked)
  BY <1>1, <1>9, <1>12 DEF Good
<1>13. CASE ~Has(q, "video_extradata") /\
            r \in Then(RtmpSinkEnsureConnected(Get(q, {"video_extradata"})), RtmpSinkWriteLocked)
  <2>1. Good(r.p)
    BY <1>1, <1>7, <1>9, <1>13
  <2> QED
    BY <2>1 DEF Good
<1> QED
  BY <1>10, <1>11, <1>12, <1>13

LEMMA H26xAlike ==
    ASSUME NEW s, NEW q, NEW r, NEW o, H26xFits(s, q, o), Alike(q, r)
    PROVE  H26xFits(s, r, o) /\ Kept({"codec", "input_format", "policy", "aggregate"}, q, r)
  BY DEF H26xFits, Alike, Kept, Is

LEMMA H26xPushKeeps ==
    ASSUME NEW s, NEW q, NEW v, NEW in, s # "NULL", H26xFits(s, q, v), NEW r \in H26xSinkPush(q, in)
    PROVE  H26xFits(s, r.p, v) /\ Kept({"codec", "input_format", "policy", "aggregate"}, q, r.p)
<1> DEFINE Good(a) == H26xFits(s, a, v) /\ Kept({"codec", "input_format", "policy", "aggregate"}, q, a)
<1>1. Good(q) /\ \A a : Good(a) => Struct(a) /\ a.links = q.links
  BY DEF H26xFits, Kept
<1>2. \A a, b : Good(a) /\ Alike(a, b) => Good(b)
  BY H26xAlike, KeptTrans
<1>3. ASSUME NEW a, Good(a), NEW R, R \subseteq {"adapter", "au", "ps"}
      PROVE  Good(Get(Free(a, R), R))
  <2> DEFINE b == Free(a, R)
             c == Get(b, R)
  <2>1. /\ Struct(b) /\ b.held = a.held \ R /\ b.on = a.on /\ b.links = a.links
        /\ b.stray = a.stray /\ b.lost = a.lost
    BY <1>1, <1>3, FreeFields
  <2> HIDE DEF b
  <2>2. /\ Struct(c) /\ c.held = b.held \cup R /\ c.on = b.on /\ c.links = b.links
        /\ c.stray = b.stray /\ c.lost = b.lost \cup (R \cap b.held)
    BY <2>1, GetFields
  <2> HIDE DEF c
  <2>3. c.lost = a.lost
    BY <2>1, <2>2
  <2>4. Good(c)
    BY <1>3, <2>1, <2>2, <2>3 DEF H26xFits, Kept
  <2> QED
    BY <2>4 DEF b, c
<1>4. ASSUME NEW a, Good(a), NEW F, F \subseteq {"malformed", "au_eos"}
      PROVE  Good(On(a, F)) /\ Good(Off(a, F))
  BY <1>4, OnFields, OffFields DEF H26xFits, Kept
<1> HIDE DEF Good
<1>5. ASSUME NEW a, Good(a), NEW m
      PROVE  Good(Inside(a, m)) /\ Good(Send(a, m)) /\ Good(Shed(a))
  BY <1>1, <1>2, <1>5, FlowAlike, FlowsAlike
<1>6. ASSUME NEW a, Good(a), NEW m
      PROVE  Good(H26xEmitted(a, m))
  <2> DEFINE x == <<"eos">> \o [i \in 1 .. m - 1 |-> "data"]
             y == [i \in 1 .. m |-> "data"]
  <2>1. H26xEmitted(a, m) = Off(Send(a, x), {"au_eos"}) \/ H26xEmitted(a, m) = Send(a, y)
    BY DEF H26xEmitted
  <2> HIDE DEF x, y
  <2>2. Good(Send(a, x)) /\ Good(Send(a, y))
    BY <1>5, <1>6
  <2> QED
    BY <1>4, <2>1, <2>2
<1>7. ASSUME NEW a, Good(a), NEW t \in H26xParseAdapter(a)
      PROVE  Good(t.p)
  <2>1. \/ t.p = a \/ t.p = On(a, {"malformed"}) \/ t.p = Shed(a)
        \/ \E j : t.p = Inside(H26xEmitted(a, j), a.n - j)
    BY <1>7 DEF H26xParseAdapter, Ok, Fail, Outcome
  <2>2. CASE \E j : t.p = Inside(H26xEmitted(a, j), a.n - j)
    <3>1. PICK j : t.p = Inside(H26xEmitted(a, j), a.n - j)
      BY <2>2
    <3> DEFINE d == a.n - j
               b == H26xEmitted(a, j)
    <3>2. t.p = Inside(b, d) /\ Good(b)
      BY <1>6, <1>7, <3>1
    <3> HIDE DEF d, b
    <3> QED
      BY <1>5, <3>2
  <2>3. Good(On(a, {"malformed"})) /\ Good(Shed(a))
    BY <1>4, <1>5, <1>7
  <2> QED
    BY <1>7, <2>1, <2>2, <2>3
<1>8. ASSUME NEW a, Good(a), NEW t \in H26xFlushAu(a)
      PROVE  Good(t.p)
  <2> DEFINE b == Inside(a, 0)
             x == [i \in 1 .. a.n - 1 |-> "data"] \o <<"eos">>
             on(c) == On(c, {"au_eos"})
             off(c) == Off(c, {"au_eos"})
  <2>1. \/ t.p = on(a) \/ t.p = Shed(b) \/ t.p = Shed(on(b))
        \/ t.p = Send(on(b), x) \/ t.p = Send(off(b), x)
    BY <1>8 DEF H26xFlushAu, Ok, Fail, Outcome
  <2> HIDE DEF x
  <2>2. Good(b) /\ \A c : Good(c) => Good(on(c)) /\ Good(off(c))
    BY <1>4, <1>5, <1>8
  <2> HIDE DEF b, on, off
  <2> QED
    BY <1>5, <1>8, <2>1, <2>2
<1>9. CASE in = "eos"
  <2> DEFINE g == Get(Free(q, {"adapter"}), {"adapter"})
  <2>1. PICK t \in H26xParseAdapter(g) : r \in (IF t.ret = "ok" THEN H26xFlushAu(t.p) ELSE {t})
    BY <1>9 DEF H26xSinkPush, Then
  <2>2. Good(g)
    BY <1>1, <1>3
  <2> HIDE DEF g
  <2>3. Good(t.p)
    BY <1>7, <2>1, <2>2
  <2>4. Good(r.p)
    BY <1>8, <2>1, <2>3
  <2> QED
    BY <2>4 DEF Good
<1>10. CASE in # "eos"
  <2> DEFINE g == Get(Free(q, {"adapter"}), {"adapter"})
  <2>1. r \in Fail(q) \/ \E m, R : R \in {{}, {"au", "ps"}}
                                  /\ r \in H26xParseAdapter(Inside(Get(Free(g, R), R), m))
    BY <1>10 DEF H26xSinkPush
  <2>2. Good(g)
    BY <1>1, <1>3
  <2> HIDE DEF g
  <2>3. CASE r \in Fail(q)
    BY <1>1, <2>3 DEF Fail, Outcome, Good
  <2>4. CASE r \notin Fail(q)
    <3>1. PICK m, R : R \in {{}, {"au", "ps"}}
                      /\ r \in H26xParseAdapter(Inside(Get(Free(g, R), R), m))
      BY <2>1, <2>4
    <3> DEFINE c == Get(Free(g, R), R)
    <3>2. Good(c)
      BY <1>3, <2>2, <3>1
    <3> HIDE DEF c
    <3>3. Good(Inside(c, m))
      BY <1>5, <3>2
    <3>4. Good(r.p)
      BY <1>7, <3>1, <3>3 DEF c
    <3> QED
      BY <3>4 DEF Good
  <2> QED
    BY <2>3, <2>4
<1> QED
  BY <1>9, <1>10

-----------------------------------------------------------------------------
(* Every kind: each outcome of each of its hooks is fine.                   *)
LEMMA AacEncKeeps ==
    ASSUME NEW h, NEW s, NEW q, NEW in, NEW o, NEW v, NEW r \in AacEncOps(h, q, in),
           AacEncFits(s, q, o), o \subseteq v, Calls({"sink"}, h, s, q, in, v)
    PROVE  Fine(AacEncFits, {"bitrate"}, {"bitrate"}, h, s, q, in, v, r)
<1>1. CASE h = "open"
  BY <1>1, OffFields, NullFields
     DEF AacEncOps, AacEncFits, Calls, To, Fine, AacEncOpen, Is, Ok, Outcome
<1>2. CASE h = "close"
  BY <1>2, OffFields, FreeFields, InsideFields
     DEF AacEncOps, AacEncFits, Calls, To, Fine, AacEncClose, Is, Ok, FreeCodec, Outcome
<1>3. CASE h = "process"
  BY <1>3, OnFields, OffFields, GetFields, UseFields, ShedFields, InsideFields,
     MaxInsideAssumption
     DEF AacEncOps, AacEncFits, Calls, To, Fine, AacProcess, Is, Outcome, Ok, Fail, Then,
        Taken, CanTake, End, AacInitEncoder, AacMakeEos, AacReceivePacket, AllOrNothing,
        Out, Again, Eof
<1>4. CASE h = "set_property"
  BY <1>4, OnFields
     DEF AacEncOps, AacEncFits, Calls, To, Fine, Derived, AacSetProperty, Is, Ok, Fail,
        Outcome
<1> QED
  BY <1>1, <1>2, <1>3, <1>4
     DEF AacEncOps, NoHook

LEMMA OpusEncKeeps ==
    ASSUME NEW h, NEW s, NEW q, NEW in, NEW o, NEW v, NEW r \in OpusEncOps(h, q, in),
           AacEncFits(s, q, o), o \subseteq v, Calls({"sink"}, h, s, q, in, v)
    PROVE  Fine(AacEncFits, {"bitrate"}, {"bitrate"}, h, s, q, in, v, r)
<1>1. CASE h = "open"
  BY <1>1, OffFields, NullFields
     DEF OpusEncOps, AacEncFits, Calls, To, Fine, OpusEncOpen, Is, AacEncOpen, Ok, Outcome
<1>2. CASE h = "close"
  BY <1>2, OffFields, FreeFields, InsideFields
     DEF OpusEncOps, AacEncFits, Calls, To, Fine, OpusEncClose, Is, AacEncClose, Ok,
        FreeCodec, Outcome
<1>3. CASE h = "process"
  BY <1>3, OnFields, OffFields, GetFields, UseFields, ShedFields, InsideFields,
     MaxInsideAssumption
     DEF OpusEncOps, AacEncFits, Calls, To, Fine, OpusProcess, Is, AacProcess, Outcome, Ok,
        Fail, Then, Taken, CanTake, End, AacInitEncoder, AacMakeEos, AacReceivePacket,
        AllOrNothing, Out, Again, Eof
<1>4. CASE h = "set_property"
  BY <1>4, OnFields
     DEF OpusEncOps, AacEncFits, Calls, To, Fine, Derived, OpusSetProperty, Is,
        AacSetProperty, Ok, Fail, Outcome
<1> QED
  BY <1>1, <1>2, <1>3, <1>4
     DEF OpusEncOps, NoHook

LEMMA X264Keeps ==
    ASSUME NEW h, NEW s, NEW q, NEW in, NEW o, NEW v, NEW r \in X264Ops(h, q, in),
           X264Fits(s, q, o), o \subseteq v, Calls({"sink"}, h, s, q, in, v)
    PROVE  Fine(X264Fits, {"bframes", "output_nal_units"}, {"bframes"}, h, s, q, in, v, r)
<1>1. CASE h = "open"
  BY <1>1, OffFields, NullFields, ListedFields
     DEF X264Ops, X264Fits, Calls, To, Fine, X264Open, Is, Ok, PendingClear, Outcome
<1>2. CASE h = "close"
  BY <1>2, OffFields, FreeFields, InsideFields, ListedFields
     DEF X264Ops, X264Fits, Calls, To, Fine, X264Close, Is, Ok, FreeCodec, PendingClear,
        Outcome
<1>3. CASE h = "push"
  <2>1. r \in PushList(X264Process(q, in)) /\ s # "NULL" /\ X264Fits(s, q, v)
    BY <1>3 DEF X264Ops, X264SinkPush, Calls, X264Fits
  <2>2. \A t \in X264Process(q, in) : X264Fits(s, t.p, v) /\ Kept({"bframes", "output_nal_units"}, q, t.p)
    BY <2>1, X264ProcessKeeps
  <2>0. \A t \in X264Process(q, in) : Struct(t.p)
    BY <2>2 DEF X264Fits
  <2>3. PICK t \in X264Process(q, in) : Alike(t.p, r.p)
    BY <2>0, <2>1, PushListAlike
  <2>4. X264Fits(s, r.p, v) /\ Kept({"bframes", "output_nal_units"}, q, r.p)
    BY <2>2, <2>3, X264Alike, KeptTrans
  <2> QED
    BY <1>3, <2>4 DEF To, Fine, Kept
<1>4. CASE h = "set_property"
  BY <1>4, OnFields
     DEF X264Ops, X264Fits, Calls, To, Fine, Derived, X264SetProperty, Is, Ok, Fail,
        X264IsConfigProperty, Outcome
<1>5. CASE h = "event"
  BY <1>5, OnFields
     DEF X264Ops, X264Fits, Calls, To, Fine, X264Event, Is, Ok, Outcome
<1> QED
  BY <1>1, <1>2, <1>3, <1>4, <1>5
     DEF X264Ops, NoHook

LEMMA X265Keeps ==
    ASSUME NEW h, NEW s, NEW q, NEW in, NEW o, NEW v, NEW r \in X265Ops(h, q, in),
           X265Fits(s, q, o), o \subseteq v, Calls({"sink"}, h, s, q, in, v)
    PROVE  Fine(X265Fits, {"bframes", "output_nal_units"}, {"bframes"}, h, s, q, in, v, r)
<1>1. CASE h = "open"
  BY <1>1, OffFields, GetFields, NullFields, ListedFields
     DEF X265Ops, X265Fits, Calls, To, Fine, X265Open, Is, Ok, PendingClear, Outcome
<1>2. CASE h = "close"
  BY <1>2, OffFields, FreeFields, InsideFields, ListedFields
     DEF X265Ops, X265Fits, Calls, To, Fine, X265Close, Is, Ok, FreeCodec, PendingClear,
        Outcome
<1>3. CASE h = "push"
  <2>1. r \in PushList(X265Process(q, in)) /\ s # "NULL" /\ X265Fits(s, q, v)
    BY <1>3 DEF X265Ops, X265SinkPush, Calls, X265Fits
  <2>2. \A t \in X265Process(q, in) : X265Fits(s, t.p, v) /\ Kept({"bframes", "output_nal_units"}, q, t.p)
    BY <2>1, X265ProcessKeeps
  <2>0. \A t \in X265Process(q, in) : Struct(t.p)
    BY <2>2 DEF X265Fits
  <2>3. PICK t \in X265Process(q, in) : Alike(t.p, r.p)
    BY <2>0, <2>1, PushListAlike
  <2>4. X265Fits(s, r.p, v) /\ Kept({"bframes", "output_nal_units"}, q, r.p)
    BY <2>2, <2>3, X265Alike, KeptTrans
  <2> QED
    BY <1>3, <2>4 DEF To, Fine, Kept
<1>4. CASE h = "set_property"
  BY <1>4, OnFields
     DEF X265Ops, X265Fits, Calls, To, Fine, Derived, X265SetProperty, Is, Ok, Fail, Outcome
<1>5. CASE h = "event"
  BY <1>5, OnFields
     DEF X265Ops, X265Fits, Calls, To, Fine, X265Event, Is, Ok, Outcome
<1> QED
  BY <1>1, <1>2, <1>3, <1>4, <1>5
     DEF X265Ops, NoHook

LEMMA H265EncKeeps ==
    ASSUME NEW h, NEW s, NEW q, NEW in, NEW o, NEW v, NEW r \in H265EncOps(h, q, in),
           H265EncFits(s, q, o), o \subseteq v, Calls({"sink"}, h, s, q, in, v)
    PROVE  Fine(H265EncFits, {"crf"}, {}, h, s, q, in, v, r)
<1>1. CASE h = "open"
  BY <1>1, OffFields, NullFields, ListedFields
     DEF H265EncOps, H265EncFits, Calls, To, Fine, H265EncOpen, Is, Ok, PendingClear,
        Outcome
<1>2. CASE h = "close"
  BY <1>2, OffFields, FreeFields, InsideFields, ListedFields
     DEF H265EncOps, H265EncFits, Calls, To, Fine, H265EncClose, Is, Ok, FreeCodec,
        PendingClear, Outcome
<1>3. CASE h = "push"
  <2>1. r \in PushList(H265EncProcess(q, in)) /\ s # "NULL" /\ H265EncFits(s, q, v)
    BY <1>3 DEF H265EncOps, H265EncSinkPush, Calls, H265EncFits
  <2>2. \A t \in H265EncProcess(q, in) : H265EncFits(s, t.p, v) /\ Kept({"crf"}, q, t.p)
    BY <2>1, H265EncProcessKeeps
  <2>0. \A t \in H265EncProcess(q, in) : Struct(t.p)
    BY <2>2 DEF H265EncFits
  <2>3. PICK t \in H265EncProcess(q, in) : Alike(t.p, r.p)
    BY <2>0, <2>1, PushListAlike
  <2>4. H265EncFits(s, r.p, v) /\ Kept({"crf"}, q, r.p)
    BY <2>2, <2>3, H265EncAlike, KeptTrans
  <2> QED
    BY <1>3, <2>4 DEF To, Fine, Kept
<1>4. CASE h = "set_property"
  BY <1>4, OnFields
     DEF H265EncOps, H265EncFits, Calls, To, Fine, Derived, H265EncSetProperty, Is, Ok,
        Fail, Outcome
<1> QED
  BY <1>1, <1>2, <1>3, <1>4
     DEF H265EncOps, NoHook

LEMMA H264DecKeeps ==
    ASSUME NEW h, NEW s, NEW q, NEW in, NEW o, NEW v, NEW r \in H264DecOps(h, q, in),
           H264DecFits(s, q, o), o \subseteq v, Calls({"sink"}, h, s, q, in, v)
    PROVE  Fine(H264DecFits, {"threads"}, {"threads"}, h, s, q, in, v, r)
<1>1. CASE h = "open"
  BY <1>1, OffFields, NullFields
     DEF H264DecOps, H264DecFits, Calls, To, Fine, H264Open, Is, Ok, Outcome
<1>2. CASE h = "close"
  BY <1>2, OffFields, FreeFields, InsideFields
     DEF H264DecOps, H264DecFits, Calls, To, Fine, H264Close, Is, Ok, FreeCodec, Outcome
<1>3. CASE h = "push"
  <2>1. r \in PushOut(H264DecProcess(q, in)) /\ s # "NULL" /\ H264DecFits(s, q, v)
    BY <1>3 DEF H264DecOps, H264SinkPush, Calls, H264DecFits
  <2>2. \A t \in H264DecProcess(q, in) : H264DecFits(s, t.p, v) /\ Kept({"threads"}, q, t.p)
    BY <2>1, H264DecProcessKeeps
  <2>0. \A t \in H264DecProcess(q, in) : Struct(t.p)
    BY <2>2 DEF H264DecFits
  <2>3. PICK t \in H264DecProcess(q, in) : Alike(t.p, r.p)
    BY <2>0, <2>1, PushOutAlike
  <2>4. H264DecFits(s, r.p, v) /\ Kept({"threads"}, q, r.p)
    BY <2>2, <2>3, H264DecAlike, KeptTrans
  <2> QED
    BY <1>3, <2>4 DEF To, Fine, Kept
<1>4. CASE h = "set_property"
  BY <1>4, OnFields
     DEF H264DecOps, H264DecFits, Calls, To, Fine, Derived, H264DecSetProperty, Is, Ok,
        Outcome
<1> QED
  BY <1>1, <1>2, <1>3, <1>4
     DEF H264DecOps, NoHook

LEMMA H265DecKeeps ==
    ASSUME NEW h, NEW s, NEW q, NEW in, NEW o, NEW v, NEW r \in H265DecOps(h, q, in),
           H264DecFits(s, q, o), o \subseteq v, Calls({"sink"}, h, s, q, in, v)
    PROVE  Fine(H264DecFits, {"threads"}, {"threads"}, h, s, q, in, v, r)
<1>1. CASE h = "open"
  BY <1>1, OffFields, NullFields
     DEF H265DecOps, H264DecFits, Calls, To, Fine, H265DecOpen, Is, H264Open, Ok, Outcome
<1>2. CASE h = "close"
  BY <1>2, OffFields, FreeFields, InsideFields
     DEF H265DecOps, H264DecFits, Calls, To, Fine, H265DecClose, Is, H264Close, Ok,
        FreeCodec, Outcome
<1>3. CASE h = "push"
  <2>1. r \in PushOut(H264DecProcess(q, in)) /\ s # "NULL" /\ H264DecFits(s, q, v)
    BY <1>3 DEF H265DecOps, H265DecSinkPush, H264SinkPush, Calls, H264DecFits
  <2>2. \A t \in H264DecProcess(q, in) : H264DecFits(s, t.p, v) /\ Kept({"threads"}, q, t.p)
    BY <2>1, H264DecProcessKeeps
  <2>0. \A t \in H264DecProcess(q, in) : Struct(t.p)
    BY <2>2 DEF H264DecFits
  <2>3. PICK t \in H264DecProcess(q, in) : Alike(t.p, r.p)
    BY <2>0, <2>1, PushOutAlike
  <2>4. H264DecFits(s, r.p, v) /\ Kept({"threads"}, q, r.p)
    BY <2>2, <2>3, H264DecAlike, KeptTrans
  <2> QED
    BY <1>3, <2>4 DEF To, Fine, Kept
<1>4. CASE h = "set_property"
  BY <1>4, OnFields
     DEF H265DecOps, H264DecFits, Calls, To, Fine, Derived, H265DecSetProperty, Is,
        H264DecSetProperty, Ok, Outcome
<1> QED
  BY <1>1, <1>2, <1>3, <1>4
     DEF H265DecOps, NoHook

LEMMA AacDecKeeps ==
    ASSUME NEW h, NEW s, NEW q, NEW in, NEW o, NEW v, NEW r \in AacDecOps(h, q, in),
           AacDecFits(s, q, o), o \subseteq v, Calls({"sink"}, h, s, q, in, v)
    PROVE  Fine(AacDecFits, {"threads", "fixed_point"}, {"threads"}, h, s, q, in, v, r)
<1>1. CASE h = "open"
  BY <1>1, OffFields, NullFields
     DEF AacDecOps, AacDecFits, Calls, To, Fine, AacDecOpen, Is, Ok, Outcome
<1>2. CASE h = "close"
  BY <1>2, OffFields, FreeFields, InsideFields
     DEF AacDecOps, AacDecFits, Calls, To, Fine, AacDecClose, Is, Ok, FreeCodec, Outcome
<1>3. CASE h = "push"
  <2>1. r \in PushOut(AacDecProcess(q, in)) /\ s # "NULL" /\ AacDecFits(s, q, v)
    BY <1>3 DEF AacDecOps, AacDecSinkPush, Calls, AacDecFits
  <2>2. \A t \in AacDecProcess(q, in) : AacDecFits(s, t.p, v) /\ Kept({"threads", "fixed_point"}, q, t.p)
    BY <2>1, AacDecProcessKeeps
  <2>0. \A t \in AacDecProcess(q, in) : Struct(t.p)
    BY <2>2 DEF AacDecFits
  <2>3. PICK t \in AacDecProcess(q, in) : Alike(t.p, r.p)
    BY <2>0, <2>1, PushOutAlike
  <2>4. AacDecFits(s, r.p, v) /\ Kept({"threads", "fixed_point"}, q, r.p)
    BY <2>2, <2>3, AacDecAlike, KeptTrans
  <2> QED
    BY <1>3, <2>4 DEF To, Fine, Kept
<1>4. CASE h = "set_property"
  BY <1>4, OnFields
     DEF AacDecOps, AacDecFits, Calls, To, Fine, Derived, AacDecSetProperty, Is, Ok, Fail,
        Outcome
<1> QED
  BY <1>1, <1>2, <1>3, <1>4
     DEF AacDecOps, NoHook

LEMMA OpusDecKeeps ==
    ASSUME NEW h, NEW s, NEW q, NEW in, NEW o, NEW v, NEW r \in OpusDecOps(h, q, in),
           AacDecFits(s, q, o), o \subseteq v, Calls({"sink"}, h, s, q, in, v)
    PROVE  Fine(AacDecFits, {"threads"}, {"threads"}, h, s, q, in, v, r)
<1>1. CASE h = "open"
  BY <1>1, OffFields, NullFields
     DEF OpusDecOps, AacDecFits, Calls, To, Fine, OpusDecOpen, Is, AacDecOpen, Ok, Outcome
<1>2. CASE h = "close"
  BY <1>2, OffFields, FreeFields, InsideFields
     DEF OpusDecOps, AacDecFits, Calls, To, Fine, OpusDecClose, Is, AacDecClose, Ok,
        FreeCodec, Outcome
<1>3. CASE h = "push"
  <2>1. r \in PushOut(AacDecProcess(q, in)) /\ s # "NULL" /\ AacDecFits(s, q, v)
    BY <1>3 DEF OpusDecOps, OpusDecSinkPush, AacDecSinkPush, Calls, AacDecFits
  <2>2. \A t \in AacDecProcess(q, in) : AacDecFits(s, t.p, v) /\ Kept({"threads", "fixed_point"}, q, t.p)
    BY <2>1, AacDecProcessKeeps
  <2>0. \A t \in AacDecProcess(q, in) : Struct(t.p)
    BY <2>2 DEF AacDecFits
  <2>3. PICK t \in AacDecProcess(q, in) : Alike(t.p, r.p)
    BY <2>0, <2>1, PushOutAlike
  <2>4. AacDecFits(s, r.p, v) /\ Kept({"threads", "fixed_point"}, q, r.p)
    BY <2>2, <2>3, AacDecAlike, KeptTrans
  <2> QED
    BY <1>3, <2>4 DEF To, Fine, Kept
<1>4. CASE h = "set_property"
  BY <1>4, OnFields
     DEF OpusDecOps, AacDecFits, Calls, To, Fine, Derived, OpusDecSetProperty, Is, Ok,
        Outcome
<1> QED
  BY <1>1, <1>2, <1>3, <1>4
     DEF OpusDecOps, NoHook

LEMMA Vp8EncKeeps ==
    ASSUME NEW h, NEW s, NEW q, NEW in, NEW o, NEW v, NEW r \in Vp8EncOps(h, q, in),
           Vp8EncFits(s, q, o), o \subseteq v, Calls({"sink"}, h, s, q, in, v)
    PROVE  Fine(Vp8EncFits, {"size", "threads"}, {}, h, s, q, in, v, r)
<1>1. CASE h = "open"
  BY <1>1, OffFields, NullFields
     DEF Vp8EncOps, Vp8EncFits, Calls, To, Fine, Vp8EncOpen, Is, Ok, Outcome
<1>2. CASE h = "close"
  BY <1>2, OffFields, FreeFields, InsideFields
     DEF Vp8EncOps, Vp8EncFits, Calls, To, Fine, Vp8EncClose, Is, Ok, FreeCodec, Outcome
<1>3. CASE h = "process"
  BY <1>3, OnFields, GetFields, UseFields, ShedFields, InsideFields, MaxInsideAssumption
     DEF Vp8EncOps, Vp8EncFits, Calls, To, Fine, Vp8EncProcess, Is, Ok, Out, Vp8EncodeFrame,
        Outcome, Fail, Then, Taken, CanTake, Vp8InitEncoder, AllOrNothing
<1>4. CASE h = "set_property"
  BY <1>4, OnFields
     DEF Vp8EncOps, Vp8EncFits, Calls, To, Fine, Derived, Vp8EncSetProperty, Is, Ok, Outcome
<1> QED
  BY <1>1, <1>2, <1>3, <1>4
     DEF Vp8EncOps, NoHook

LEMMA Vp8DecKeeps ==
    ASSUME NEW h, NEW s, NEW q, NEW in, NEW o, NEW v, NEW r \in Vp8DecOps(h, q, in),
           Vp8DecFits(s, q, o), o \subseteq v, Calls({"sink"}, h, s, q, in, v)
    PROVE  Fine(Vp8DecFits, {"threads"}, {"threads"}, h, s, q, in, v, r)
<1>1. CASE h = "open"
  BY <1>1, OffFields, NullFields
     DEF Vp8DecOps, Vp8DecFits, Calls, To, Fine, Vp8DecOpen, Is, Ok, Outcome
<1>2. CASE h = "close"
  BY <1>2, OffFields, FreeFields, InsideFields
     DEF Vp8DecOps, Vp8DecFits, Calls, To, Fine, Vp8DecClose, Is, Ok, FreeCodec, Outcome
<1>3. CASE h = "process"
  BY <1>3, OnFields, GetFields, UseFields, ShedFields, InsideFields, MaxInsideAssumption
     DEF Vp8DecOps, Vp8DecFits, Calls, To, Fine, Vp8DecProcess, Is, Ok, Fail, Out, Then,
        Taken, CanTake, Vp8InitDecoder, Outcome, AllOrNothing
<1>4. CASE h = "set_property"
  BY <1>4, OnFields
     DEF Vp8DecOps, Vp8DecFits, Calls, To, Fine, Derived, Vp8DecSetProperty, Is, Ok, Outcome
<1> QED
  BY <1>1, <1>2, <1>3, <1>4
     DEF Vp8DecOps, NoHook

LEMMA Vp9EncKeeps ==
    ASSUME NEW h, NEW s, NEW q, NEW in, NEW o, NEW v, NEW r \in Vp9EncOps(h, q, in),
           Vp8EncFits(s, q, o), o \subseteq v, Calls({"sink"}, h, s, q, in, v)
    PROVE  Fine(Vp8EncFits, {"size", "threads"}, {}, h, s, q, in, v, r)
<1>1. CASE h = "open"
  BY <1>1, OffFields, NullFields
     DEF Vp9EncOps, Vp8EncFits, Calls, To, Fine, Vp9EncOpen, Is, Vp8EncOpen, Ok, Outcome
<1>2. CASE h = "close"
  BY <1>2, OffFields, FreeFields, InsideFields
     DEF Vp9EncOps, Vp8EncFits, Calls, To, Fine, Vp9EncClose, Is, Vp8EncClose, Ok,
        FreeCodec, Outcome
<1>3. CASE h = "process"
  BY <1>3, OnFields, GetFields, UseFields, ShedFields, InsideFields, MaxInsideAssumption
     DEF Vp9EncOps, Vp8EncFits, Calls, To, Fine, Vp9EncProcess, Is, Vp8EncProcess, Ok, Out,
        Vp8EncodeFrame, Outcome, Fail, Then, Taken, CanTake, Vp8InitEncoder, AllOrNothing
<1>4. CASE h = "set_property"
  BY <1>4, OnFields
     DEF Vp9EncOps, Vp8EncFits, Calls, To, Fine, Derived, Vp9EncSetProperty, Is,
        Vp8EncSetProperty, Ok, Outcome
<1> QED
  BY <1>1, <1>2, <1>3, <1>4
     DEF Vp9EncOps, NoHook

LEMMA Vp9DecKeeps ==
    ASSUME NEW h, NEW s, NEW q, NEW in, NEW o, NEW v, NEW r \in Vp9DecOps(h, q, in),
           Vp8DecFits(s, q, o), o \subseteq v, Calls({"sink"}, h, s, q, in, v)
    PROVE  Fine(Vp8DecFits, {"threads"}, {"threads"}, h, s, q, in, v, r)
<1>1. CASE h = "open"
  BY <1>1, OffFields, NullFields
     DEF Vp9DecOps, Vp8DecFits, Calls, To, Fine, Vp9DecOpen, Is, Vp8DecOpen, Ok, Outcome
<1>2. CASE h = "close"
  BY <1>2, OffFields, FreeFields, InsideFields
     DEF Vp9DecOps, Vp8DecFits, Calls, To, Fine, Vp9DecClose, Is, Vp8DecClose, Ok,
        FreeCodec, Outcome
<1>3. CASE h = "process"
  BY <1>3, OnFields, GetFields, UseFields, ShedFields, InsideFields, MaxInsideAssumption
     DEF Vp9DecOps, Vp8DecFits, Calls, To, Fine, Vp9DecProcess, Is, Vp8DecProcess, Ok, Fail,
        Out, Then, Taken, CanTake, Vp8InitDecoder, Outcome, AllOrNothing
<1>4. CASE h = "set_property"
  BY <1>4, OnFields
     DEF Vp9DecOps, Vp8DecFits, Calls, To, Fine, Derived, Vp9DecSetProperty, Is,
        Vp8DecSetProperty, Ok, Outcome
<1> QED
  BY <1>1, <1>2, <1>3, <1>4
     DEF Vp9DecOps, NoHook

LEMMA NvEncKeeps ==
    ASSUME NEW h, NEW s, NEW q, NEW in, NEW o, NEW v, NEW r \in NvEncOps(h, q, in),
           NvEncFits(s, q, o), o \subseteq v, Calls({"sink"}, h, s, q, in, v)
    PROVE  Fine(NvEncFits, {"codec"}, {}, h, s, q, in, v, r)
<1>1. CASE h = "open"
  BY <1>1, OffFields, GetFields, NullFields
     DEF NvEncOps, NvEncFits, Calls, To, Fine, NvEncOpen, Is, Ok, Fail, Outcome
<1>2. CASE h = "close"
  BY <1>2, OffFields, FreeFields, InsideFields
     DEF NvEncOps, NvEncFits, Calls, To, Fine, NvEncClose, Is, Ok, FreeCodec, Has, Outcome
<1>3. CASE h = "start"
  BY <1>3
     DEF NvEncOps, NvEncFits, Calls, To, Fine, NvEncStart, Is, Ok, Fail, Has, Outcome
<1>4. CASE h = "stop"
  BY <1>4, InsideFields
     DEF NvEncOps, NvEncFits, Calls, To, Fine, NvEncStop, Is, Ok, Has, Outcome
<1>5. CASE h = "push"
  <2>1. r \in PushOut(NvEncProcess(q, in)) /\ s # "NULL" /\ NvEncFits(s, q, v)
    BY <1>5 DEF NvEncOps, NvEncSinkPush, Calls, NvEncFits
  <2>2. \A t \in NvEncProcess(q, in) : NvEncFits(s, t.p, v) /\ Kept({"codec"}, q, t.p)
    BY <2>1, NvEncProcessKeeps
  <2>0. \A t \in NvEncProcess(q, in) : Struct(t.p)
    BY <2>2 DEF NvEncFits
  <2>3. PICK t \in NvEncProcess(q, in) : Alike(t.p, r.p)
    BY <2>0, <2>1, PushOutAlike
  <2>4. NvEncFits(s, r.p, v) /\ Kept({"codec"}, q, r.p)
    BY <2>2, <2>3, NvEncAlike, KeptTrans
  <2> QED
    BY <1>5, <2>4 DEF To, Fine, Kept
<1>6. CASE h = "set_property"
  BY <1>6, OnFields
     DEF NvEncOps, NvEncFits, Calls, To, Fine, Derived, NvEncSetProperty, Is, Ok, Outcome
<1> QED
  BY <1>1, <1>2, <1>3, <1>4, <1>5, <1>6
     DEF NvEncOps, NoHook

LEMMA NvDecKeeps ==
    ASSUME NEW h, NEW s, NEW q, NEW in, NEW o, NEW v, NEW r \in NvDecOps(h, q, in),
           NvDecFits(s, q, o), o \subseteq v, Calls({"sink"}, h, s, q, in, v)
    PROVE  Fine(NvDecFits, {"codec"}, {}, h, s, q, in, v, r)
<1>1. CASE h = "open"
  BY <1>1, OffFields, GetFields, NullFields
     DEF NvDecOps, NvDecFits, Calls, To, Fine, NvDecOpen, Is, Ok, Fail, Outcome
<1>2. CASE h = "close"
  BY <1>2, OffFields, FreeFields, InsideFields
     DEF NvDecOps, NvDecFits, Calls, To, Fine, NvDecClose, Is, Ok, FreeCodec, Has,
        NvDecCleanupBuffers, Outcome
<1>3. CASE h = "start"
  BY <1>3
     DEF NvDecOps, NvDecFits, Calls, To, Fine, NvDecStart, Is, Ok, Fail, Has, Outcome
<1>4. CASE h = "stop"
  BY <1>4, InsideFields
     DEF NvDecOps, NvDecFits, Calls, To, Fine, NvDecStop, Is, NvEncStop, Ok, Has, Outcome
<1>5. CASE h = "push"
  <2>1. r \in PushOut(NvDecProcess(q, in)) /\ s # "NULL" /\ NvDecFits(s, q, v)
    BY <1>5 DEF NvDecOps, NvDecSinkPush, Calls, NvDecFits
  <2>2. \A t \in NvDecProcess(q, in) : NvDecFits(s, t.p, v) /\ Kept({"codec"}, q, t.p)
    BY <2>1, NvDecProcessKeeps
  <2>0. \A t \in NvDecProcess(q, in) : Struct(t.p)
    BY <2>2 DEF NvDecFits
  <2>3. PICK t \in NvDecProcess(q, in) : Alike(t.p, r.p)
    BY <2>0, <2>1, PushOutAlike
  <2>4. NvDecFits(s, r.p, v) /\ Kept({"codec"}, q, r.p)
    BY <2>2, <2>3, NvDecAlike, KeptTrans
  <2> QED
    BY <1>5, <2>4 DEF To, Fine, Kept
<1>6. CASE h = "set_property"
  BY <1>6, OnFields
     DEF NvDecOps, NvDecFits, Calls, To, Fine, Derived, NvDecSetProperty, Is, Ok, Outcome
<1> QED
  BY <1>1, <1>2, <1>3, <1>4, <1>5, <1>6
     DEF NvDecOps, NoHook

LEMMA NvScaleKeeps ==
    ASSUME NEW h, NEW s, NEW q, NEW in, NEW o, NEW v, NEW r \in NvScaleOps(h, q, in),
           NvScaleFits(s, q, o), o \subseteq v, Calls({"sink"}, h, s, q, in, v)
    PROVE  Fine(NvScaleFits, {"width"}, {}, h, s, q, in, v, r)
<1>1. CASE h = "open"
  BY <1>1, OffFields, GetFields, NullFields
     DEF NvScaleOps, NvScaleFits, Calls, To, Fine, NvScaleOpen, Is, Ok, Fail, Outcome
<1>2. CASE h = "close"
  BY <1>2, OffFields, FreeFields, InsideFields
     DEF NvScaleOps, NvScaleFits, Calls, To, Fine, NvScaleClose, Is, Ok, FreeCodec, Has,
        Outcome
<1>3. CASE h = "start"
  BY <1>3
     DEF NvScaleOps, NvScaleFits, Calls, To, Fine, NvScaleStart, Is, Ok, Fail, Has, Outcome
<1>4. CASE h = "stop"
  BY <1>4, InsideFields
     DEF NvScaleOps, NvScaleFits, Calls, To, Fine, NvScaleStop, Is, NvEncStop, Ok, Has,
        Outcome
<1>5. CASE h = "push"
  <2>1. r \in PushOut(NvScaleProcess(q, in)) /\ s # "NULL" /\ NvScaleFits(s, q, v)
    BY <1>5 DEF NvScaleOps, NvScaleSinkPush, Calls, NvScaleFits
  <2>2. \A t \in NvScaleProcess(q, in) : NvScaleFits(s, t.p, v) /\ Kept({"width"}, q, t.p)
    BY <2>1, NvScaleProcessKeeps
  <2>0. \A t \in NvScaleProcess(q, in) : Struct(t.p)
    BY <2>2 DEF NvScaleFits
  <2>3. PICK t \in NvScaleProcess(q, in) : Alike(t.p, r.p)
    BY <2>0, <2>1, PushOutAlike
  <2>4. NvScaleFits(s, r.p, v) /\ Kept({"width"}, q, r.p)
    BY <2>2, <2>3, NvScaleAlike, KeptTrans
  <2> QED
    BY <1>5, <2>4 DEF To, Fine, Kept
<1>6. CASE h = "set_property"
  BY <1>6, OnFields
     DEF NvScaleOps, NvScaleFits, Calls, To, Fine, Derived, NvScaleSetProperty, Is, Ok,
        Outcome
<1> QED
  BY <1>1, <1>2, <1>3, <1>4, <1>5, <1>6
     DEF NvScaleOps, NoHook

LEMMA VaEncKeeps ==
    ASSUME NEW h, NEW s, NEW q, NEW in, NEW o, NEW v, NEW r \in VaEncOps(h, q, in),
           VaEncFits(s, q, o), o \subseteq v, Calls({"sink"}, h, s, q, in, v)
    PROVE  Fine(VaEncFits, {"device"}, {}, h, s, q, in, v, r)
<1>1. CASE h = "open"
  BY <1>1, OffFields, GetFields, NullFields, ListedFields
     DEF VaEncOps, VaEncFits, Calls, To, Fine, VaEncOpen, Is, AllOrNothing, PendingClear,
        Ok, Fail, Outcome
<1>2. CASE h = "close"
  BY <1>2, OffFields, FreeFields, InsideFields, ListedFields
     DEF VaEncOps, VaEncFits, Calls, To, Fine, VaEncClose, Is, Ok, FreeCodec, PendingClear,
        Outcome
<1>3. CASE h = "push"
  <2>1. r \in PushList(VaEncProcess(q, in)) /\ s # "NULL" /\ VaEncFits(s, q, v)
    BY <1>3 DEF VaEncOps, VaEncSinkPush, Calls, VaEncFits
  <2>2. \A t \in VaEncProcess(q, in) : VaEncFits(s, t.p, v) /\ Kept({"device"}, q, t.p)
    BY <2>1, VaEncProcessKeeps
  <2>0. \A t \in VaEncProcess(q, in) : Struct(t.p)
    BY <2>2 DEF VaEncFits
  <2>3. PICK t \in VaEncProcess(q, in) : Alike(t.p, r.p)
    BY <2>0, <2>1, PushListAlike
  <2>4. VaEncFits(s, r.p, v) /\ Kept({"device"}, q, r.p)
    BY <2>2, <2>3, VaEncAlike, KeptTrans
  <2> QED
    BY <1>3, <2>4 DEF To, Fine, Kept
<1>4. CASE h = "set_property"
  BY <1>4, OnFields
     DEF VaEncOps, VaEncFits, Calls, To, Fine, Derived, VaEncSetProperty, Is, Ok, Fail,
        Outcome
<1>5. CASE h = "event"
  BY <1>5, OnFields
     DEF VaEncOps, VaEncFits, Calls, To, Fine, VaEncEvent, Is, Ok, Outcome
<1> QED
  BY <1>1, <1>2, <1>3, <1>4, <1>5
     DEF VaEncOps, NoHook

LEMMA VaDecKeeps ==
    ASSUME NEW h, NEW s, NEW q, NEW in, NEW o, NEW v, NEW r \in VaDecOps(h, q, in),
           VaDecFits(s, q, o), o \subseteq v, Calls({"sink"}, h, s, q, in, v)
    PROVE  Fine(VaDecFits, {"codec", "dmabuf"}, {}, h, s, q, in, v, r)
<1>1. CASE h = "open"
  BY <1>1, OffFields, GetFields, NullFields
     DEF VaDecOps, VaDecFits, Calls, To, Fine, VaDecOpen, Is, Ok, Fail, Outcome
<1>2. CASE h = "close"
  BY <1>2, OffFields, FreeFields, InsideFields
     DEF VaDecOps, VaDecFits, Calls, To, Fine, VaDecClose, Is, Ok, FreeCodec, Outcome
<1>3. CASE h = "push"
  <2>1. r \in PushOut(VaDecProcess(q, in)) /\ s # "NULL" /\ VaDecFits(s, q, v)
    BY <1>3 DEF VaDecOps, VaDecSinkPush, Calls, VaDecFits
  <2>2. \A t \in VaDecProcess(q, in) : VaDecFits(s, t.p, v) /\ Kept({"codec", "dmabuf"}, q, t.p)
    BY <2>1, VaDecProcessKeeps
  <2>0. \A t \in VaDecProcess(q, in) : Struct(t.p)
    BY <2>2 DEF VaDecFits
  <2>3. PICK t \in VaDecProcess(q, in) : Alike(t.p, r.p)
    BY <2>0, <2>1, PushOutAlike
  <2>4. VaDecFits(s, r.p, v) /\ Kept({"codec", "dmabuf"}, q, r.p)
    BY <2>2, <2>3, VaDecAlike, KeptTrans
  <2> QED
    BY <1>3, <2>4 DEF To, Fine, Kept
<1>4. CASE h = "set_property"
  BY <1>4, OnFields
     DEF VaDecOps, VaDecFits, Calls, To, Fine, Derived, VaDecSetProperty, Is, Ok, Outcome
<1> QED
  BY <1>1, <1>2, <1>3, <1>4
     DEF VaDecOps, NoHook

LEMMA OneEncKeeps ==
    ASSUME NEW h, NEW s, NEW q, NEW in, NEW o, NEW v, NEW r \in OneEncOps(h, q, in),
           OneEncFits(s, q, o), o \subseteq v, Calls({"sink"}, h, s, q, in, v)
    PROVE  Fine(OneEncFits, {"codec"}, {}, h, s, q, in, v, r)
<1>1. CASE h = "open"
  BY <1>1, OnFields, OffFields, GetFields, NullFields, ListedFields
     DEF OneEncOps, OneEncFits, Calls, To, Fine, OneEncOpen, Is, PendingClear,
        OneEncCreateSession, Ok, Then, AllOrNothing, Outcome, Fail
<1>2. CASE h = "close"
  BY <1>2, OffFields, FreeFields, InsideFields, ListedFields
     DEF OneEncOps, OneEncFits, Calls, To, Fine, OneEncClose, Is, Ok, FreeCodec,
        PendingClear, Outcome
<1>3. CASE h = "push"
  <2>1. r \in PushList(OneEncProcess(q, in)) /\ s # "NULL" /\ OneEncFits(s, q, v)
    BY <1>3 DEF OneEncOps, OneEncSinkPush, Calls, OneEncFits
  <2>2. \A t \in OneEncProcess(q, in) : OneEncFits(s, t.p, v) /\ Kept({"codec"}, q, t.p)
    BY <2>1, OneEncProcessKeeps
  <2>0. \A t \in OneEncProcess(q, in) : Struct(t.p)
    BY <2>2 DEF OneEncFits
  <2>3. PICK t \in OneEncProcess(q, in) : Alike(t.p, r.p)
    BY <2>0, <2>1, PushListAlike
  <2>4. OneEncFits(s, r.p, v) /\ Kept({"codec"}, q, r.p)
    BY <2>2, <2>3, OneEncAlike, KeptTrans
  <2> QED
    BY <1>3, <2>4 DEF To, Fine, Kept
<1>4. CASE h = "set_property"
  BY <1>4, OnFields
     DEF OneEncOps, OneEncFits, Calls, To, Fine, Derived, OneEncSetProperty, Is, Ok, Fail,
        Outcome
<1>5. CASE h = "event"
  BY <1>5, OnFields
     DEF OneEncOps, OneEncFits, Calls, To, Fine, OneEncEvent, Is, Ok, Outcome
<1> QED
  BY <1>1, <1>2, <1>3, <1>4, <1>5
     DEF OneEncOps, NoHook

LEMMA OneDecKeeps ==
    ASSUME NEW h, NEW s, NEW q, NEW in, NEW o, NEW v, NEW r \in OneDecOps(h, q, in),
           OneDecFits(s, q, o), o \subseteq v, Calls({"sink"}, h, s, q, in, v)
    PROVE  Fine(OneDecFits, {"codec"}, {}, h, s, q, in, v, r)
<1>1. CASE h = "open"
  BY <1>1, OnFields, OffFields, GetFields, NullFields, ListedFields
     DEF OneDecOps, OneDecFits, Calls, To, Fine, OneDecOpen, Is, PendingClear,
        OneDecCreateSession, Ok, Then, AllOrNothing, Outcome, Fail
<1>2. CASE h = "close"
  BY <1>2, OffFields, FreeFields, InsideFields, ListedFields
     DEF OneDecOps, OneDecFits, Calls, To, Fine, OneDecClose, Is, Ok, FreeCodec,
        PendingClear, Outcome
<1>3. CASE h = "push"
  <2>1. r \in PushList(OneDecProcess(q, in)) /\ s # "NULL" /\ OneDecFits(s, q, v)
    BY <1>3 DEF OneDecOps, OneDecSinkPush, Calls, OneDecFits
  <2>2. \A t \in OneDecProcess(q, in) : OneDecFits(s, t.p, v) /\ Kept({"codec"}, q, t.p)
    BY <2>1, OneDecProcessKeeps
  <2>0. \A t \in OneDecProcess(q, in) : Struct(t.p)
    BY <2>2 DEF OneDecFits
  <2>3. PICK t \in OneDecProcess(q, in) : Alike(t.p, r.p)
    BY <2>0, <2>1, PushListAlike
  <2>4. OneDecFits(s, r.p, v) /\ Kept({"codec"}, q, r.p)
    BY <2>2, <2>3, OneDecAlike, KeptTrans
  <2> QED
    BY <1>3, <2>4 DEF To, Fine, Kept
<1>4. CASE h = "set_property"
  BY <1>4, OnFields
     DEF OneDecOps, OneDecFits, Calls, To, Fine, Derived, OneDecSetProperty, Is, Ok, Fail,
        Outcome
<1> QED
  BY <1>1, <1>2, <1>3, <1>4
     DEF OneDecOps, NoHook

LEMMA AlsaSinkKeeps ==
    ASSUME NEW h, NEW s, NEW q, NEW in, NEW o, NEW v, NEW r \in AlsaSinkOps(h, q, in),
           AlsaSinkFits(s, q, o), o \subseteq v, Calls({"sink"}, h, s, q, in, v)
    PROVE  Fine(AlsaSinkFits, {"device"}, {}, h, s, q, in, v, r)
<1>1. CASE h = "open"
  BY <1>1, OnFields, OffFields, GetFields, NullFields
     DEF AlsaSinkOps, AlsaSinkFits, Calls, To, Fine, AlsaSinkOpen, Is, Ok, Outcome
<1>2. CASE h = "close"
  BY <1>2, FreeFields
     DEF AlsaSinkOps, AlsaSinkFits, Calls, To, Fine, AlsaSinkClose, Is, Ok, Outcome
<1>3. CASE h = "start"
  BY <1>3, OnFields
     DEF AlsaSinkOps, AlsaSinkFits, Calls, To, Fine, AlsaSinkStart, Is, Ok, Outcome
<1>4. CASE h = "stop"
  BY <1>4, OffFields
     DEF AlsaSinkOps, AlsaSinkFits, Calls, To, Fine, AlsaSinkStop, Is, Ok, Outcome
<1>5. CASE h = "process"
  BY <1>5, UseFields
     DEF AlsaSinkOps, AlsaSinkFits, Calls, To, Fine, AlsaSinkProcess, Is, Ok, Fail, MayFail,
        Outcome
<1>6. CASE h = "set_property"
  BY <1>6, OnFields
     DEF AlsaSinkOps, AlsaSinkFits, Calls, To, Fine, Derived, AlsaSinkSetProperty, Is, Ok,
        Fail, Outcome
<1> QED
  BY <1>1, <1>2, <1>3, <1>4, <1>5, <1>6
     DEF AlsaSinkOps, NoHook

LEMMA AlsaSrcKeeps ==
    ASSUME NEW h, NEW s, NEW q, NEW in, NEW o, NEW v, NEW r \in AlsaSrcOps(h, q, in),
           AlsaSrcFits(s, q, o), o \subseteq v, Calls({}, h, s, q, in, v)
    PROVE  Fine(AlsaSrcFits, {"device"}, {}, h, s, q, in, v, r)
<1>1. CASE h = "open"
  BY <1>1, OnFields, OffFields, GetFields, NullFields
     DEF AlsaSrcOps, AlsaSrcFits, Calls, To, Fine, AlsaSrcOpen, Is, Ok, Outcome
<1>2. CASE h = "close"
  BY <1>2, FreeFields
     DEF AlsaSrcOps, AlsaSrcFits, Calls, To, Fine, AlsaSrcClose, Is, Ok, Outcome
<1>3. CASE h = "start"
  BY <1>3
     DEF AlsaSrcOps, AlsaSrcFits, Calls, To, Fine, AlsaSrcStart, Is, Ok, Outcome
<1>4. CASE h = "process"
  BY <1>4, UseFields
     DEF AlsaSrcOps, AlsaSrcFits, Calls, To, Fine, AlsaSrcProcess, Is, Fail, Out, Has,
        Outcome
<1>5. CASE h = "set_property"
  BY <1>5, OnFields
     DEF AlsaSrcOps, AlsaSrcFits, Calls, To, Fine, Derived, AlsaSrcSetProperty, Is, Ok,
        Fail, Outcome
<1> QED
  BY <1>1, <1>2, <1>3, <1>4, <1>5
     DEF AlsaSrcOps, NoHook

LEMMA V4l2SinkKeeps ==
    ASSUME NEW h, NEW s, NEW q, NEW in, NEW o, NEW v, NEW r \in V4l2SinkOps(h, q, in),
           V4l2SinkFits(s, q, o), o \subseteq v, Calls({"sink"}, h, s, q, in, v)
    PROVE  Fine(V4l2SinkFits, {"device", "userptr"}, {}, h, s, q, in, v, r)
<1>1. CASE h = "open"
  BY <1>1, OnFields, OffFields, GetFields
     DEF V4l2SinkOps, V4l2SinkFits, Calls, To, Fine, V4l2SinkOpen, Is, Ok, Outcome
<1>2. CASE h = "start"
  BY <1>2, OnFields, GetFields, UseFields, InsideFields
     DEF V4l2SinkOps, V4l2SinkFits, Calls, To, Fine, V4l2SinkStart, Is, Ok, Fail, Then,
        Outcome
<1>3. CASE h = "stop"
  BY <1>3, OffFields
     DEF V4l2SinkOps, V4l2SinkFits, Calls, To, Fine, V4l2SinkStop, Is, Ok, Outcome
<1>4. CASE h = "process"
  BY <1>4, UseFields, InsideFields, MaxInsideAssumption
     DEF V4l2SinkOps, V4l2SinkFits, Calls, To, Fine, V4l2SinkProcess, Is, Ok, Fail, Taken,
        CanTake, Outcome
<1>5. CASE h = "close"
  BY <1>5, FreeFields
     DEF V4l2SinkOps, V4l2SinkFits, Calls, To, Fine, V4l2SinkClose, Is, Ok, Outcome
<1>6. CASE h = "set_property"
  BY <1>6, OnFields
     DEF V4l2SinkOps, V4l2SinkFits, Calls, To, Fine, Derived, V4l2SinkSetProperty, Is, Ok,
        Fail, Outcome
<1> QED
  BY <1>1, <1>2, <1>3, <1>4, <1>5, <1>6
     DEF V4l2SinkOps, NoHook

LEMMA V4l2SrcKeeps ==
    ASSUME NEW h, NEW s, NEW q, NEW in, NEW o, NEW v, NEW r \in V4l2SrcOps(h, q, in),
           V4l2SrcFits(s, q, o), o \subseteq v, Calls({}, h, s, q, in, v)
    PROVE  Fine(V4l2SrcFits, {"userptr", "export"}, {}, h, s, q, in, v, r)
<1>1. CASE h = "open"
  BY <1>1, OnFields, OffFields, GetFields
     DEF V4l2SrcOps, V4l2SrcFits, Calls, To, Fine, Odd, V4l2SrcOpen, Is, Ok, Outcome
<1>2. CASE h = "close"
  BY <1>2, OffFields, FreeFields
     DEF V4l2SrcOps, V4l2SrcFits, Calls, To, Fine, Odd, V4l2SrcClose, Is, Ok,
        V4l2SrcCloseExportedFds, Outcome
<1>3. CASE h = "start"
  BY <1>3, OnFields, GetFields, UseFields
     DEF V4l2SrcOps, V4l2SrcFits, Calls, To, Fine, Odd, V4l2SrcStart, Is, Ok, Fail, MayFail,
        Then, Outcome
<1>4. CASE h = "stop"
  BY <1>4, OffFields
     DEF V4l2SrcOps, V4l2SrcFits, Calls, To, Fine, Odd, V4l2SrcStop, Is, Ok, Outcome
<1>5. CASE h = "process"
  BY <1>5, UseFields
     DEF V4l2SrcOps, V4l2SrcFits, Calls, To, Fine, Odd, V4l2SrcProcess, Is, Fail, Out, Has,
        Outcome
<1>6. CASE h = "set_property"
  BY <1>6, OnFields
     DEF V4l2SrcOps, V4l2SrcFits, Calls, To, Fine, Derived, Odd, V4l2SrcSetProperty, Is, Ok,
        Fail, Outcome
<1> QED
  BY <1>1, <1>2, <1>3, <1>4, <1>5, <1>6
     DEF V4l2SrcOps, NoHook

LEMMA X11Keeps ==
    ASSUME NEW h, NEW s, NEW q, NEW in, NEW o, NEW v, NEW r \in X11Ops(h, q, in),
           X11Fits(s, q, o), o \subseteq v, Calls({"sink"}, h, s, q, in, v)
    PROVE  Fine(X11Fits, {"title"}, {}, h, s, q, in, v, r)
<1>1. CASE h = "open"
  BY <1>1, OnFields, OffFields, GetFields
     DEF X11Ops, X11Fits, Calls, To, Fine, X11Open, Is, Ok, Outcome
<1>2. CASE h = "close"
  BY <1>2, OffFields, FreeFields
     DEF X11Ops, X11Fits, Calls, To, Fine, X11Close, Is, Ok, X11DestroyWindow, Outcome
<1>3. CASE h = "process"
  BY <1>3, OnFields, OffFields, GetFields, FreeFields, UseFields
     DEF X11Ops, X11Fits, Calls, To, Fine, X11Process, Is, Ok, Fail, MayFail, Then,
        X11ProcessEvents, X11Configure, Outcome, X11DestroyWindow, Has
<1>4. CASE h = "set_property"
  BY <1>4, OnFields
     DEF X11Ops, X11Fits, Calls, To, Fine, Derived, X11SetProperty, Is, Ok, Fail, Outcome
<1> QED
  BY <1>1, <1>2, <1>3, <1>4
     DEF X11Ops, NoHook

LEMMA FileSinkKeeps ==
    ASSUME NEW h, NEW s, NEW q, NEW in, NEW o, NEW v, NEW r \in FileSinkOps(h, q, in),
           FileSinkFits(s, q, o), o \subseteq v, Calls({"sink"}, h, s, q, in, v)
    PROVE  Fine(FileSinkFits, {"path"}, {}, h, s, q, in, v, r)
<1>1. CASE h = "open"
  BY <1>1, GetFields, NullFields
     DEF FileSinkOps, FileSinkFits, Calls, To, Fine, FileSinkOpen, AllOrNothing, Ok, Fail,
        Outcome
<1>2. CASE h = "close"
  BY <1>2, FreeFields
     DEF FileSinkOps, FileSinkFits, Calls, To, Fine, FileSinkClose, Ok, Outcome
<1>3. CASE h = "process"
  BY <1>3
     DEF FileSinkOps, FileSinkFits, Calls, To, Fine, FileSinkProcess, Fail, MayFail, Has,
        Outcome, Ok
<1>4. CASE h = "set_property"
  BY <1>4, OnFields
     DEF FileSinkOps, FileSinkFits, Calls, To, Fine, Derived, FileSinkSetProperty, Ok, Fail,
        Outcome
<1> QED
  BY <1>1, <1>2, <1>3, <1>4
     DEF FileSinkOps, NoHook

LEMMA FileSrcKeeps ==
    ASSUME NEW h, NEW s, NEW q, NEW in, NEW o, NEW v, NEW r \in FileSrcOps(h, q, in),
           FileSrcFits(s, q, o), o \subseteq v, Calls({}, h, s, q, in, v)
    PROVE  Fine(FileSrcFits, {"loop", "path"}, {}, h, s, q, in, v, r)
<1>1. CASE h = "open"
  BY <1>1, GetFields, NullFields
     DEF FileSrcOps, FileSrcFits, Calls, To, Fine, FileSrcOpen, AllOrNothing, Ok, Fail,
        Outcome
<1>2. CASE h = "close"
  BY <1>2, FreeFields
     DEF FileSrcOps, FileSrcFits, Calls, To, Fine, FileSrcClose, Ok, Outcome
<1>3. CASE h = "process"
  BY <1>3, UseFields
     DEF FileSrcOps, FileSrcFits, Calls, To, Fine, FileSrcProcess, Fail, Eof, Out, Has,
        Outcome
<1>4. CASE h = "set_property"
  BY <1>4, OnFields
     DEF FileSrcOps, FileSrcFits, Calls, To, Fine, Derived, FileSrcSetProperty, Ok, Fail,
        Outcome
<1> QED
  BY <1>1, <1>2, <1>3, <1>4
     DEF FileSrcOps, NoHook

LEMMA FakeSinkKeeps ==
    ASSUME NEW h, NEW s, NEW q, NEW in, NEW o, NEW v, NEW r \in FakeSinkOps(h, q, in),
           OwnsNothingFits(s, q, o), o \subseteq v, Calls({"sink"}, h, s, q, in, v)
    PROVE  Fine(OwnsNothingFits, {"drop_probability"}, {}, h, s, q, in, v, r)
<1>1. CASE h = "open"
  BY <1>1
     DEF FakeSinkOps, OwnsNothingFits, Calls, To, Fine, FakeSinkOpen, Ok, Outcome
<1>2. CASE h = "process"
  BY <1>2
     DEF FakeSinkOps, OwnsNothingFits, Calls, To, Fine, FakeSinkProcess, Ok, Outcome
<1>3. CASE h = "set_property"
  BY <1>3, OnFields
     DEF FakeSinkOps, OwnsNothingFits, Calls, To, Fine, Derived, FakeSinkSetProperty, Ok,
        Fail, Outcome
<1> QED
  BY <1>1, <1>2, <1>3
     DEF FakeSinkOps, NoHook

LEMMA TextSrcKeeps ==
    ASSUME NEW h, NEW s, NEW q, NEW in, NEW o, NEW v, NEW r \in TextSrcOps(h, q, in),
           TextSrcFits(s, q, o), o \subseteq v, Calls({}, h, s, q, in, v)
    PROVE  Fine(TextSrcFits, {"loop", "num_buffers"}, {}, h, s, q, in, v, r)
<1>1. CASE h = "open"
  BY <1>1, OffFields, GetFields
     DEF TextSrcOps, TextSrcFits, Calls, To, Fine, TextSrcOpen, Ok, Then, AllOrNothing,
        Outcome, Fail
<1>2. CASE h = "close"
  BY <1>2, FreeFields
     DEF TextSrcOps, TextSrcFits, Calls, To, Fine, TextSrcClose, Ok, Outcome
<1>3. CASE h = "process"
  BY <1>3, OnFields, OffFields, UseFields
     DEF TextSrcOps, TextSrcFits, Calls, To, Fine, TextSrcProcess, Ok, Fail, Out, Is,
        Outcome
<1>4. CASE h = "set_property"
  BY <1>4, OnFields
     DEF TextSrcOps, TextSrcFits, Calls, To, Fine, Derived, TextSrcSetProperty, Ok, Fail,
        Outcome
<1> QED
  BY <1>1, <1>2, <1>3, <1>4
     DEF TextSrcOps, NoHook

LEMMA GlSinkKeeps ==
    ASSUME NEW h, NEW s, NEW q, NEW in, NEW o, NEW v, NEW r \in GlSinkOps(h, q, in),
           GlSinkFits(s, q, o), o \subseteq v, Calls({"sink"}, h, s, q, in, v)
    PROVE  Fine(GlSinkFits, {"vsync"}, {}, h, s, q, in, v, r)
<1>1. CASE h = "open"
  BY <1>1, OnFields, OffFields, GetFields, NullFields
     DEF GlSinkOps, GlSinkFits, Calls, To, Fine, GlSinkOpen, Ok, GlSinkBuildShaders,
        GlSinkCreateTextures, Outcome, Fail, Is, Has
<1>2. CASE h = "close"
  BY <1>2, OffFields, FreeFields
     DEF GlSinkOps, GlSinkFits, Calls, To, Fine, GlSinkClose, Ok, Outcome
<1>3. CASE h = "process"
  BY <1>3, GetFields, UseFields
     DEF GlSinkOps, GlSinkFits, Calls, To, Fine, GlSinkProcess, Ok, Then, Has, Is,
        GlSinkCreateTextures, GlSinkCheckEvents, Outcome, Eof
<1>4. CASE h = "set_property"
  BY <1>4, OnFields
     DEF GlSinkOps, GlSinkFits, Calls, To, Fine, Derived, GlSinkSetProperty, Ok, Fail,
        Outcome
<1> QED
  BY <1>1, <1>2, <1>3, <1>4
     DEF GlSinkOps, NoHook

LEMMA HlsKeeps ==
    ASSUME NEW h, NEW s, NEW q, NEW in, NEW o, NEW v, NEW r \in HlsOps(h, q, in),
           HlsFits(s, q, o), o \subseteq v, Calls(HlsPads, h, s, q, in, v)
    PROVE  Fine(HlsFits, {"location"}, {}, h, s, q, in, v, r)
<1>1. CASE h = "start"
  BY <1>1, OnFields, OffFields
     DEF HlsOps, HlsFits, Calls, To, Fine, HlsStart, Is, HlsPads, Ok, PadFlags,
        HlsSampleLinks, Outcome, PadFlag, PadFields
<1>2. CASE h = "stop"
  BY <1>2, OffFields, FreeFields
     DEF HlsOps, HlsFits, Calls, To, Fine, HlsStop, Is, HlsPads, Ok, Outcome
<1>3. CASE h = "push"
  BY <1>3, OnFields, OffFields, GetFields, UseFields, SendFields, AvFlags
     DEF HlsOps, HlsFits, Calls, To, Fine, HlsVideoPush, HlsAudioPush, Is, HlsPads, Ok,
        Then, HlsParseExtradata, HlsWriteHeader, HlsWrite, HlsCheckEos, Has, Outcome,
        AllOrNothing, Fail, HlsSampleLinks, MayFail, PadFlag
<1>4. CASE h = "set_property"
  BY <1>4, OnFields
     DEF HlsOps, HlsFits, Calls, To, Fine, Derived, HlsSetProperty, Is, HlsPads, Ok, Fail,
        Outcome
<1> QED
  BY <1>1, <1>2, <1>3, <1>4
     DEF HlsOps, NoHook

LEMMA AudioTestKeeps ==
    ASSUME NEW h, NEW s, NEW q, NEW in, NEW o, NEW v, NEW r \in AudioTestOps(h, q, in),
           AudioTestFits(s, q, o), o \subseteq v, Calls({}, h, s, q, in, v)
    PROVE  Fine(AudioTestFits, {"loop", "num_buffers"}, {}, h, s, q, in, v, r)
<1>1. CASE h = "open"
  BY <1>1, OffFields, GetFields, FreeFields
     DEF AudioTestOps, AudioTestFits, Calls, To, Fine, AudioTestOpen, AudioTestCreatePool,
        AllOrNothing, Ok, Fail, Outcome
<1>2. CASE h = "close"
  BY <1>2, FreeFields
     DEF AudioTestOps, AudioTestFits, Calls, To, Fine, AudioTestClose, Ok, Outcome
<1>3. CASE h = "start"
  BY <1>3, OffFields
     DEF AudioTestOps, AudioTestFits, Calls, To, Fine, AudioTestStart, Ok, Outcome
<1>4. CASE h = "stop"
  BY <1>4, OnFields
     DEF AudioTestOps, AudioTestFits, Calls, To, Fine, AudioTestStop, Ok, Outcome
<1>5. CASE h = "process"
  BY <1>5, OnFields, OffFields
     DEF AudioTestOps, AudioTestFits, Calls, To, Fine, AudioTestProcess, Fail, Eof, Out,
        Has, Is, Outcome
<1>6. CASE h = "set_property"
  BY <1>6, OnFields, GetFields, FreeFields
     DEF AudioTestOps, AudioTestFits, Calls, To, Fine, Derived, AudioTestSetProperty, Ok,
        Fail, Has, AudioTestCreatePool, Outcome, AllOrNothing
<1> QED
  BY <1>1, <1>2, <1>3, <1>4, <1>5, <1>6
     DEF AudioTestOps, NoHook

LEMMA VideoTestKeeps ==
    ASSUME NEW h, NEW s, NEW q, NEW in, NEW o, NEW v, NEW r \in VideoTestOps(h, q, in),
           VideoTestFits(s, q, o), o \subseteq v, Calls({}, h, s, q, in, v)
    PROVE  Fine(VideoTestFits, {"pixel_format", "loop", "num_buffers"}, {}, h, s, q, in, v, r)
<1>1. CASE h = "open"
  BY <1>1, OffFields, GetFields
     DEF VideoTestOps, VideoTestFits, Calls, To, Fine, VideoTestOpen, Ok, Fail, Is, Outcome
<1>2. CASE h = "close"
  BY <1>2, FreeFields
     DEF VideoTestOps, VideoTestFits, Calls, To, Fine, VideoTestClose, Ok, Outcome
<1>3. CASE h = "start"
  BY <1>3
     DEF VideoTestOps, VideoTestFits, Calls, To, Fine, VideoTestStart, Ok, Outcome
<1>4. CASE h = "process"
  BY <1>4, OnFields, OffFields
     DEF VideoTestOps, VideoTestFits, Calls, To, Fine, VideoTestProcess, Fail, Eof, Out,
        Has, Is, Outcome
<1>5. CASE h = "set_property"
  BY <1>5, OnFields
     DEF VideoTestOps, VideoTestFits, Calls, To, Fine, Derived, VideoTestSetProperty, Ok,
        Fail, Outcome
<1> QED
  BY <1>1, <1>2, <1>3, <1>4, <1>5
     DEF VideoTestOps, NoHook

LEMMA ScKeeps ==
    ASSUME NEW h, NEW s, NEW q, NEW in, NEW o, NEW v, NEW r \in ScOps(h, q, in),
           ScFits(s, q, o), o \subseteq v, Calls({}, h, s, q, in, v)
    PROVE  Fine(ScFits, {"mock"}, {}, h, s, q, in, v, r)
<1>1. CASE h = "open"
  BY <1>1, OnFields, OffFields, GetFields, NullFields
     DEF ScOps, ScFits, Calls, To, Fine, ScOpen, Ok, Is, Outcome
<1>2. CASE h = "close"
  BY <1>2, OnFields, FreeFields
     DEF ScOps, ScFits, Calls, To, Fine, ScClose, Ok, Outcome
<1>3. CASE h = "start"
  BY <1>3, GetFields
     DEF ScOps, ScFits, Calls, To, Fine, ScStart, Ok, Fail, Outcome
<1>4. CASE h = "stop"
  BY <1>4, FreeFields, StrayFields
     DEF ScOps, ScFits, Calls, To, Fine, ScStop, Ok, ScTeardownCaptureBranch, Outcome,
        ScVideo, ScAudio, ScLock, Is
<1>5. CASE h = "process"
  BY <1>5
     DEF ScOps, ScFits, Calls, To, Fine, ScProcess, Ok, Outcome
<1>6. CASE h = "thread"
  BY <1>6, OnFields, OffFields, GetFields, FreeFields, StrayFields
     DEF ScOps, ScFits, Calls, To, Fine, ScThread, Has, NoHook, ScCheckSignal, Ok, Is,
        ScLock, ScTeardownCaptureBranch, ScReconfigureCaptureBranch, Outcome, ScVideo,
        ScAudio
<1>7. CASE h = "set_property"
  BY <1>7, OnFields, StrayFields
     DEF ScOps, ScFits, Calls, To, Fine, Derived, ScSetProperty, Ok, Fail, ScLock, Outcome,
        Is
<1> QED
  BY <1>1, <1>2, <1>3, <1>4, <1>5, <1>6, <1>7
     DEF ScOps, NoHook

LEMMA NetSrcKeeps ==
    ASSUME NEW h, NEW s, NEW q, NEW in, NEW o, NEW v, NEW r \in NetSrcOps(h, q, in),
           NetSrcFits(s, q, o), o \subseteq v, Calls({}, h, s, q, in, v)
    PROVE  Fine(NetSrcFits, {"server", "udp"}, {}, h, s, q, in, v, r)
<1>1. CASE h = "open"
  BY <1>1, GetFields, FreeFields, NullFields
     DEF NetSrcOps, NetSrcFits, Calls, To, Fine, NetSrcOpen, Ok, Then, Is, AllOrNothing,
        NetSrcCreateListenSocket, NetSrcCreateUdpListenerSocket, Outcome, Fail,
        NetSrcCloseListen, NetSrcCloseConnection
<1>2. CASE h = "close"
  BY <1>2, FreeFields
     DEF NetSrcOps, NetSrcFits, Calls, To, Fine, NetSrcClose, Ok, NetSrcCloseConnection,
        NetSrcCloseListen, Outcome
<1>3. CASE h = "start"
  BY <1>3
     DEF NetSrcOps, NetSrcFits, Calls, To, Fine, NetSrcStart, Ok, Outcome
<1>4. CASE h = "stop"
  BY <1>4, FreeFields
     DEF NetSrcOps, NetSrcFits, Calls, To, Fine, NetSrcStop, Ok, NetSrcCloseConnection,
        Outcome
<1>5. CASE h = "process"
  BY <1>5, GetFields, FreeFields, UseFields
     DEF NetSrcOps, NetSrcFits, Calls, To, Fine, NetSrcProcess, Fail, Again, Eof, Out, Then,
        Is, NetSrcCloseConnection, NetSrcEnsureConnection, Outcome, Ok, Has,
        NetSrcCreateUdpListenerSocket, NetSrcConnectSocket, NetSrcAcceptConnection,
        AllOrNothing
<1>6. CASE h = "set_property"
  BY <1>6, OnFields
     DEF NetSrcOps, NetSrcFits, Calls, To, Fine, Derived, NetSrcSetProperty, Ok, Fail,
        Outcome
<1> QED
  BY <1>1, <1>2, <1>3, <1>4, <1>5, <1>6
     DEF NetSrcOps, NoHook

LEMMA NetSinkKeeps ==
    ASSUME NEW h, NEW s, NEW q, NEW in, NEW o, NEW v, NEW r \in NetSinkOps(h, q, in),
           NetSinkFits(s, q, o), o \subseteq v, Calls({"sink"}, h, s, q, in, v)
    PROVE  Fine(NetSinkFits, {"server", "udp", "timestamp_pacing"}, {}, h, s, q, in, v, r)
<1>1. CASE h = "open"
  BY <1>1, OffFields, GetFields, FreeFields, NullFields
     DEF NetSinkOps, NetSinkFits, Calls, To, Fine, NetSinkOpen, Ok, Is, AllOrNothing,
        NetSinkCreateListenSocket, Outcome, Fail, NetSinkCloseListen
<1>2. CASE h = "close"
  BY <1>2, FreeFields
     DEF NetSinkOps, NetSinkFits, Calls, To, Fine, NetSinkClose, Ok, NetSinkCloseConnection,
        NetSinkCloseListen, Outcome
<1>3. CASE h = "start"
  BY <1>3, OffFields
     DEF NetSinkOps, NetSinkFits, Calls, To, Fine, NetSinkStart, Ok, Outcome
<1>4. CASE h = "stop"
  BY <1>4, FreeFields
     DEF NetSinkOps, NetSinkFits, Calls, To, Fine, NetSinkStop, Ok, NetSinkCloseConnection,
        Outcome
<1>5. CASE h = "process"
  BY <1>5, OnFields, OffFields, GetFields, FreeFields, UseFields
     DEF NetSinkOps, NetSinkFits, Calls, To, Fine, NetSinkProcess, Ok, Fail, Again, Then,
        Is, NetSinkCloseConnection, NetSinkEnsureConnection, NetSinkUdpServer,
        NetSinkUdpClient, Outcome, Has, NetSinkConnectSocket, NetSinkAcceptConnection,
        NetSinkPaceUdpBuffer
<1>6. CASE h = "set_property"
  BY <1>6, OnFields
     DEF NetSinkOps, NetSinkFits, Calls, To, Fine, Derived, NetSinkSetProperty, Ok, Fail,
        Outcome
<1> QED
  BY <1>1, <1>2, <1>3, <1>4, <1>5, <1>6
     DEF NetSinkOps, NoHook

LEMMA SrtSrcKeeps ==
    ASSUME NEW h, NEW s, NEW q, NEW in, NEW o, NEW v, NEW r \in SrtSrcOps(h, q, in),
           SrtSrcFits(s, q, o), o \subseteq v, Calls({}, h, s, q, in, v)
    PROVE  Fine(SrtSrcFits, {"listener"}, {}, h, s, q, in, v, r)
<1>1. CASE h = "open"
  BY <1>1, OffFields, GetFields, NullFields
     DEF SrtSrcOps, SrtSrcFits, Calls, To, Fine, SrtSrcOpen, Is, AllOrNothing, Ok, Fail,
        Outcome
<1>2. CASE h = "close"
  BY <1>2, FreeFields
     DEF SrtSrcOps, SrtSrcFits, Calls, To, Fine, SrtSrcClose, Is, Ok, Outcome
<1>3. CASE h = "start"
  BY <1>3, OffFields
     DEF SrtSrcOps, SrtSrcFits, Calls, To, Fine, SrtSrcStart, Is, Ok, Outcome
<1>4. CASE h = "stop"
  BY <1>4, OffFields, FreeFields
     DEF SrtSrcOps, SrtSrcFits, Calls, To, Fine, SrtSrcStop, Is, Ok, Outcome
<1>5. CASE h = "process"
  BY <1>5, OnFields, OffFields, GetFields, FreeFields, UseFields
     DEF SrtSrcOps, SrtSrcFits, Calls, To, Fine, SrtSrcProcess, Is, Fail, Again, Eof, Out,
        Then, SrtSrcEnsureConnection, Outcome, Ok, Has
<1>6. CASE h = "set_property"
  BY <1>6, OnFields
     DEF SrtSrcOps, SrtSrcFits, Calls, To, Fine, Derived, SrtSrcSetProperty, Is, Ok, Fail,
        Outcome
<1> QED
  BY <1>1, <1>2, <1>3, <1>4, <1>5, <1>6
     DEF SrtSrcOps, NoHook

LEMMA SrtSinkKeeps ==
    ASSUME NEW h, NEW s, NEW q, NEW in, NEW o, NEW v, NEW r \in SrtSinkOps(h, q, in),
           SrtSinkFits(s, q, o), o \subseteq v, Calls({"sink"}, h, s, q, in, v)
    PROVE  Fine(SrtSinkFits, {"listener"}, {}, h, s, q, in, v, r)
<1>1. CASE h = "open"
  BY <1>1, OffFields, GetFields, NullFields
     DEF SrtSinkOps, SrtSinkFits, Calls, To, Fine, SrtSinkOpen, Is, AllOrNothing, Ok, Fail,
        Outcome
<1>2. CASE h = "close"
  BY <1>2, FreeFields
     DEF SrtSinkOps, SrtSinkFits, Calls, To, Fine, SrtSinkClose, Is, Ok, Outcome
<1>3. CASE h = "start"
  BY <1>3, OffFields
     DEF SrtSinkOps, SrtSinkFits, Calls, To, Fine, SrtSinkStart, Is, Ok, Outcome
<1>4. CASE h = "stop"
  BY <1>4, OffFields, FreeFields
     DEF SrtSinkOps, SrtSinkFits, Calls, To, Fine, SrtSinkStop, Is, Ok, Outcome
<1>5. CASE h = "process"
  BY <1>5, OnFields, OffFields, GetFields, FreeFields, UseFields
     DEF SrtSinkOps, SrtSinkFits, Calls, To, Fine, SrtSinkProcess, Is, Ok, Again, Then,
        SrtSinkEnsureConnection, Outcome, Fail, Has
<1>6. CASE h = "set_property"
  BY <1>6, OnFields
     DEF SrtSinkOps, SrtSinkFits, Calls, To, Fine, Derived, SrtSinkSetProperty, Is, Ok,
        Fail, Outcome
<1> QED
  BY <1>1, <1>2, <1>3, <1>4, <1>5, <1>6
     DEF SrtSinkOps, NoHook

LEMMA HttpKeeps ==
    ASSUME NEW h, NEW s, NEW q, NEW in, NEW o, NEW v, NEW r \in HttpOps(h, q, in),
           HttpFits(s, q, o), o \subseteq v, Calls({}, h, s, q, in, v)
    PROVE  Fine(HttpFits, {"url", "reconnect"}, {}, h, s, q, in, v, r)
<1>1. CASE h = "open"
  BY <1>1, GetFields, FreeFields
     DEF HttpOps, HttpFits, Calls, To, Fine, HttpOpen, Ok, Fail, Then, HttpConnect, Outcome,
        Is, AllOrNothing
<1>2. CASE h = "close"
  BY <1>2, FreeFields
     DEF HttpOps, HttpFits, Calls, To, Fine, HttpClose, Ok, Outcome
<1>3. CASE h = "process"
  BY <1>3, GetFields, FreeFields, UseFields
     DEF HttpOps, HttpFits, Calls, To, Fine, HttpProcess, Fail, Eof, Out, Then, Has, Is,
        HttpConnect, Outcome, AllOrNothing, Ok
<1>4. CASE h = "set_property"
  BY <1>4, OnFields
     DEF HttpOps, HttpFits, Calls, To, Fine, Derived, HttpSetProperty, Ok, Fail, Outcome
<1> QED
  BY <1>1, <1>2, <1>3, <1>4
     DEF HttpOps, NoHook

LEMMA RtmpSrcKeeps ==
    ASSUME NEW h, NEW s, NEW q, NEW in, NEW o, NEW v, NEW r \in RtmpSrcOps(h, q, in),
           RtmpSrcFits(s, q, o), o \subseteq v, Calls({}, h, s, q, in, v)
    PROVE  Fine(RtmpSrcFits, {"url", "reconnect"}, {}, h, s, q, in, v, r)
<1>1. CASE h = "open"
  BY <1>1, GetFields, FreeFields
     DEF RtmpSrcOps, RtmpSrcFits, Calls, To, Fine, RtmpSrcOpen, Is, Ok, Fail, Has,
        RtmpSrcConnect, Outcome, AllOrNothing, RtmpSrcCloseInput
<1>2. CASE h = "close"
  BY <1>2, FreeFields
     DEF RtmpSrcOps, RtmpSrcFits, Calls, To, Fine, RtmpSrcClose, Is, Ok, RtmpSrcCloseInput,
        Outcome
<1>3. CASE h = "start"
  BY <1>3, OnFields, GetFields
     DEF RtmpSrcOps, RtmpSrcFits, Calls, To, Fine, RtmpSrcStart, Is, Ok, Outcome
<1>4. CASE h = "stop"
  BY <1>4, OffFields, FreeFields, UseFields, ShedFields, SendFields
     DEF RtmpSrcOps, RtmpSrcFits, Calls, To, Fine, RtmpSrcStop, Is, Ok, Regardless,
        RtmpSrcEnded, Outcome, Push, Fail
<1>5. CASE h = "thread"
  <2>1. r \in RtmpSrcThread(q)
    BY <1>5 DEF RtmpSrcOps
  <2>2. RtmpSrcFits(s, q, v)
    BY DEF RtmpSrcFits
  <2>3. RtmpSrcFits(s, r.p, v) /\ Kept({"url", "reconnect"}, q, r.p)
    BY <2>1, <2>2, RtmpSrcThreadKeeps
  <2> QED
    BY <1>5, <2>3 DEF To, Fine, Kept
<1>6. CASE h = "set_property"
  BY <1>6, OnFields
     DEF RtmpSrcOps, RtmpSrcFits, Calls, To, Fine, Derived, RtmpSrcSetProperty, Is, Ok,
        Fail, Outcome
<1> QED
  BY <1>1, <1>2, <1>3, <1>4, <1>5, <1>6
     DEF RtmpSrcOps, NoHook

LEMMA RtmpSinkKeeps ==
    ASSUME NEW h, NEW s, NEW q, NEW in, NEW o, NEW v, NEW r \in RtmpSinkOps(h, q, in),
           RtmpSinkFits(s, q, o), o \subseteq v, Calls(RtmpPads, h, s, q, in, v)
    PROVE  Fine(RtmpSinkFits, {"url", "reconnect"}, {}, h, s, q, in, v, r)
<1>1. CASE h = "open"
  BY <1>1, GetFields
     DEF RtmpSinkOps, RtmpSinkFits, Calls, To, Fine, RtmpSinkOpen, Is, RtmpPads, Ok, Outcome
<1>2. CASE h = "close"
  BY <1>2, FreeFields
     DEF RtmpSinkOps, RtmpSinkFits, Calls, To, Fine, RtmpSinkClose, Is, RtmpPads, Ok,
        Outcome
<1>3. CASE h = "start"
  BY <1>3, OnFields, OffFields
     DEF RtmpSinkOps, RtmpSinkFits, Calls, To, Fine, RtmpSinkStart, Is, RtmpPads, Ok, Fail,
        PadFlags, Outcome, PadFlag, PadFields
<1>4. CASE h = "stop"
  BY <1>4, OffFields, FreeFields, UseFields
     DEF RtmpSinkOps, RtmpSinkFits, Calls, To, Fine, RtmpSinkStop, Is, RtmpPads, Ok, Outcome
<1>5. CASE h = "push"
  <2>1. r \in RtmpSinkVideoPush(q, in.kind) \cup RtmpSinkAudioPush(q, in.kind)
    BY <1>5 DEF RtmpSinkOps
  <2>2. /\ s = "PLAYING" \/ v # {}
        /\ q.links \subseteq {"video", "audio"} /\ s # "NULL"
    BY <1>5 DEF Calls, RtmpPads
  <2>4. RtmpSinkFits(s, q, v)
    BY DEF RtmpSinkFits
  <2>3. RtmpSinkFits(s, r.p, v) /\ Kept({"url", "reconnect"}, q, r.p)
    BY <2>1, <2>2, <2>4, RtmpSinkPushKeeps
  <2> QED
    BY <1>5, <2>3 DEF To, Fine, Kept
<1>6. CASE h = "set_property"
  BY <1>6, OnFields
     DEF RtmpSinkOps, RtmpSinkFits, Calls, To, Fine, Derived, RtmpSinkSetProperty, Is,
        RtmpPads, Ok, Fail, Outcome
<1> QED
  BY <1>1, <1>2, <1>3, <1>4, <1>5, <1>6
     DEF RtmpSinkOps, NoHook

LEMMA ScalerKeeps ==
    ASSUME NEW h, NEW s, NEW q, NEW in, NEW o, NEW v, NEW r \in ScalerOps(h, q, in),
           ScalerFits(s, q, o), o \subseteq v, Calls({"sink"}, h, s, q, in, v)
    PROVE  Fine(ScalerFits, {"target"}, {}, h, s, q, in, v, r)
<1>1. CASE h = "open"
  BY <1>1, NullFields
     DEF ScalerOps, ScalerFits, Calls, To, Fine, ScalerOpen, Ok, Outcome
<1>2. CASE h = "close"
  BY <1>2, FreeFields
     DEF ScalerOps, ScalerFits, Calls, To, Fine, ScalerClose, Ok, Outcome
<1>3. CASE h = "process"
  BY <1>3, GetFields, FreeFields
     DEF ScalerOps, ScalerFits, Calls, To, Fine, ScalerProcess, Fail, Out, Then, Regardless,
        Refit, Outcome, Ok, Has, AllOrNothing
<1>4. CASE h = "set_property"
  BY <1>4, OnFields
     DEF ScalerOps, ScalerFits, Calls, To, Fine, Derived, ScalerSetProperty, Ok, Fail,
        Outcome
<1> QED
  BY <1>1, <1>2, <1>3, <1>4
     DEF ScalerOps, NoHook

LEMMA ResamplerKeeps ==
    ASSUME NEW h, NEW s, NEW q, NEW in, NEW o, NEW v, NEW r \in ResamplerOps(h, q, in),
           ResamplerFits(s, q, o), o \subseteq v, Calls({"sink"}, h, s, q, in, v)
    PROVE  Fine(ResamplerFits, {"rate", "asrc", "block_samples", "sample_rate"}, {"rate"}, h, s, q, in, v, r)
<1>1. CASE h = "open"
  BY <1>1, NullFields
     DEF ResamplerOps, ResamplerFits, Calls, To, Fine, ResamplerOpen, Ok, Outcome
<1>2. CASE h = "close"
  BY <1>2, FreeFields
     DEF ResamplerOps, ResamplerFits, Calls, To, Fine, ResamplerClose, Ok, Outcome
<1>3. CASE h = "process"
  BY <1>3, OnFields, OffFields, GetFields, FreeFields, UseFields, ShedFields, SendFields
     DEF ResamplerOps, ResamplerFits, Calls, To, Fine, ResamplerProcess, Fail, Out, Then,
        Refit, ResamplerContext, ResamplerConvert, ResamplerChunks, Outcome, Ok, Has,
        AllOrNothing, Is
<1>4. CASE h = "set_property"
  BY <1>4, OnFields, OffFields
     DEF ResamplerOps, ResamplerFits, Calls, To, Fine, Derived, ResamplerSetProperty, Ok,
        Fail, Outcome
<1> QED
  BY <1>1, <1>2, <1>3, <1>4
     DEF ResamplerOps, NoHook

LEMMA OverlayKeeps ==
    ASSUME NEW h, NEW s, NEW q, NEW in, NEW o, NEW v, NEW r \in OverlayOps(h, q, in),
           OverlayFits(s, q, o), o \subseteq v, Calls(OverlayPads, h, s, q, in, v)
    PROVE  Fine(OverlayFits, {"text", "timecode", "font_path"}, {}, h, s, q, in, v, r)
<1>1. CASE h = "open"
  BY <1>1, GetFields
     DEF OverlayOps, OverlayFits, Calls, To, Fine, OverlayOpen, OverlayPads, AllOrNothing,
        Ok, Fail, Outcome
<1>2. CASE h = "close"
  BY <1>2, FreeFields
     DEF OverlayOps, OverlayFits, Calls, To, Fine, OverlayClose, OverlayPads, Ok, Outcome
<1>3. CASE h = "set_property"
  BY <1>3, OnFields
     DEF OverlayOps, OverlayFits, Calls, To, Fine, Derived, OverlaySetProperty, OverlayPads,
        Ok, Fail, Outcome
<1>4. CASE h = "process"
  BY <1>4, OffFields, UseFields
     DEF OverlayOps, OverlayFits, Calls, To, Fine, OverlayProcess, OverlayPads, Out, Outcome
<1>5. CASE h = "push"
  BY <1>5, OnFields, UseFields
     DEF OverlayOps, OverlayFits, Calls, To, Fine, OverlayTextPush, OverlayPads, Ok,
        Outcome, NoHook
<1> QED
  BY <1>1, <1>2, <1>3, <1>4, <1>5
     DEF OverlayOps, NoHook

LEMMA H26xKeeps ==
    ASSUME NEW h, NEW s, NEW q, NEW in, NEW o, NEW v, NEW r \in H26xOps(h, q, in),
           H26xFits(s, q, o), o \subseteq v, Calls({"sink"}, h, s, q, in, v)
    PROVE  Fine(H26xFits, {"codec", "input_format", "policy", "aggregate"}, {}, h, s, q, in, v, r)
<1>1. CASE h = "open"
  BY <1>1, OffFields, FreeFields, InsideFields
     DEF H26xOps, H26xFits, Calls, To, Fine, H26xOpen, Ok, H26xClear, Outcome
<1>2. CASE h = "close"
  BY <1>2, OffFields, FreeFields, InsideFields
     DEF H26xOps, H26xFits, Calls, To, Fine, H26xClose, Ok, Outcome
<1>3. CASE h = "push"
  <2>1. r \in H26xSinkPush(q, in) /\ s # "NULL"
    BY <1>3 DEF H26xOps, Calls
  <2>2. H26xFits(s, q, v)
    BY DEF H26xFits
  <2>3. H26xFits(s, r.p, v) /\ Kept({"codec", "input_format", "policy", "aggregate"}, q, r.p)
    BY <2>1, <2>2, H26xPushKeeps
  <2> QED
    BY <1>3, <2>3 DEF To, Fine, Kept
<1>4. CASE h = "event"
  BY <1>4, OffFields, FreeFields, ShedFields, InsideFields
     DEF H26xOps, H26xFits, Calls, To, Fine, H26xEvent, Ok, H26xClear, Outcome
<1>5. CASE h = "set_property"
  BY <1>5, OnFields
     DEF H26xOps, H26xFits, Calls, To, Fine, Derived, H26xSetProperty, Ok, Fail, Outcome
<1> QED
  BY <1>1, <1>2, <1>3, <1>4, <1>5
     DEF H26xOps, NoHook

LEMMA AacParserKeeps ==
    ASSUME NEW h, NEW s, NEW q, NEW in, NEW o, NEW v, NEW r \in AacParserOps(h, q, in),
           OwnsNothingFits(s, q, o), o \subseteq v, Calls({"sink"}, h, s, q, in, v)
    PROVE  Fine(OwnsNothingFits, {"config"}, {}, h, s, q, in, v, r)
<1>1. CASE h = "push"
  BY <1>1, OnFields, ShedFields, SendFields
     DEF AacParserOps, OwnsNothingFits, Calls, To, Fine, AacParserSinkPush, Fail, Push,
        Outcome, Ok
<1>2. CASE h = "set_property"
  BY <1>2, OnFields
     DEF AacParserOps, OwnsNothingFits, Calls, To, Fine, Derived, AacParserSetProperty, Ok,
        Fail, Outcome
<1> QED
  BY <1>1, <1>2
     DEF AacParserOps, NoHook

LEMMA SubRipKeeps ==
    ASSUME NEW h, NEW s, NEW q, NEW in, NEW o, NEW v, NEW r \in SubRipOps(h, q, in),
           SubRipFits(s, q, o), o \subseteq v, Calls({}, h, s, q, in, v)
    PROVE  Fine(SubRipFits, {}, {}, h, s, q, in, v, r)
<1>1. CASE h = "open"
  BY <1>1, GetFields
     DEF SubRipOps, SubRipFits, Calls, To, Fine, SubRipOpen, Is, AllOrNothing, Ok, Fail,
        Outcome
<1>2. CASE h = "close"
  BY <1>2, FreeFields
     DEF SubRipOps, SubRipFits, Calls, To, Fine, SubRipClose, Is, Ok, Outcome
<1>3. CASE h = "start"
  BY <1>3, OnFields, GetFields
     DEF SubRipOps, SubRipFits, Calls, To, Fine, SubRipStart, Is, Ok, Fail, Outcome
<1>4. CASE h = "stop"
  BY <1>4, OffFields, FreeFields
     DEF SubRipOps, SubRipFits, Calls, To, Fine, SubRipStop, Is, Ok, Outcome
<1>5. CASE h = "thread"
  BY <1>5, OffFields, UseFields, ShedFields, SendFields
     DEF SubRipOps, SubRipFits, Calls, To, Fine, SubRipThread, Is, Ok, Regardless, Push,
        NoHook, Outcome, Fail
<1> QED
  BY <1>1, <1>2, <1>3, <1>4, <1>5
     DEF SubRipOps, NoHook

LEMMA Mp4MuxKeeps ==
    ASSUME NEW h, NEW s, NEW q, NEW in, NEW o, NEW v, NEW r \in Mp4MuxOps(h, q, in),
           Mp4MuxFits(s, q, o), o \subseteq v, Calls(MuxPads, h, s, q, in, v)
    PROVE  Fine(Mp4MuxFits, {"direct_file", "split_at_keyframe"}, {}, h, s, q, in, v, r)
<1>1. CASE h = "start"
  BY <1>1, OnFields, OffFields
     DEF Mp4MuxOps, Mp4MuxFits, Calls, To, Fine, Odd, Mp4MuxStart, Is, IoContexts, MuxPads,
        MuxStart, Ok, PadFlags, Outcome, PadFlag, PadFields
<1>2. CASE h = "stop"
  <2>1. PICK t \in MuxStop(q) : r \in Ok(Free(t.p, {"video_extradata"}))
    BY <1>2 DEF Mp4MuxOps, Mp4MuxStop, Regardless
  <2>2. s = "PLAYING" /\ Mp4MuxFits("PLAYING", q, v)
    BY <1>2 DEF Calls, Mp4MuxFits, Odd
  <2>3. Mp4MuxFits("PLAYING", t.p, v) /\ Kept({"direct_file", "split_at_keyframe"}, q, t.p) /\ "fc" \notin t.p.held
    BY <2>2, Mp4MuxStopKeeps
  <2> QED
    BY <1>2, <2>1, <2>3, FreeFields DEF Mp4MuxFits, Kept, To, Fine, Is, Ok, Outcome
<1>3. CASE h = "push"
  <2>1. r \in Mp4MuxVideoPush(q, in.kind) \cup Mp4MuxAudioPush(q, in.kind)
    BY <1>3 DEF Mp4MuxOps
  <2>2. /\ s = "PLAYING" \/ v # {}
        /\ q.links \subseteq {"video", "audio"} /\ s # "NULL"
    BY <1>3 DEF Calls, MuxPads
  <2>4. Mp4MuxFits(s, q, v)
    BY DEF Mp4MuxFits, Odd
  <2>3. Mp4MuxFits(s, r.p, v) /\ Kept({"direct_file", "split_at_keyframe"}, q, r.p)
    BY <2>1, <2>2, <2>4, Mp4MuxPushKeeps
  <2> QED
    BY <1>3, <2>3 DEF To, Fine, Kept
<1>4. CASE h = "set_property"
  BY <1>4, OnFields
     DEF Mp4MuxOps, Mp4MuxFits, Calls, To, Fine, Derived, Odd, Mp4MuxSetProperty, Is,
        IoContexts, MuxPads, Ok, Fail, Outcome
<1> QED
  BY <1>1, <1>2, <1>3, <1>4
     DEF Mp4MuxOps, NoHook

LEMMA TsMuxKeeps ==
    ASSUME NEW h, NEW s, NEW q, NEW in, NEW o, NEW v, NEW r \in TsMuxOps(h, q, in),
           TsMuxFits(s, q, o), o \subseteq v, Calls(MuxPads, h, s, q, in, v)
    PROVE  Fine(TsMuxFits, {"direct_file"}, {}, h, s, q, in, v, r)
<1>1. CASE h = "start"
  BY <1>1, OnFields, OffFields
     DEF TsMuxOps, TsMuxFits, Calls, To, Fine, Odd, TsMuxStart, Is, IoContexts, MuxPads,
        MuxStart, Ok, PadFlags, Outcome, PadFlag, PadFields
<1>2. CASE h = "stop"
  <2>1. r \in MuxStop(q)
    BY <1>2 DEF TsMuxOps, TsMuxStop
  <2>2. s = "PLAYING" /\ TsMuxFits("PLAYING", q, v)
    BY <1>2 DEF Calls, TsMuxFits, Odd
  <2>3. TsMuxFits("PLAYING", r.p, v) /\ Kept({"direct_file"}, q, r.p) /\ "fc" \notin r.p.held /\ r.ret = "ok"
    BY <2>1, <2>2, TsMuxStopKeeps
  <2> QED
    BY <1>2, <2>3 DEF TsMuxFits, Kept, To, Fine, Is
<1>3. CASE h = "push"
  <2>1. r \in TsMuxVideoPush(q, in.kind) \cup TsMuxAudioPush(q, in.kind)
    BY <1>3 DEF TsMuxOps
  <2>2. /\ s = "PLAYING" \/ v # {}
        /\ q.links \subseteq {"video", "audio"} /\ s # "NULL"
    BY <1>3 DEF Calls, MuxPads
  <2>4. TsMuxFits(s, q, v)
    BY DEF TsMuxFits, Odd
  <2>3. TsMuxFits(s, r.p, v) /\ Kept({"direct_file"}, q, r.p)
    BY <2>1, <2>2, <2>4, TsMuxPushKeeps
  <2> QED
    BY <1>3, <2>3 DEF To, Fine, Kept
<1>4. CASE h = "set_property"
  BY <1>4, OnFields
     DEF TsMuxOps, TsMuxFits, Calls, To, Fine, Derived, Odd, TsMuxSetProperty, Is,
        IoContexts, MuxPads, Ok, Fail, Outcome
<1> QED
  BY <1>1, <1>2, <1>3, <1>4
     DEF TsMuxOps, NoHook

LEMMA Mp4DemuxKeeps ==
    ASSUME NEW h, NEW s, NEW q, NEW in, NEW o, NEW v, NEW r \in Mp4DemuxOps(h, q, in),
           Mp4DemuxFits(s, q, o), o \subseteq v, Calls({"sink"}, h, s, q, in, v)
    PROVE  Fine(Mp4DemuxFits, {"direct_file"}, {}, h, s, q, in, v, r)
<1>1. CASE h = "open"
  BY <1>1, GetFields
     DEF Mp4DemuxOps, Mp4DemuxFits, Calls, To, Fine, Odd, DemuxOpen, Is, Ok, Outcome
<1>2. CASE h = "close"
  BY <1>2, FreeFields
     DEF Mp4DemuxOps, Mp4DemuxFits, Calls, To, Fine, Odd, DemuxClose, Is, Ok, Outcome
<1>3. CASE h = "start"
  BY <1>3, OffFields, GetFields, FreeFields, NullFields, LoseFields, InsideFields
     DEF Mp4DemuxOps, Mp4DemuxFits, Calls, To, Fine, Odd, Mp4DemuxStart, Is, Ok, Fail,
        DemuxFresh, DemuxFound, Outcome
<1>4. CASE h = "stop"
  BY <1>4, OffFields, FreeFields, UseFields, InsideFields
     DEF Mp4DemuxOps, Mp4DemuxFits, Calls, To, Fine, Odd, DemuxStop, Is, Ok, Has, IoFreed,
        Outcome, IoContexts, IoKind
<1>5. CASE h = "push"
  BY <1>5, OnFields, GetFields, FreeFields, UseFields, ShedFields, InsideFields, SendFields,
     MaxInsideAssumption
     DEF Mp4DemuxOps, Mp4DemuxFits, Calls, To, Fine, Odd, Mp4DemuxSinkPush, Is, Ok, Then,
        Has, DemuxEnqueue, DemuxSendEos, Mp4DemuxTryInit, Mp4DemuxProcess, Outcome, Taken,
        Fail, DemuxFound, Again, Eof, DemuxRead
<1>6. CASE h = "process"
  BY <1>6, OnFields, ShedFields, InsideFields, SendFields
     DEF Mp4DemuxOps, Mp4DemuxFits, Calls, To, Fine, Odd, Mp4DemuxProcessOp, Is, Ok, Has,
        Mp4DemuxProcess, Outcome, Fail, Again, Eof, DemuxSendEos, DemuxRead
<1>7. CASE h = "set_property"
  BY <1>7, OnFields
     DEF Mp4DemuxOps, Mp4DemuxFits, Calls, To, Fine, Derived, Odd, DemuxSetProperty, Is, Ok,
        Fail, Outcome
<1> QED
  BY <1>1, <1>2, <1>3, <1>4, <1>5, <1>6, <1>7
     DEF Mp4DemuxOps, NoHook

LEMMA TsDemuxKeeps ==
    ASSUME NEW h, NEW s, NEW q, NEW in, NEW o, NEW v, NEW r \in TsDemuxOps(h, q, in),
           TsDemuxFits(s, q, o), o \subseteq v, Calls({"sink"}, h, s, q, in, v)
    PROVE  Fine(TsDemuxFits, {"direct_file"}, {}, h, s, q, in, v, r)
<1>1. CASE h = "open"
  BY <1>1, GetFields
     DEF TsDemuxOps, TsDemuxFits, Calls, To, Fine, Odd, DemuxOpen, Is, Ok, Outcome
<1>2. CASE h = "close"
  BY <1>2, FreeFields
     DEF TsDemuxOps, TsDemuxFits, Calls, To, Fine, Odd, DemuxClose, Is, Ok, Outcome
<1>3. CASE h = "start"
  BY <1>3, OnFields, OffFields, GetFields, FreeFields, NullFields, LoseFields, InsideFields
     DEF TsDemuxOps, TsDemuxFits, Calls, To, Fine, Odd, TsDemuxStart, Is, Ok, Fail,
        DemuxFresh, DemuxFound, Outcome
<1>4. CASE h = "stop"
  BY <1>4, OffFields, FreeFields, UseFields, InsideFields
     DEF TsDemuxOps, TsDemuxFits, Calls, To, Fine, Odd, DemuxStop, Is, Ok, Has, IoFreed,
        Outcome, IoContexts, IoKind
<1>5. CASE h = "push"
  BY <1>5, OnFields, GetFields, FreeFields, LoseFields, UseFields, ShedFields, InsideFields,
     SendFields, MaxInsideAssumption
     DEF TsDemuxOps, TsDemuxFits, Calls, To, Fine, Odd, TsDemuxSinkPush, Is, Ok, Then, Has,
        DemuxEnqueue, DemuxSendEos, TsDemuxTryInit, TsDemuxProcess, Outcome, Taken, Fail,
        DemuxFound, DemuxRead
<1>6. CASE h = "process"
  BY <1>6, OnFields, ShedFields, InsideFields, SendFields
     DEF TsDemuxOps, TsDemuxFits, Calls, To, Fine, Odd, TsDemuxProcessOp, Is, Ok, Has,
        TsDemuxProcess, Outcome, DemuxSendEos, DemuxRead
<1>7. CASE h = "set_property"
  BY <1>7, OnFields
     DEF TsDemuxOps, TsDemuxFits, Calls, To, Fine, Derived, Odd, DemuxSetProperty, Is, Ok,
        Fail, Outcome
<1> QED
  BY <1>1, <1>2, <1>3, <1>4, <1>5, <1>6, <1>7
     DEF TsDemuxOps, NoHook

LEMMA RtpPayKeeps ==
    ASSUME NEW h, NEW s, NEW q, NEW in, NEW o, NEW v, NEW r \in RtpPayOps(h, q, in),
           RtpPayFits(s, q, o), o \subseteq v, Calls({"sink"}, h, s, q, in, v)
    PROVE  Fine(RtpPayFits, {"codec", "mtu", "seq"}, {}, h, s, q, in, v, r)
<1>1. CASE h = "open"
  BY <1>1, GetFields
     DEF RtpPayOps, RtpPayFits, Calls, To, Fine, RtpPayOpen, Ok, Has, Outcome
<1>2. CASE h = "close"
  BY <1>2, FreeFields
     DEF RtpPayOps, RtpPayFits, Calls, To, Fine, RtpPayClose, Ok, Outcome
<1>3. CASE h = "push"
  BY <1>3, ShedFields, SendFields
     DEF RtpPayOps, RtpPayFits, Calls, To, Fine, RtpPayPush, Ok, Fail, Outcome
<1>4. CASE h = "set_property"
  BY <1>4, OnFields
     DEF RtpPayOps, RtpPayFits, Calls, To, Fine, Derived, RtpPaySetProperty, Ok, Fail,
        Outcome
<1> QED
  BY <1>1, <1>2, <1>3, <1>4
     DEF RtpPayOps, NoHook

LEMMA RtpDepayKeeps ==
    ASSUME NEW h, NEW s, NEW q, NEW in, NEW o, NEW v, NEW r \in RtpDepayOps(h, q, in),
           RtpDepayFits(s, q, o), o \subseteq v, Calls({"sink"}, h, s, q, in, v)
    PROVE  Fine(RtpDepayFits, {"codec", "ssrc"}, {}, h, s, q, in, v, r)
<1>1. CASE h = "open"
  BY <1>1, FreeFields
     DEF RtpDepayOps, RtpDepayFits, Calls, To, Fine, RtpDepayOpen, Ok, RtpDepayResetAu,
        Outcome
<1>2. CASE h = "close"
  BY <1>2, FreeFields
     DEF RtpDepayOps, RtpDepayFits, Calls, To, Fine, RtpDepayClose, Ok, RtpDepayResetAu,
        Outcome
<1>3. CASE h = "push"
  BY <1>3, GetFields, FreeFields, ShedFields, SendFields
     DEF RtpDepayOps, RtpDepayFits, Calls, To, Fine, RtpDepayPush, Ok, Fail,
        RtpDepayResetAu, RtpDepayPushAu, Outcome, Has, Push
<1>4. CASE h = "set_property"
  BY <1>4, OnFields
     DEF RtpDepayOps, RtpDepayFits, Calls, To, Fine, Derived, RtpDepaySetProperty, Ok, Fail,
        Outcome
<1> QED
  BY <1>1, <1>2, <1>3, <1>4
     DEF RtpDepayOps, NoHook

LEMMA Pay20Keeps ==
    ASSUME NEW h, NEW s, NEW q, NEW in, NEW o, NEW v, NEW r \in Pay20Ops(h, q, in),
           OwnsNothingFits(s, q, o), o \subseteq v, Calls({"sink"}, h, s, q, in, v)
    PROVE  Fine(OwnsNothingFits, {}, {}, h, s, q, in, v, r)
<1>1. CASE h = "push"
  BY <1>1, ShedFields, SendFields
     DEF Pay20Ops, OwnsNothingFits, Calls, To, Fine, Pay20Push, Ok, Fail, PushBlind, Outcome
<1> QED
  BY <1>1
     DEF Pay20Ops, NoHook

LEMMA Depay20Keeps ==
    ASSUME NEW h, NEW s, NEW q, NEW in, NEW o, NEW v, NEW r \in Depay20Ops(h, q, in),
           Depay20Fits(s, q, o), o \subseteq v, Calls({"sink"}, h, s, q, in, v)
    PROVE  Fine(Depay20Fits, {}, {}, h, s, q, in, v, r)
<1>1. CASE h = "push"
  BY <1>1, GetFields, FreeFields, ShedFields, InsideFields, SendFields
     DEF Depay20Ops, Depay20Fits, Calls, To, Fine, Depay20Push, Ok, Fail, Has, PushBlind,
        Depay20Gone, Depay20Packet, Outcome, Depay20Frame
<1> QED
  BY <1>1
     DEF Depay20Ops, NoHook

LEMMA Pay21Keeps ==
    ASSUME NEW h, NEW s, NEW q, NEW in, NEW o, NEW v, NEW r \in Pay21Ops(h, q, in),
           Pay21Fits(s, q, o), o \subseteq v, Calls({"sink"}, h, s, q, in, v)
    PROVE  Fine(Pay21Fits, {}, {}, h, s, q, in, v, r)
<1>1. CASE h = "start"
  BY <1>1, GetFields
     DEF Pay21Ops, Pay21Fits, Calls, To, Fine, Pay21Start, Ok, Outcome
<1>2. CASE h = "stop"
  BY <1>2, FreeFields
     DEF Pay21Ops, Pay21Fits, Calls, To, Fine, Pay21Stop, Ok, Outcome
<1>3. CASE h = "process"
  BY <1>3, LoseFields, ShedFields, SendFields
     DEF Pay21Ops, Pay21Fits, Calls, To, Fine, Pay21Process, Ok, PushBlind, Unfreed, Outcome
<1> QED
  BY <1>1, <1>2, <1>3
     DEF Pay21Ops, NoHook

LEMMA Depay21Keeps ==
    ASSUME NEW h, NEW s, NEW q, NEW in, NEW o, NEW v, NEW r \in Depay21Ops(h, q, in),
           Depay21Fits(s, q, o), o \subseteq v, Calls({"sink"}, h, s, q, in, v)
    PROVE  Fine(Depay21Fits, {}, {}, h, s, q, in, v, r)
<1>1. CASE h = "stop"
  BY <1>1, FreeFields, InsideFields
     DEF Depay21Ops, Depay21Fits, Calls, To, Fine, Depay21Stop, Ok, Outcome
<1>2. CASE h = "process"
  BY <1>2, GetFields, FreeFields, LoseFields, ShedFields, InsideFields, SendFields
     DEF Depay21Ops, Depay21Fits, Calls, To, Fine, Depay21Process, Ok, Depay21Append,
        Depay21PushAu, Outcome, PushBlind, Unfreed
<1> QED
  BY <1>1, <1>2
     DEF Depay21Ops, NoHook

LEMMA Pay22Keeps ==
    ASSUME NEW h, NEW s, NEW q, NEW in, NEW o, NEW v, NEW r \in Pay22Ops(h, q, in),
           Pay22Fits(s, q, o), o \subseteq v, Calls({"sink"}, h, s, q, in, v)
    PROVE  Fine(Pay22Fits, {}, {}, h, s, q, in, v, r)
<1>1. CASE h = "start"
  BY <1>1, GetFields
     DEF Pay22Ops, Pay22Fits, Calls, To, Fine, Pay22Start, AllOrNothing, Ok, Fail, Outcome
<1>2. CASE h = "stop"
  BY <1>2, OffFields, FreeFields, InsideFields
     DEF Pay22Ops, Pay22Fits, Calls, To, Fine, Pay22Stop, Ok, FreeCodec, Outcome
<1>3. CASE h = "process"
  BY <1>3, UseFields, ShedFields, InsideFields, MaxInsideAssumption
     DEF Pay22Ops, Pay22Fits, Calls, To, Fine, Pay22Process, Ok, Fail, Out, Has, Taken,
        CanTake, Outcome, Is
<1> QED
  BY <1>1, <1>2, <1>3
     DEF Pay22Ops, NoHook

LEMMA Depay22Keeps ==
    ASSUME NEW h, NEW s, NEW q, NEW in, NEW o, NEW v, NEW r \in Depay22Ops(h, q, in),
           Depay22Fits(s, q, o), o \subseteq v, Calls({"sink"}, h, s, q, in, v)
    PROVE  Fine(Depay22Fits, {}, {}, h, s, q, in, v, r)
<1>1. CASE h = "start"
  BY <1>1, GetFields
     DEF Depay22Ops, Depay22Fits, Calls, To, Fine, Depay22Start, Is, AllOrNothing, Ok, Fail,
        Outcome
<1>2. CASE h = "stop"
  BY <1>2, OffFields, FreeFields, InsideFields
     DEF Depay22Ops, Depay22Fits, Calls, To, Fine, Depay22Stop, Is, Ok, FreeCodec, Outcome
<1>3. CASE h = "process"
  BY <1>3, OnFields, GetFields, LoseFields, UseFields, ShedFields
     DEF Depay22Ops, Depay22Fits, Calls, To, Fine, Depay22Process, Is, Fail, Has,
        Depay22Decode, Outcome, Ok, Out, Unfreed
<1> QED
  BY <1>1, <1>2, <1>3
     DEF Depay22Ops, NoHook

LEMMA Pay30Keeps ==
    ASSUME NEW h, NEW s, NEW q, NEW in, NEW o, NEW v, NEW r \in Pay30Ops(h, q, in),
           Pay30Fits(s, q, o), o \subseteq v, Calls({"sink"}, h, s, q, in, v)
    PROVE  Fine(Pay30Fits, {}, {}, h, s, q, in, v, r)
<1>1. CASE h = "process"
  BY <1>1, LoseFields, UseFields, ShedFields, SendFields
     DEF Pay30Ops, Pay30Fits, Calls, To, Fine, Pay30Process, Fail, Out, PushBlind,
        UnrefsInput, Outcome
<1> QED
  BY <1>1
     DEF Pay30Ops, NoHook

LEMMA Depay30Keeps ==
    ASSUME NEW h, NEW s, NEW q, NEW in, NEW o, NEW v, NEW r \in Depay30Ops(h, q, in),
           Depay30Fits(s, q, o), o \subseteq v, Calls({"sink"}, h, s, q, in, v)
    PROVE  Fine(Depay30Fits, {}, {}, h, s, q, in, v, r)
<1>1. CASE h = "process"
  BY <1>1, UseFields
     DEF Depay30Ops, Depay30Fits, Calls, To, Fine, Depay30Process, Ok, Fail, Out,
        UnrefsInput, Outcome
<1> QED
  BY <1>1
     DEF Depay30Ops, NoHook

LEMMA Pay40Keeps ==
    ASSUME NEW h, NEW s, NEW q, NEW in, NEW o, NEW v, NEW r \in Pay40Ops(h, q, in),
           Pay40Fits(s, q, o), o \subseteq v, Calls({"sink"}, h, s, q, in, v)
    PROVE  Fine(Pay40Fits, {}, {}, h, s, q, in, v, r)
<1>1. CASE h = "close"
  BY <1>1, OnFields, UseFields
     DEF Pay40Ops, Pay40Fits, Calls, To, Fine, Pay40Close, Ok, Pay40FreeAux, Outcome, Is
<1>2. CASE h = "process"
  BY <1>2, UseFields
     DEF Pay40Ops, Pay40Fits, Calls, To, Fine, Pay40Process, Fail, Out, UnrefsInput, Outcome
<1>3. CASE h = "set_property"
  BY <1>3, OffFields, UseFields
     DEF Pay40Ops, Pay40Fits, Calls, To, Fine, Derived, Pay40SetProperty, Ok, Fail,
        Pay40FreeAux, Outcome, Is
<1> QED
  BY <1>1, <1>2, <1>3
     DEF Pay40Ops, NoHook

LEMMA Depay40Keeps ==
    ASSUME NEW h, NEW s, NEW q, NEW in, NEW o, NEW v, NEW r \in Depay40Ops(h, q, in),
           Depay30Fits(s, q, o), o \subseteq v, Calls({"sink"}, h, s, q, in, v)
    PROVE  Fine(Depay30Fits, {}, {}, h, s, q, in, v, r)
<1>1. CASE h = "process"
  BY <1>1, UseFields
     DEF Depay40Ops, Depay30Fits, Calls, To, Fine, Depay40Process, Ok, Fail, Out,
        UnrefsInput, Outcome
<1> QED
  BY <1>1
     DEF Depay40Ops, NoHook

LEMMA FecEncoderKeeps ==
    ASSUME NEW h, NEW s, NEW q, NEW in, NEW o, NEW v, NEW r \in FecEncoderOps(h, q, in),
           OwnsNothingFits(s, q, o), o \subseteq v, Calls({"sink"}, h, s, q, in, v)
    PROVE  Fine(OwnsNothingFits, {"L", "D"}, {}, h, s, q, in, v, r)
<1>1. CASE h = "process"
  BY <1>1
     DEF FecEncoderOps, OwnsNothingFits, Calls, To, Fine, FecEncoderProcess, Out, Outcome
<1>2. CASE h = "set_property"
  BY <1>2, OnFields
     DEF FecEncoderOps, OwnsNothingFits, Calls, To, Fine, Derived, FecSetProperty, Ok, Fail,
        Outcome
<1> QED
  BY <1>1, <1>2
     DEF FecEncoderOps, NoHook

LEMMA FecDecoderKeeps ==
    ASSUME NEW h, NEW s, NEW q, NEW in, NEW o, NEW v, NEW r \in FecDecoderOps(h, q, in),
           OwnsNothingFits(s, q, o), o \subseteq v, Calls({"sink"}, h, s, q, in, v)
    PROVE  Fine(OwnsNothingFits, {"L", "D"}, {}, h, s, q, in, v, r)
<1>1. CASE h = "process"
  BY <1>1
     DEF FecDecoderOps, OwnsNothingFits, Calls, To, Fine, FecDecoderProcess, Out, Outcome
<1>2. CASE h = "set_property"
  BY <1>2, OnFields
     DEF FecDecoderOps, OwnsNothingFits, Calls, To, Fine, Derived, FecSetProperty, Ok, Fail,
        Outcome
<1> QED
  BY <1>1, <1>2
     DEF FecDecoderOps, NoHook

LEMMA RedMuxKeeps ==
    ASSUME NEW h, NEW s, NEW q, NEW in, NEW o, NEW v, NEW r \in RedMuxOps(h, q, in),
           OwnsNothingFits(s, q, o), o \subseteq v, Calls({"sink"}, h, s, q, in, v)
    PROVE  Fine(OwnsNothingFits, {"fec_enabled"}, {"fec_enabled"}, h, s, q, in, v, r)
<1>1. CASE h = "open"
  BY <1>1
     DEF RedMuxOps, OwnsNothingFits, Calls, To, Fine, RedMuxOpen, Ok, Outcome
<1>2. CASE h = "close"
  BY <1>2, OnFields, OffFields
     DEF RedMuxOps, OwnsNothingFits, Calls, To, Fine, RedClose, Ok, Outcome
<1>3. CASE h = "push"
  BY <1>3, ShedFields, SendFields
     DEF RedMuxOps, OwnsNothingFits, Calls, To, Fine, RedMuxPush, Ok, Fail, Is, PushBlind,
        Outcome
<1>4. CASE h = "set_property"
  BY <1>4, OnFields
     DEF RedMuxOps, OwnsNothingFits, Calls, To, Fine, Derived, RedMuxSetProperty, Ok, Fail,
        Is, Outcome
<1> QED
  BY <1>1, <1>2, <1>3, <1>4
     DEF RedMuxOps, NoHook

LEMMA RedDemuxKeeps ==
    ASSUME NEW h, NEW s, NEW q, NEW in, NEW o, NEW v, NEW r \in RedDemuxOps(h, q, in),
           OwnsNothingFits(s, q, o), o \subseteq v, Calls(RedPads, h, s, q, in, v)
    PROVE  Fine(OwnsNothingFits, {"failover_detection_ms"}, {"failover_detection_ms"}, h, s, q, in, v, r)
<1>1. CASE h = "open"
  BY <1>1
     DEF RedDemuxOps, OwnsNothingFits, Calls, To, Fine, RedDemuxOpen, RedPads, Ok, Fail, Is,
        Outcome
<1>2. CASE h = "close"
  BY <1>2, OnFields, OffFields
     DEF RedDemuxOps, OwnsNothingFits, Calls, To, Fine, RedClose, RedPads, Ok, Outcome
<1>3. CASE h = "push"
  BY <1>3, ShedFields, SendFields
     DEF RedDemuxOps, OwnsNothingFits, Calls, To, Fine, RedDemuxPush, RedPads, Ok, Fail, Is,
        PushBlind, Outcome
<1>4. CASE h = "set_property"
  BY <1>4, OnFields
     DEF RedDemuxOps, OwnsNothingFits, Calls, To, Fine, Derived, RedDemuxSetProperty,
        RedPads, Ok, Fail, Is, Outcome
<1> QED
  BY <1>1, <1>2, <1>3, <1>4
     DEF RedDemuxOps, NoHook

LEMMA SdpMuxKeeps ==
    ASSUME NEW h, NEW s, NEW q, NEW in, NEW o, NEW v, NEW r \in SdpMuxOps(h, q, in),
           OwnsNothingFits(s, q, o), o \subseteq v, Calls(SdpPads, h, s, q, in, v)
    PROVE  Fine(OwnsNothingFits, {"emit_always"}, {}, h, s, q, in, v, r)
<1>1. CASE h = "open"
  BY <1>1, OnFields, OffFields
     DEF SdpMuxOps, OwnsNothingFits, Calls, To, Fine, SdpMuxOpen, SdpPads, SdpMuxGenerate,
        MayFail, Ok, Fail, Outcome
<1>2. CASE h = "close"
  BY <1>2, OffFields
     DEF SdpMuxOps, OwnsNothingFits, Calls, To, Fine, SdpMuxClose, SdpPads, SdpMuxStop, Ok,
        Outcome
<1>3. CASE h = "start"
  BY <1>3, OnFields
     DEF SdpMuxOps, OwnsNothingFits, Calls, To, Fine, SdpMuxStart, SdpPads, Ok, Is,
        SdpMuxGenerate, Outcome, MayFail, Fail
<1>4. CASE h = "stop"
  BY <1>4, OffFields
     DEF SdpMuxOps, OwnsNothingFits, Calls, To, Fine, SdpMuxStop, SdpPads, Ok, Outcome
<1>5. CASE h = "push"
  BY <1>5, OnFields, OffFields, ShedFields, SendFields
     DEF SdpMuxOps, OwnsNothingFits, Calls, To, Fine, SdpMuxSinkPush, SdpPads, Ok,
        SdpMuxEmit, Outcome, Fail, Then, Is, PushBlind, SdpMuxGenerate, MayFail
<1>6. CASE h = "set_property"
  BY <1>6, OnFields
     DEF SdpMuxOps, OwnsNothingFits, Calls, To, Fine, Derived, SdpMuxSetProperty, SdpPads,
        Fail, SdpMuxGenerate, Outcome, MayFail, Ok
<1> QED
  BY <1>1, <1>2, <1>3, <1>4, <1>5, <1>6
     DEF SdpMuxOps, NoHook

LEMMA SdpDemuxKeeps ==
    ASSUME NEW h, NEW s, NEW q, NEW in, NEW o, NEW v, NEW r \in SdpDemuxOps(h, q, in),
           SdpDemuxFits(s, q, o), o \subseteq v, Calls({"sink"}, h, s, q, in, v)
    PROVE  Fine(SdpDemuxFits, {"sdp", "reorder_capacity"}, {}, h, s, q, in, v, r)
<1>1. CASE h = "open"
  BY <1>1, OnFields, GetFields, FreeFields
     DEF SdpDemuxOps, SdpDemuxFits, Calls, To, Fine, SdpDemuxOpen, Is, Ok, Fail, Has,
        SdpParse, Outcome
<1>2. CASE h = "close"
  BY <1>2, OffFields, FreeFields, InsideFields
     DEF SdpDemuxOps, SdpDemuxFits, Calls, To, Fine, SdpDemuxClose, Is, Ok, Outcome
<1>3. CASE h = "start"
  BY <1>3
     DEF SdpDemuxOps, SdpDemuxFits, Calls, To, Fine, SdpDemuxStart, Is, Ok, Fail, Has,
        Outcome
<1>4. CASE h = "push"
  BY <1>4, ShedFields, InsideFields, SendFields, MaxInsideAssumption
     DEF SdpDemuxOps, SdpDemuxFits, Calls, To, Fine, SdpDemuxSinkPush, Is, Ok, Has, Outcome
<1>5. CASE h = "set_property"
  BY <1>5, OnFields, OffFields, GetFields, FreeFields
     DEF SdpDemuxOps, SdpDemuxFits, Calls, To, Fine, Derived, SdpDemuxSetProperty, Is, Ok,
        Fail, Has, SdpParse, Outcome
<1> QED
  BY <1>1, <1>2, <1>3, <1>4, <1>5
     DEF SdpDemuxOps, NoHook

LEMMA UdpSrcKeeps ==
    ASSUME NEW h, NEW s, NEW q, NEW in, NEW o, NEW v, NEW r \in UdpSrcOps(h, q, in),
           UdpSrcFits(s, q, o), o \subseteq v, Calls({}, h, s, q, in, v)
    PROVE  Fine(UdpSrcFits, {"address"}, {}, h, s, q, in, v, r)
<1>1. CASE h = "open"
  BY <1>1, GetFields, FreeFields, StrayFields, InsideFields
     DEF UdpSrcOps, UdpSrcFits, Calls, To, Fine, UdpSrcOpen, Ok, Fail, UdpSrcReaderStop,
        Outcome, Has, UdpSrcLock, Is
<1>2. CASE h = "close"
  BY <1>2, OnFields, FreeFields, StrayFields, InsideFields
     DEF UdpSrcOps, UdpSrcFits, Calls, To, Fine, UdpSrcClose, Ok, UdpSrcReaderStop, Outcome,
        Has, UdpSrcLock, Is
<1>3. CASE h = "process"
  BY <1>3, StrayFields, InsideFields
     DEF UdpSrcOps, UdpSrcFits, Calls, To, Fine, UdpSrcProcess, Ok, Again, Out, Has,
        UdpSrcLock, Outcome, Is
<1>4. CASE h = "thread"
  BY <1>4, StrayFields, ShedFields, InsideFields, MaxInsideAssumption
     DEF UdpSrcOps, UdpSrcFits, Calls, To, Fine, UdpSrcThread, Ok, Has, Taken, NoHook,
        UdpSrcLock, Outcome, Is
<1>5. CASE h = "set_property"
  BY <1>5, OnFields
     DEF UdpSrcOps, UdpSrcFits, Calls, To, Fine, Derived, UdpSrcSetProperty, Ok, Fail,
        Outcome
<1> QED
  BY <1>1, <1>2, <1>3, <1>4, <1>5
     DEF UdpSrcOps, NoHook

LEMMA UdpSinkKeeps ==
    ASSUME NEW h, NEW s, NEW q, NEW in, NEW o, NEW v, NEW r \in UdpSinkOps(h, q, in),
           UdpSinkFits(s, q, o), o \subseteq v, Calls({"sink"}, h, s, q, in, v)
    PROVE  Fine(UdpSinkFits, {"timestamp_pacing"}, {}, h, s, q, in, v, r)
<1>1. CASE h = "open"
  BY <1>1, GetFields, FreeFields
     DEF UdpSinkOps, UdpSinkFits, Calls, To, Fine, UdpSinkOpen, Ok, Fail, Outcome
<1>2. CASE h = "close"
  BY <1>2, FreeFields
     DEF UdpSinkOps, UdpSinkFits, Calls, To, Fine, UdpSinkClose, Ok, Outcome
<1>3. CASE h = "start"
  BY <1>3
     DEF UdpSinkOps, UdpSinkFits, Calls, To, Fine, UdpSinkStart, Ok, Outcome
<1>4. CASE h = "stop"
  BY <1>4
     DEF UdpSinkOps, UdpSinkFits, Calls, To, Fine, UdpSinkStop, Ok, Outcome
<1>5. CASE h = "process"
  BY <1>5, UseFields, ShedFields
     DEF UdpSinkOps, UdpSinkFits, Calls, To, Fine, UdpSinkProcess, Ok, Fail, Has, Is,
        UdpSinkSendDatagram, Outcome, Again
<1>6. CASE h = "set_property"
  BY <1>6, OnFields
     DEF UdpSinkOps, UdpSinkFits, Calls, To, Fine, Derived, UdpSinkSetProperty, Ok, Fail,
        Outcome
<1> QED
  BY <1>1, <1>2, <1>3, <1>4, <1>5, <1>6
     DEF UdpSinkOps, NoHook

LEMMA DepSourceKeeps ==
    ASSUME NEW h, NEW s, NEW q, NEW in, NEW o, NEW v, NEW r \in DepSourceOps(h, q, in),
           DepFits(s, q, o), o \subseteq v, Calls({}, h, s, q, in, v)
    PROVE  Fine(DepFits, {"shm_name"}, {}, h, s, q, in, v, r)
<1>1. CASE h = "open"
  BY <1>1, GetFields
     DEF DepSourceOps, DepFits, Calls, To, Fine, DepSourceOpen, DepOpen, AllOrNothing, Ok,
        Fail, Outcome
<1>2. CASE h = "close"
  BY <1>2, OffFields, FreeFields
     DEF DepSourceOps, DepFits, Calls, To, Fine, DepSourceClose, DepClose, Ok, Outcome
<1>3. CASE h = "start"
  BY <1>3, OnFields
     DEF DepSourceOps, DepFits, Calls, To, Fine, DepSourceStart, DepStart, Ok, Fail, Has,
        Outcome
<1>4. CASE h = "stop"
  BY <1>4, OffFields
     DEF DepSourceOps, DepFits, Calls, To, Fine, DepSourceStop, DepStop, Ok, Outcome
<1>5. CASE h = "process"
  BY <1>5, ShedFields
     DEF DepSourceOps, DepFits, Calls, To, Fine, DepSourceProcess, Fail, Again, Out, Has,
        Is, Outcome
<1>6. CASE h = "set_property"
  BY <1>6, OnFields
     DEF DepSourceOps, DepFits, Calls, To, Fine, Derived, DepSetProperty, Ok, Fail, Has,
        Outcome
<1> QED
  BY <1>1, <1>2, <1>3, <1>4, <1>5, <1>6
     DEF DepSourceOps, NoHook

LEMMA DepSinkKeeps ==
    ASSUME NEW h, NEW s, NEW q, NEW in, NEW o, NEW v, NEW r \in DepSinkOps(h, q, in),
           DepFits(s, q, o), o \subseteq v, Calls({"sink"}, h, s, q, in, v)
    PROVE  Fine(DepFits, {"shm_name"}, {}, h, s, q, in, v, r)
<1>1. CASE h = "open"
  BY <1>1, GetFields
     DEF DepSinkOps, DepFits, Calls, To, Fine, DepSinkOpen, DepOpen, AllOrNothing, Ok, Fail,
        Outcome
<1>2. CASE h = "close"
  BY <1>2, OffFields, FreeFields
     DEF DepSinkOps, DepFits, Calls, To, Fine, DepSinkClose, DepClose, Ok, Outcome
<1>3. CASE h = "start"
  BY <1>3, OnFields
     DEF DepSinkOps, DepFits, Calls, To, Fine, DepSinkStart, DepStart, Ok, Fail, Has,
        Outcome
<1>4. CASE h = "stop"
  BY <1>4, OffFields
     DEF DepSinkOps, DepFits, Calls, To, Fine, DepSinkStop, DepStop, Ok, Outcome
<1>5. CASE h = "process"
  BY <1>5, ShedFields
     DEF DepSinkOps, DepFits, Calls, To, Fine, DepSinkProcess, Ok, Fail, Again, Has, Is,
        Outcome
<1>6. CASE h = "set_property"
  BY <1>6, OnFields
     DEF DepSinkOps, DepFits, Calls, To, Fine, Derived, DepSetProperty, Ok, Fail, Has,
        Outcome
<1> QED
  BY <1>1, <1>2, <1>3, <1>4, <1>5, <1>6
     DEF DepSinkOps, NoHook

LEMMA QueueElKeeps ==
    ASSUME NEW h, NEW s, NEW q, NEW in, NEW o, NEW v, NEW r \in QueueElOps(h, q, in),
           QueueElFits(s, q, o), o \subseteq v, Calls({"sink"}, h, s, q, in, v)
    PROVE  Fine(QueueElFits, {"pool"}, {}, h, s, q, in, v, r)
<1>1. CASE h = "open"
  BY <1>1, GetFields
     DEF QueueElOps, QueueElFits, Calls, To, Fine, QueueElOpen, AllOrNothing, Ok, Fail,
        Outcome
<1>2. CASE h = "close"
  BY <1>2, FreeFields, ShedFields, ListedFields
     DEF QueueElOps, QueueElFits, Calls, To, Fine, QueueElClose, Ok, QueueElDropped, Outcome
<1>3. CASE h = "start"
  BY <1>3, GetFields
     DEF QueueElOps, QueueElFits, Calls, To, Fine, QueueElStart, AllOrNothing, Ok, Fail,
        Outcome
<1>4. CASE h = "stop"
  BY <1>4, FreeFields, ShedFields, ListedFields
     DEF QueueElOps, QueueElFits, Calls, To, Fine, QueueElStop, Ok, QueueElDropped, Outcome
<1>5. CASE h = "push"
  BY <1>5, ShedFields, ListedFields, MaxInsideAssumption
     DEF QueueElOps, QueueElFits, Calls, To, Fine, QueueElSinkPush, Ok, Fail, Blocked, Has,
        Is, Outcome
<1>6. CASE h = "thread"
  BY <1>6, ShedFields, ListedFields, SendFields
     DEF QueueElOps, QueueElFits, Calls, To, Fine, QueueElWorker, Ok, Has, Push, NoHook,
        Outcome, Fail
<1>7. CASE h = "set_property"
  BY <1>7, OnFields
     DEF QueueElOps, QueueElFits, Calls, To, Fine, Derived, QueueElSetPool, Ok, Outcome
<1> QED
  BY <1>1, <1>2, <1>3, <1>4, <1>5, <1>6, <1>7
     DEF QueueElOps, NoHook

LEMMA MixerKeeps ==
    ASSUME NEW h, NEW s, NEW q, NEW in, NEW o, NEW v, NEW r \in MixerOps(h, q, in),
           MixerFits(s, q, o), o \subseteq v, Calls(MixerPads, h, s, q, in, v)
    PROVE  Fine(MixerFits, {"max-lateness"}, {}, h, s, q, in, v, r)
<1>1. CASE h = "open"
  BY <1>1
     DEF MixerOps, MixerFits, Calls, To, Fine, MixerOpen, MixerPads, Ok, Outcome
<1>2. CASE h = "close"
  BY <1>2, OffFields, FreeFields, UseFields, InsideFields
     DEF MixerOps, MixerFits, Calls, To, Fine, MixerClose, MixerPads, Ok, PadFlags, Joined,
        MixerWith, MixerTake, Outcome, PadFlag, Is, PadFields
<1>3. CASE h = "start"
  BY <1>3, OnFields, OffFields, GetFields
     DEF MixerOps, MixerFits, Calls, To, Fine, MixerStart, MixerPads, ThreadUnchecked, Ok,
        Outcome
<1>4. CASE h = "stop"
  BY <1>4, OffFields, FreeFields, UseFields
     DEF MixerOps, MixerFits, Calls, To, Fine, MixerStop, MixerPads, Ok, Joined, Outcome, Is
<1>5. CASE h = "push"
  BY <1>5, OnFields, ShedFields, InsideFields
     DEF MixerOps, MixerFits, Calls, To, Fine, MixerSinkPush, MixerPads, Ok, Blocked, Is,
        PadFlag, Taken, Outcome, PadFields
<1>6. CASE h = "thread"
  BY <1>6, OnFields, GetFields, ShedFields, SendFields, SinkFlags, MixerTakeFields
     DEF MixerOps, MixerFits, Calls, To, Fine, MixerWorker, MixerPads, Ok, Finally, Has, Is,
        Push, NoHook, MixerWith, MixerMix, Outcome, Fail
<1>7. CASE h = "release_pad"
  <2>1. PICK m \in q.links :
           \/ r \in Fail(q)
           \/ \E t \in {q, Shed(MixerTake(q, {m}))} :
                 r \in Ok(Unlinked(Off(Free(t, {PadFlag(m, "queue")}),
                                    {PadFlag(m, "active"), PadFlag(m, "eos")}), m))
    BY <1>7 DEF MixerOps, MixerReleasePad
  <2>2. /\ m \in {"sink_0", "sink_1"} /\ Struct(q)
        /\ {PadFlag(m, "active"), PadFlag(m, "eos")} \cap {"max-lateness"} = {}
        /\ PadFlags({m}, "data") \cap {"max-lateness"} = {}
    BY SinkFlag, SinkFlags DEF Calls, MixerPads, MixerFits
  <2> DEFINE x == PadFlag(m, "queue")
             y == {PadFlag(m, "active"), PadFlag(m, "eos")}
             Like(t) == /\ Struct(t) /\ t.held \subseteq q.held /\ t.lost = q.lost
                        /\ t.stray = q.stray /\ t.links = q.links
                        /\ "max-lateness" \in q.on => "max-lateness" \in t.on
  <2>3. CASE r \in Fail(q)
    BY <1>7, <2>3 DEF MixerFits, To, Fine, Fail, Outcome
  <2>4. CASE r \notin Fail(q)
    <3>1. PICK t \in {q, Shed(MixerTake(q, {m}))} : r \in Ok(Unlinked(Off(Free(t, {x}), y), m))
      BY <2>1, <2>4
    <3>6. /\ Struct(MixerTake(q, {m})) /\ MixerTake(q, {m}).held = q.held
          /\ MixerTake(q, {m}).lost = q.lost /\ MixerTake(q, {m}).stray = q.stray
          /\ MixerTake(q, {m}).links = q.links
          /\ "max-lateness" \in q.on => "max-lateness" \in MixerTake(q, {m}).on
      BY <2>2, MixerTakeFields
    <3>2. Like(t)
      BY <2>2, <3>1, <3>6, ShedFields
    <3>3. y \cap {"max-lateness"} = {}
      BY <2>2
    <3> HIDE DEF x, y
    <3>4. Like(Off(Free(t, {x}), y))
      BY <3>2, <3>3, FreeFields, OffFields
    <3> DEFINE w == Off(Free(t, {x}), y)
    <3>7. r.p = Unlinked(w, m) /\ r.ret = "ok"
      BY <3>1 DEF Ok, Outcome
    <3>8. Like(w)
      BY <3>4
    <3> HIDE DEF w
    <3>5. r.ret = "ok" /\ Struct(r.p) /\ r.p.held \subseteq q.held /\ r.p.lost = q.lost
          /\ r.p.stray = q.stray /\ r.p.links \subseteq q.links
          /\ ("max-lateness" \in q.on => "max-lateness" \in r.p.on)
      BY <3>7, <3>8, UnlinkedFields
    <3> QED
      BY <1>7, <3>5 DEF MixerFits, To, Fine
  <2> QED
    BY <2>3, <2>4
<1>8. CASE h = "set_property"
  BY <1>8, OnFields
     DEF MixerOps, MixerFits, Calls, To, Fine, Derived, MixerSetProperty, MixerPads, Ok,
        Fail, Outcome
<1> QED
  BY <1>1, <1>2, <1>3, <1>4, <1>5, <1>6, <1>7, <1>8
     DEF MixerOps, NoHook

LEMMA RtspSinkKeeps ==
    ASSUME NEW h, NEW s, NEW q, NEW in, NEW o, NEW v, NEW r \in RtspSinkOps(h, q, in),
           RtspSinkFits(s, q, o), o \subseteq v, Calls(RtspPads, h, s, q, in, v)
    PROVE  Fine(RtspSinkFits, {"udp-timestamp-pacing", "udp"}, {}, h, s, q, in, v, r)
<1>1. CASE h = "open"
  BY <1>1, OffFields, NullFields
     DEF RtspSinkOps, RtspSinkFits, Calls, To, Fine, RtspSinkOpen, RtspPads, Ok, RtspFlags,
        Outcome, PadFlags, PadFlag, PadFields
<1>2. CASE h = "close"
  BY <1>2, OffFields, FreeFields
     DEF RtspSinkOps, RtspSinkFits, Calls, To, Fine, RtspSinkClose, RtspPads, Ok, PadFlags,
        RtspFlags, Outcome, PadFlag, PadFields
<1>3. CASE h = "start"
  BY <1>3, OnFields, OffFields, GetFields, NullFields, AvFlags
     DEF RtspSinkOps, RtspSinkFits, Calls, To, Fine, RtspSinkStart, RtspPads, Ok, Fail,
        Outcome
<1>4. CASE h = "stop"
  BY <1>4, OffFields, FreeFields
     DEF RtspSinkOps, RtspSinkFits, Calls, To, Fine, RtspSinkStop, RtspPads, RtspSinkClose,
        Ok, PadFlags, RtspFlags, Outcome, PadFlag, PadFields
<1>5. CASE h = "push"
  BY <1>5, OnFields, OffFields, GetFields, ShedFields
     DEF RtspSinkOps, RtspSinkFits, Calls, To, Fine, RtspSinkPush, RtspPads, Ok, Is,
        PadFlag, RtspSinkCheckEos, RtspSinkWritePacket, Outcome, PadFields, Has, Fail,
        RtspSinkPacer
<1>6. CASE h = "set_property"
  BY <1>6, OnFields
     DEF RtspSinkOps, RtspSinkFits, Calls, To, Fine, Derived, RtspSinkSetProperty, RtspPads,
        Outcome, Fail
<1> QED
  BY <1>1, <1>2, <1>3, <1>4, <1>5, <1>6
     DEF RtspSinkOps, NoHook

LEMMA IppCompKeeps ==
    ASSUME NEW h, NEW s, NEW q, NEW in, NEW o, NEW v, NEW r \in IppCompOps(h, q, in),
           IppCompFits(s, q, o), o \subseteq v, Calls(CompPads, h, s, q, in, v)
    PROVE  Fine(IppCompFits, {"canvas-width"}, {}, h, s, q, in, v, r)
<1>1. CASE h = "open"
  BY <1>1, OnFields, OffFields, GetFields
     DEF IppCompOps, IppCompFits, Calls, To, Fine, Odd, IppCompOpen, Is, CompPads, Fail,
        ThreadUnchecked, Outcome, Ok
<1>2. CASE h = "close"
  BY <1>2, OffFields, FreeFields, UseFields
     DEF IppCompOps, IppCompFits, Calls, To, Fine, Odd, IppCompClose, Is, CompPads, Ok,
        Joined, CompInputFree, Outcome, PadFlags, PadFlag, PadFields
<1>3. CASE h = "process"
  BY <1>3, OnFields, UseFields, ShedFields
     DEF IppCompOps, IppCompFits, Calls, To, Fine, Odd, CompProcess, Is, CompPads, Again,
        CompSinkPadPush, Outcome, Ok, Eof, MayFail, PadFlag, CompInputs, Fail, PadFields,
        Has
<1>4. CASE h = "push"
  BY <1>4, OnFields, UseFields, ShedFields
     DEF IppCompOps, IppCompFits, Calls, To, Fine, Odd, CompSinkPadPush, Is, CompPads, Ok,
        Eof, MayFail, PadFlag, CompInputs, Outcome, Fail, PadFields, Has
<1>5. CASE h = "thread"
  BY <1>5, StrayFields
     DEF IppCompOps, IppCompFits, Calls, To, Fine, Odd, IppCompWorker, Is, CompPads, Ok,
        Has, NoHook, IppCompRender, Outcome
<1>6. CASE h = "release_pad"
  <2>1. PICK m \in q.links :
           \/ r \in Fail(q)
           \/ r \in Ok(Unlinked(Off(Free(q, PadFlags({m}, "input")), PadFlags({m}, "eos")), m))
    BY <1>6 DEF IppCompOps, CompReleasePad, CompInputFree
  <2> DEFINE x == PadFlags({m}, "input")
             y == PadFlags({m}, "eos")
             t == Off(Free(q, x), y)
  <2>2. y \subseteq {"sink_0_eos", "sink_1_eos"} /\ x \subseteq {"sink_0_input", "sink_1_input"}
    BY SinkFlags DEF Calls, CompPads
  <2> HIDE DEF x, y
  <2>3. Struct(q)
    BY DEF IppCompFits
  <2>4. /\ Struct(t) /\ t.held = q.held \ x /\ t.on = q.on \ y /\ t.lost = q.lost
        /\ t.stray = q.stray /\ t.links = q.links
    BY <2>3, OffFields, FreeFields
  <2>5. r.p = q \/ r.p = Unlinked(t, m)
    BY <2>1 DEF Ok, Fail, Outcome, x, y
  <2> HIDE DEF t
  <2>6. CASE r.p = q
    BY <1>6, <2>6 DEF IppCompFits, To, Fine, Odd, Is
  <2>7. CASE r.p = Unlinked(t, m)
    BY <1>6, <2>2, <2>4, <2>7, UnlinkedFields DEF IppCompFits, To, Fine, Odd, Is
  <2> QED
    BY <2>5, <2>6, <2>7
<1>7. CASE h = "set_property"
  BY <1>7, OnFields
     DEF IppCompOps, IppCompFits, Calls, To, Fine, Derived, Odd, IppCompSetProperty, Is,
        CompPads, Ok, Fail, Has, Outcome
<1> QED
  BY <1>1, <1>2, <1>3, <1>4, <1>5, <1>6, <1>7
     DEF IppCompOps, NoHook

LEMMA GlCompKeeps ==
    ASSUME NEW h, NEW s, NEW q, NEW in, NEW o, NEW v, NEW r \in GlCompOps(h, q, in),
           GlCompFits(s, q, o), o \subseteq v, Calls(CompPads, h, s, q, in, v)
    PROVE  Fine(GlCompFits, {"canvas-width"}, {}, h, s, q, in, v, r)
<1>1. CASE h = "open"
  BY <1>1, OnFields, OffFields, GetFields, FreeFields
     DEF GlCompOps, GlCompFits, Calls, To, Fine, GlCompOpen, Is, CompPads, Ok, Finally, Has,
        ThreadUnchecked, GlCompWorkerInit, Outcome
<1>2. CASE h = "close"
  BY <1>2, OnFields, OffFields, GetFields, FreeFields, UseFields, SinkFlags
     DEF GlCompOps, GlCompFits, Calls, To, Fine, GlCompClose, Is, CompPads, Ok, Finally,
        Joined, CompInputFree, GlCompWorkerInit, Outcome, Has
<1>3. CASE h = "process"
  BY <1>3, OnFields, UseFields, ShedFields
     DEF GlCompOps, GlCompFits, Calls, To, Fine, CompProcess, Is, CompPads, Again,
        CompSinkPadPush, Outcome, Ok, Eof, MayFail, PadFlag, CompInputs, Fail, PadFields,
        Has
<1>4. CASE h = "push"
  BY <1>4, OnFields, UseFields, ShedFields
     DEF GlCompOps, GlCompFits, Calls, To, Fine, CompSinkPadPush, Is, CompPads, Ok, Eof,
        MayFail, PadFlag, CompInputs, Outcome, Fail, PadFields, Has
<1>5. CASE h = "thread"
  BY <1>5, OnFields, OffFields, GetFields, UseFields, SendFields
     DEF GlCompOps, GlCompFits, Calls, To, Fine, GlCompWorker, Is, CompPads, Ok, Has,
        NoHook, GlCompWorkerInit, GlCompRender, Outcome, Eof
<1>6. CASE h = "release_pad"
  <2>1. PICK m \in q.links :
           \/ r \in Fail(q)
           \/ r \in Ok(Unlinked(Off(Free(q, PadFlags({m}, "input")), PadFlags({m}, "eos")), m))
    BY <1>6 DEF GlCompOps, CompReleasePad, CompInputFree
  <2> DEFINE x == PadFlags({m}, "input")
             y == PadFlags({m}, "eos")
             t == Off(Free(q, x), y)
  <2>2. y \subseteq {"sink_0_eos", "sink_1_eos"} /\ x \subseteq {"sink_0_input", "sink_1_input"}
    BY SinkFlags DEF Calls, CompPads
  <2> HIDE DEF x, y
  <2>3. Struct(q)
    BY DEF GlCompFits
  <2>4. /\ Struct(t) /\ t.held = q.held \ x /\ t.on = q.on \ y /\ t.lost = q.lost
        /\ t.stray = q.stray /\ t.links = q.links
    BY <2>3, OffFields, FreeFields
  <2>5. r.p = q \/ r.p = Unlinked(t, m)
    BY <2>1 DEF Ok, Fail, Outcome, x, y
  <2> HIDE DEF t
  <2>6. CASE r.p = q
    BY <1>6, <2>6 DEF GlCompFits, To, Fine, Is
  <2>7. CASE r.p = Unlinked(t, m)
    BY <1>6, <2>2, <2>4, <2>7, UnlinkedFields DEF GlCompFits, To, Fine, Is
  <2> QED
    BY <2>5, <2>6, <2>7
<1>7. CASE h = "set_property"
  BY <1>7, OnFields
     DEF GlCompOps, GlCompFits, Calls, To, Fine, Derived, GlCompSetProperty, Is, CompPads,
        Ok, Fail, Outcome
<1> QED
  BY <1>1, <1>2, <1>3, <1>4, <1>5, <1>6, <1>7
     DEF GlCompOps, NoHook

-----------------------------------------------------------------------------
(* Every kind is sound.  A hook that is there has an outcome: an empty set  *)
(* of outcomes stands for a hook that is not there.                         *)
LEMMA Some ==
    \A q : Ok(q) # {} /\ Fail(q) # {} /\ (\E r : r \in Ok(q)) /\ \E r : r \in Fail(q)
  BY DEF Ok, Fail

LEMMA SessionSome == \A q : OneEncCreateSession(q) # {} /\ OneDecCreateSession(q) # {}
  BY Some DEF OneEncCreateSession, OneDecCreateSession, Then, AllOrNothing

LEMMA RtmpSrcEndedSome == \A q : \E r : r \in RtmpSrcEnded(q)
<1> SUFFICES ASSUME NEW q PROVE \E r : r \in RtmpSrcEnded(q)
  OBVIOUS
<1>1. PICK t : t \in Push(q, "eos")
  BY Some DEF Push
<1> QED
  BY <1>1, Some DEF RtmpSrcEnded, Regardless

LEMMA MuxStopSome == \A q : \E r : r \in MuxStop(q)
<1> SUFFICES ASSUME NEW q PROVE \E r : r \in MuxStop(q)
  OBVIOUS
<1>1. PICK t : t \in MuxEmit(q)
  BY DEF MuxEmit
<1>2. PICK w : w \in MuxTrailer(q)
  BY <1>1 DEF MuxTrailer
<1> QED
  BY <1>2, Some DEF MuxStop

LEMMA Mp4MuxStopSome == \A q : \E r : r \in Mp4MuxStop(q)
<1> SUFFICES ASSUME NEW q PROVE \E r : r \in Mp4MuxStop(q)
  OBVIOUS
<1>1. PICK t : t \in MuxStop(q)
  BY MuxStopSome
<1> QED
  BY <1>1, Some DEF Mp4MuxStop, Regardless

LEMMA AacEncSound == Sound("aacenc")
<1>1. /\ \A s, q, o : Fits("aacenc", s, q, o) <=> AacEncFits(s, q, o)
      /\ \A h, q, in : Ops("aacenc", h, q, in) = AacEncOps(h, q, in)
  BY DEF Fits, Ops
<1>2. /\ Pads("aacenc") = {"sink"} /\ Settings("aacenc") = {"bitrate"}
      /\ Forgotten("aacenc") = {"bitrate"}
  BY DEF Pads, Settings, Forgotten, Compositors
<1>3. Moves("aacenc")
  <2> SUFFICES ASSUME NEW h, NEW s, NEW q, NEW in, NEW o, NEW v, o \subseteq v,
                      NEW r \in Ops("aacenc", h, q, in), Fits("aacenc", s, q, o),
                      Calls(Pads("aacenc"), h, s, q, in, v)
               PROVE  Fine(LAMBDA a, b, c : Fits("aacenc", a, b, c), Settings("aacenc"),
                           Forgotten("aacenc"), h, s, q, in, v, r)
    BY DEF Moves
  <2>1. Fine(AacEncFits, {"bitrate"}, {"bitrate"}, h, s, q, in, v, r)
    BY <1>1, <1>2, AacEncKeeps
  <2> QED
    BY <1>1, <1>2, <2>1 DEF Fine
<1>4. Idle("aacenc")
  <2> SUFFICES ASSUME NEW h \in Hooks, NEW s, NEW q, NEW in, NEW o, AacEncFits(s, q, o),
                      Calls({"sink"}, h, s, q, in, o), AacEncOps(h, q, in) = NoHook
               PROVE  AacEncFits(To(h, s, "ok"), q, o)
    BY <1>1, <1>2 DEF Idle
  <2>1. h # "open"
    BY Some
       DEF AacEncOps, NoHook, AacEncOpen
  <2>2. h # "close"
    BY Some
       DEF AacEncOps, NoHook, AacEncClose, FreeCodec
  <2> QED
    BY <2>1, <2>2
       DEF AacEncFits, Hooks, To, Calls
<1>5. Steady("aacenc")
  BY <1>1 DEF Steady, AacEncFits, Nearly, Is
<1>6. Born("aacenc")
  BY <1>1 DEF Born, AacEncFits, Struct, Create, Calloc, Compositors, Is
<1>7. Safe("aacenc")
  BY <1>1 DEF Safe, AacEncFits, KnownLeaks, KnownStrays, Compositors, Odd, Is
<1> QED
  BY <1>3, <1>4, <1>5, <1>6, <1>7 DEF Sound

LEMMA OpusEncSound == Sound("opusenc")
<1>1. /\ \A s, q, o : Fits("opusenc", s, q, o) <=> AacEncFits(s, q, o)
      /\ \A h, q, in : Ops("opusenc", h, q, in) = OpusEncOps(h, q, in)
  BY DEF Fits, Ops
<1>2. /\ Pads("opusenc") = {"sink"} /\ Settings("opusenc") = {"bitrate"}
      /\ Forgotten("opusenc") = {"bitrate"}
  BY DEF Pads, Settings, Forgotten, Compositors
<1>3. Moves("opusenc")
  <2> SUFFICES ASSUME NEW h, NEW s, NEW q, NEW in, NEW o, NEW v, o \subseteq v,
                      NEW r \in Ops("opusenc", h, q, in), Fits("opusenc", s, q, o),
                      Calls(Pads("opusenc"), h, s, q, in, v)
               PROVE  Fine(LAMBDA a, b, c : Fits("opusenc", a, b, c), Settings("opusenc"),
                           Forgotten("opusenc"), h, s, q, in, v, r)
    BY DEF Moves
  <2>1. Fine(AacEncFits, {"bitrate"}, {"bitrate"}, h, s, q, in, v, r)
    BY <1>1, <1>2, OpusEncKeeps
  <2> QED
    BY <1>1, <1>2, <2>1 DEF Fine
<1>4. Idle("opusenc")
  <2> SUFFICES ASSUME NEW h \in Hooks, NEW s, NEW q, NEW in, NEW o, AacEncFits(s, q, o),
                      Calls({"sink"}, h, s, q, in, o), OpusEncOps(h, q, in) = NoHook
               PROVE  AacEncFits(To(h, s, "ok"), q, o)
    BY <1>1, <1>2 DEF Idle
  <2>1. h # "open"
    BY Some
       DEF OpusEncOps, NoHook, OpusEncOpen, AacEncOpen
  <2>2. h # "close"
    BY Some
       DEF OpusEncOps, NoHook, OpusEncClose, AacEncClose, FreeCodec
  <2> QED
    BY <2>1, <2>2
       DEF AacEncFits, Hooks, To, Calls
<1>5. Steady("opusenc")
  BY <1>1 DEF Steady, AacEncFits, Nearly, Is
<1>6. Born("opusenc")
  BY <1>1 DEF Born, AacEncFits, Struct, Create, Calloc, Compositors, Is
<1>7. Safe("opusenc")
  BY <1>1 DEF Safe, AacEncFits, KnownLeaks, KnownStrays, Compositors, Odd, Is
<1> QED
  BY <1>3, <1>4, <1>5, <1>6, <1>7 DEF Sound

LEMMA X264Sound == Sound("x264enc")
<1>1. /\ \A s, q, o : Fits("x264enc", s, q, o) <=> X264Fits(s, q, o)
      /\ \A h, q, in : Ops("x264enc", h, q, in) = X264Ops(h, q, in)
  BY DEF Fits, Ops
<1>2. /\ Pads("x264enc") = {"sink"} /\ Settings("x264enc") = {"bframes", "output_nal_units"}
      /\ Forgotten("x264enc") = {"bframes"}
  BY DEF Pads, Settings, Forgotten, Compositors
<1>3. Moves("x264enc")
  <2> SUFFICES ASSUME NEW h, NEW s, NEW q, NEW in, NEW o, NEW v, o \subseteq v,
                      NEW r \in Ops("x264enc", h, q, in), Fits("x264enc", s, q, o),
                      Calls(Pads("x264enc"), h, s, q, in, v)
               PROVE  Fine(LAMBDA a, b, c : Fits("x264enc", a, b, c), Settings("x264enc"),
                           Forgotten("x264enc"), h, s, q, in, v, r)
    BY DEF Moves
  <2>1. Fine(X264Fits, {"bframes", "output_nal_units"}, {"bframes"}, h, s, q, in, v, r)
    BY <1>1, <1>2, X264Keeps
  <2> QED
    BY <1>1, <1>2, <2>1 DEF Fine
<1>4. Idle("x264enc")
  <2> SUFFICES ASSUME NEW h \in Hooks, NEW s, NEW q, NEW in, NEW o, X264Fits(s, q, o),
                      Calls({"sink"}, h, s, q, in, o), X264Ops(h, q, in) = NoHook
               PROVE  X264Fits(To(h, s, "ok"), q, o)
    BY <1>1, <1>2 DEF Idle
  <2>1. h # "open"
    BY Some
       DEF X264Ops, NoHook, X264Open, PendingClear
  <2>2. h # "close"
    BY Some
       DEF X264Ops, NoHook, X264Close, FreeCodec, PendingClear
  <2> QED
    BY <2>1, <2>2
       DEF X264Fits, Hooks, To, Calls
<1>5. Steady("x264enc")
  BY <1>1 DEF Steady, X264Fits, Nearly, Is
<1>6. Born("x264enc")
  BY <1>1 DEF Born, X264Fits, Struct, Create, Calloc, Compositors, Is
<1>7. Safe("x264enc")
  BY <1>1 DEF Safe, X264Fits, KnownLeaks, KnownStrays, Compositors, Odd, Is
<1> QED
  BY <1>3, <1>4, <1>5, <1>6, <1>7 DEF Sound

LEMMA X265Sound == Sound("x265enc")
<1>1. /\ \A s, q, o : Fits("x265enc", s, q, o) <=> X265Fits(s, q, o)
      /\ \A h, q, in : Ops("x265enc", h, q, in) = X265Ops(h, q, in)
  BY DEF Fits, Ops
<1>2. /\ Pads("x265enc") = {"sink"} /\ Settings("x265enc") = {"bframes", "output_nal_units"}
      /\ Forgotten("x265enc") = {"bframes"}
  BY DEF Pads, Settings, Forgotten, Compositors
<1>3. Moves("x265enc")
  <2> SUFFICES ASSUME NEW h, NEW s, NEW q, NEW in, NEW o, NEW v, o \subseteq v,
                      NEW r \in Ops("x265enc", h, q, in), Fits("x265enc", s, q, o),
                      Calls(Pads("x265enc"), h, s, q, in, v)
               PROVE  Fine(LAMBDA a, b, c : Fits("x265enc", a, b, c), Settings("x265enc"),
                           Forgotten("x265enc"), h, s, q, in, v, r)
    BY DEF Moves
  <2>1. Fine(X265Fits, {"bframes", "output_nal_units"}, {"bframes"}, h, s, q, in, v, r)
    BY <1>1, <1>2, X265Keeps
  <2> QED
    BY <1>1, <1>2, <2>1 DEF Fine
<1>4. Idle("x265enc")
  <2> SUFFICES ASSUME NEW h \in Hooks, NEW s, NEW q, NEW in, NEW o, X265Fits(s, q, o),
                      Calls({"sink"}, h, s, q, in, o), X265Ops(h, q, in) = NoHook
               PROVE  X265Fits(To(h, s, "ok"), q, o)
    BY <1>1, <1>2 DEF Idle
  <2>1. h # "open"
    BY Some
       DEF X265Ops, NoHook, X265Open, PendingClear
  <2>2. h # "close"
    BY Some
       DEF X265Ops, NoHook, X265Close, FreeCodec, PendingClear
  <2> QED
    BY <2>1, <2>2
       DEF X265Fits, Hooks, To, Calls
<1>5. Steady("x265enc")
  BY <1>1 DEF Steady, X265Fits, Nearly, Is
<1>6. Born("x265enc")
  BY <1>1 DEF Born, X265Fits, Struct, Create, Calloc, Compositors, Is
<1>7. Safe("x265enc")
  BY <1>1 DEF Safe, X265Fits, KnownLeaks, KnownStrays, Compositors, Odd, Is
<1> QED
  BY <1>3, <1>4, <1>5, <1>6, <1>7 DEF Sound

LEMMA H265EncSound == Sound("h265enc")
<1>1. /\ \A s, q, o : Fits("h265enc", s, q, o) <=> H265EncFits(s, q, o)
      /\ \A h, q, in : Ops("h265enc", h, q, in) = H265EncOps(h, q, in)
  BY DEF Fits, Ops
<1>2. /\ Pads("h265enc") = {"sink"} /\ Settings("h265enc") = {"crf"}
      /\ Forgotten("h265enc") = {}
  BY DEF Pads, Settings, Forgotten, Compositors
<1>3. Moves("h265enc")
  <2> SUFFICES ASSUME NEW h, NEW s, NEW q, NEW in, NEW o, NEW v, o \subseteq v,
                      NEW r \in Ops("h265enc", h, q, in), Fits("h265enc", s, q, o),
                      Calls(Pads("h265enc"), h, s, q, in, v)
               PROVE  Fine(LAMBDA a, b, c : Fits("h265enc", a, b, c), Settings("h265enc"),
                           Forgotten("h265enc"), h, s, q, in, v, r)
    BY DEF Moves
  <2>1. Fine(H265EncFits, {"crf"}, {}, h, s, q, in, v, r)
    BY <1>1, <1>2, H265EncKeeps
  <2> QED
    BY <1>1, <1>2, <2>1 DEF Fine
<1>4. Idle("h265enc")
  <2> SUFFICES ASSUME NEW h \in Hooks, NEW s, NEW q, NEW in, NEW o, H265EncFits(s, q, o),
                      Calls({"sink"}, h, s, q, in, o), H265EncOps(h, q, in) = NoHook
               PROVE  H265EncFits(To(h, s, "ok"), q, o)
    BY <1>1, <1>2 DEF Idle
  <2>1. h # "open"
    BY Some
       DEF H265EncOps, NoHook, H265EncOpen, PendingClear
  <2>2. h # "close"
    BY Some
       DEF H265EncOps, NoHook, H265EncClose, FreeCodec, PendingClear
  <2> QED
    BY <2>1, <2>2
       DEF H265EncFits, Hooks, To, Calls
<1>5. Steady("h265enc")
  BY <1>1 DEF Steady, H265EncFits, Nearly, Is
<1>6. Born("h265enc")
  BY <1>1 DEF Born, H265EncFits, Struct, Create, Calloc, Compositors, Is
<1>7. Safe("h265enc")
  BY <1>1 DEF Safe, H265EncFits, KnownLeaks, KnownStrays, Compositors, Odd, Is
<1> QED
  BY <1>3, <1>4, <1>5, <1>6, <1>7 DEF Sound

LEMMA H264DecSound == Sound("h264dec")
<1>1. /\ \A s, q, o : Fits("h264dec", s, q, o) <=> H264DecFits(s, q, o)
      /\ \A h, q, in : Ops("h264dec", h, q, in) = H264DecOps(h, q, in)
  BY DEF Fits, Ops
<1>2. /\ Pads("h264dec") = {"sink"} /\ Settings("h264dec") = {"threads"}
      /\ Forgotten("h264dec") = {"threads"}
  BY DEF Pads, Settings, Forgotten, Compositors
<1>3. Moves("h264dec")
  <2> SUFFICES ASSUME NEW h, NEW s, NEW q, NEW in, NEW o, NEW v, o \subseteq v,
                      NEW r \in Ops("h264dec", h, q, in), Fits("h264dec", s, q, o),
                      Calls(Pads("h264dec"), h, s, q, in, v)
               PROVE  Fine(LAMBDA a, b, c : Fits("h264dec", a, b, c), Settings("h264dec"),
                           Forgotten("h264dec"), h, s, q, in, v, r)
    BY DEF Moves
  <2>1. Fine(H264DecFits, {"threads"}, {"threads"}, h, s, q, in, v, r)
    BY <1>1, <1>2, H264DecKeeps
  <2> QED
    BY <1>1, <1>2, <2>1 DEF Fine
<1>4. Idle("h264dec")
  <2> SUFFICES ASSUME NEW h \in Hooks, NEW s, NEW q, NEW in, NEW o, H264DecFits(s, q, o),
                      Calls({"sink"}, h, s, q, in, o), H264DecOps(h, q, in) = NoHook
               PROVE  H264DecFits(To(h, s, "ok"), q, o)
    BY <1>1, <1>2 DEF Idle
  <2>1. h # "open"
    BY Some
       DEF H264DecOps, NoHook, H264Open
  <2>2. h # "close"
    BY Some
       DEF H264DecOps, NoHook, H264Close, FreeCodec
  <2> QED
    BY <2>1, <2>2
       DEF H264DecFits, Hooks, To, Calls
<1>5. Steady("h264dec")
  BY <1>1 DEF Steady, H264DecFits, Nearly, Is
<1>6. Born("h264dec")
  BY <1>1 DEF Born, H264DecFits, Struct, Create, Calloc, Compositors, Is
<1>7. Safe("h264dec")
  BY <1>1 DEF Safe, H264DecFits, KnownLeaks, KnownStrays, Compositors, Odd, Is
<1> QED
  BY <1>3, <1>4, <1>5, <1>6, <1>7 DEF Sound

LEMMA H265DecSound == Sound("h265dec")
<1>1. /\ \A s, q, o : Fits("h265dec", s, q, o) <=> H264DecFits(s, q, o)
      /\ \A h, q, in : Ops("h265dec", h, q, in) = H265DecOps(h, q, in)
  BY DEF Fits, Ops
<1>2. /\ Pads("h265dec") = {"sink"} /\ Settings("h265dec") = {"threads"}
      /\ Forgotten("h265dec") = {"threads"}
  BY DEF Pads, Settings, Forgotten, Compositors
<1>3. Moves("h265dec")
  <2> SUFFICES ASSUME NEW h, NEW s, NEW q, NEW in, NEW o, NEW v, o \subseteq v,
                      NEW r \in Ops("h265dec", h, q, in), Fits("h265dec", s, q, o),
                      Calls(Pads("h265dec"), h, s, q, in, v)
               PROVE  Fine(LAMBDA a, b, c : Fits("h265dec", a, b, c), Settings("h265dec"),
                           Forgotten("h265dec"), h, s, q, in, v, r)
    BY DEF Moves
  <2>1. Fine(H264DecFits, {"threads"}, {"threads"}, h, s, q, in, v, r)
    BY <1>1, <1>2, H265DecKeeps
  <2> QED
    BY <1>1, <1>2, <2>1 DEF Fine
<1>4. Idle("h265dec")
  <2> SUFFICES ASSUME NEW h \in Hooks, NEW s, NEW q, NEW in, NEW o, H264DecFits(s, q, o),
                      Calls({"sink"}, h, s, q, in, o), H265DecOps(h, q, in) = NoHook
               PROVE  H264DecFits(To(h, s, "ok"), q, o)
    BY <1>1, <1>2 DEF Idle
  <2>1. h # "open"
    BY Some
       DEF H265DecOps, NoHook, H265DecOpen, H264Open
  <2>2. h # "close"
    BY Some
       DEF H265DecOps, NoHook, H265DecClose, H264Close, FreeCodec
  <2> QED
    BY <2>1, <2>2
       DEF H264DecFits, Hooks, To, Calls
<1>5. Steady("h265dec")
  BY <1>1 DEF Steady, H264DecFits, Nearly, Is
<1>6. Born("h265dec")
  BY <1>1 DEF Born, H264DecFits, Struct, Create, Calloc, Compositors, Is
<1>7. Safe("h265dec")
  BY <1>1 DEF Safe, H264DecFits, KnownLeaks, KnownStrays, Compositors, Odd, Is
<1> QED
  BY <1>3, <1>4, <1>5, <1>6, <1>7 DEF Sound

LEMMA AacDecSound == Sound("aacdec")
<1>1. /\ \A s, q, o : Fits("aacdec", s, q, o) <=> AacDecFits(s, q, o)
      /\ \A h, q, in : Ops("aacdec", h, q, in) = AacDecOps(h, q, in)
  BY DEF Fits, Ops
<1>2. /\ Pads("aacdec") = {"sink"} /\ Settings("aacdec") = {"threads", "fixed_point"}
      /\ Forgotten("aacdec") = {"threads"}
  BY DEF Pads, Settings, Forgotten, Compositors
<1>3. Moves("aacdec")
  <2> SUFFICES ASSUME NEW h, NEW s, NEW q, NEW in, NEW o, NEW v, o \subseteq v,
                      NEW r \in Ops("aacdec", h, q, in), Fits("aacdec", s, q, o),
                      Calls(Pads("aacdec"), h, s, q, in, v)
               PROVE  Fine(LAMBDA a, b, c : Fits("aacdec", a, b, c), Settings("aacdec"),
                           Forgotten("aacdec"), h, s, q, in, v, r)
    BY DEF Moves
  <2>1. Fine(AacDecFits, {"threads", "fixed_point"}, {"threads"}, h, s, q, in, v, r)
    BY <1>1, <1>2, AacDecKeeps
  <2> QED
    BY <1>1, <1>2, <2>1 DEF Fine
<1>4. Idle("aacdec")
  <2> SUFFICES ASSUME NEW h \in Hooks, NEW s, NEW q, NEW in, NEW o, AacDecFits(s, q, o),
                      Calls({"sink"}, h, s, q, in, o), AacDecOps(h, q, in) = NoHook
               PROVE  AacDecFits(To(h, s, "ok"), q, o)
    BY <1>1, <1>2 DEF Idle
  <2>1. h # "open"
    BY Some
       DEF AacDecOps, NoHook, AacDecOpen
  <2>2. h # "close"
    BY Some
       DEF AacDecOps, NoHook, AacDecClose, FreeCodec
  <2> QED
    BY <2>1, <2>2
       DEF AacDecFits, Hooks, To, Calls
<1>5. Steady("aacdec")
  BY <1>1 DEF Steady, AacDecFits, Nearly, Is
<1>6. Born("aacdec")
  BY <1>1 DEF Born, AacDecFits, Struct, Create, Calloc, Compositors, Is
<1>7. Safe("aacdec")
  BY <1>1 DEF Safe, AacDecFits, KnownLeaks, KnownStrays, Compositors, Odd, Is
<1> QED
  BY <1>3, <1>4, <1>5, <1>6, <1>7 DEF Sound

LEMMA OpusDecSound == Sound("opusdec")
<1>1. /\ \A s, q, o : Fits("opusdec", s, q, o) <=> AacDecFits(s, q, o)
      /\ \A h, q, in : Ops("opusdec", h, q, in) = OpusDecOps(h, q, in)
  BY DEF Fits, Ops
<1>2. /\ Pads("opusdec") = {"sink"} /\ Settings("opusdec") = {"threads"}
      /\ Forgotten("opusdec") = {"threads"}
  BY DEF Pads, Settings, Forgotten, Compositors
<1>3. Moves("opusdec")
  <2> SUFFICES ASSUME NEW h, NEW s, NEW q, NEW in, NEW o, NEW v, o \subseteq v,
                      NEW r \in Ops("opusdec", h, q, in), Fits("opusdec", s, q, o),
                      Calls(Pads("opusdec"), h, s, q, in, v)
               PROVE  Fine(LAMBDA a, b, c : Fits("opusdec", a, b, c), Settings("opusdec"),
                           Forgotten("opusdec"), h, s, q, in, v, r)
    BY DEF Moves
  <2>1. Fine(AacDecFits, {"threads"}, {"threads"}, h, s, q, in, v, r)
    BY <1>1, <1>2, OpusDecKeeps
  <2> QED
    BY <1>1, <1>2, <2>1 DEF Fine
<1>4. Idle("opusdec")
  <2> SUFFICES ASSUME NEW h \in Hooks, NEW s, NEW q, NEW in, NEW o, AacDecFits(s, q, o),
                      Calls({"sink"}, h, s, q, in, o), OpusDecOps(h, q, in) = NoHook
               PROVE  AacDecFits(To(h, s, "ok"), q, o)
    BY <1>1, <1>2 DEF Idle
  <2>1. h # "open"
    BY Some
       DEF OpusDecOps, NoHook, OpusDecOpen, AacDecOpen
  <2>2. h # "close"
    BY Some
       DEF OpusDecOps, NoHook, OpusDecClose, AacDecClose, FreeCodec
  <2> QED
    BY <2>1, <2>2
       DEF AacDecFits, Hooks, To, Calls
<1>5. Steady("opusdec")
  BY <1>1 DEF Steady, AacDecFits, Nearly, Is
<1>6. Born("opusdec")
  BY <1>1 DEF Born, AacDecFits, Struct, Create, Calloc, Compositors, Is
<1>7. Safe("opusdec")
  BY <1>1 DEF Safe, AacDecFits, KnownLeaks, KnownStrays, Compositors, Odd, Is
<1> QED
  BY <1>3, <1>4, <1>5, <1>6, <1>7 DEF Sound

LEMMA Vp8EncSound == Sound("vp8enc")
<1>1. /\ \A s, q, o : Fits("vp8enc", s, q, o) <=> Vp8EncFits(s, q, o)
      /\ \A h, q, in : Ops("vp8enc", h, q, in) = Vp8EncOps(h, q, in)
  BY DEF Fits, Ops
<1>2. /\ Pads("vp8enc") = {"sink"} /\ Settings("vp8enc") = {"size", "threads"}
      /\ Forgotten("vp8enc") = {}
  BY DEF Pads, Settings, Forgotten, Compositors
<1>3. Moves("vp8enc")
  <2> SUFFICES ASSUME NEW h, NEW s, NEW q, NEW in, NEW o, NEW v, o \subseteq v,
                      NEW r \in Ops("vp8enc", h, q, in), Fits("vp8enc", s, q, o),
                      Calls(Pads("vp8enc"), h, s, q, in, v)
               PROVE  Fine(LAMBDA a, b, c : Fits("vp8enc", a, b, c), Settings("vp8enc"),
                           Forgotten("vp8enc"), h, s, q, in, v, r)
    BY DEF Moves
  <2>1. Fine(Vp8EncFits, {"size", "threads"}, {}, h, s, q, in, v, r)
    BY <1>1, <1>2, Vp8EncKeeps
  <2> QED
    BY <1>1, <1>2, <2>1 DEF Fine
<1>4. Idle("vp8enc")
  <2> SUFFICES ASSUME NEW h \in Hooks, NEW s, NEW q, NEW in, NEW o, Vp8EncFits(s, q, o),
                      Calls({"sink"}, h, s, q, in, o), Vp8EncOps(h, q, in) = NoHook
               PROVE  Vp8EncFits(To(h, s, "ok"), q, o)
    BY <1>1, <1>2 DEF Idle
  <2>1. h # "open"
    BY Some
       DEF Vp8EncOps, NoHook, Vp8EncOpen
  <2>2. h # "close"
    BY Some
       DEF Vp8EncOps, NoHook, Vp8EncClose, FreeCodec
  <2> QED
    BY <2>1, <2>2
       DEF Vp8EncFits, Hooks, To, Calls
<1>5. Steady("vp8enc")
  BY <1>1 DEF Steady, Vp8EncFits, Nearly, Is
<1>6. Born("vp8enc")
  BY <1>1 DEF Born, Vp8EncFits, Struct, Create, Calloc, Compositors, Is
<1>7. Safe("vp8enc")
  BY <1>1 DEF Safe, Vp8EncFits, KnownLeaks, KnownStrays, Compositors, Odd, Is
<1> QED
  BY <1>3, <1>4, <1>5, <1>6, <1>7 DEF Sound

LEMMA Vp8DecSound == Sound("vp8dec")
<1>1. /\ \A s, q, o : Fits("vp8dec", s, q, o) <=> Vp8DecFits(s, q, o)
      /\ \A h, q, in : Ops("vp8dec", h, q, in) = Vp8DecOps(h, q, in)
  BY DEF Fits, Ops
<1>2. /\ Pads("vp8dec") = {"sink"} /\ Settings("vp8dec") = {"threads"}
      /\ Forgotten("vp8dec") = {"threads"}
  BY DEF Pads, Settings, Forgotten, Compositors
<1>3. Moves("vp8dec")
  <2> SUFFICES ASSUME NEW h, NEW s, NEW q, NEW in, NEW o, NEW v, o \subseteq v,
                      NEW r \in Ops("vp8dec", h, q, in), Fits("vp8dec", s, q, o),
                      Calls(Pads("vp8dec"), h, s, q, in, v)
               PROVE  Fine(LAMBDA a, b, c : Fits("vp8dec", a, b, c), Settings("vp8dec"),
                           Forgotten("vp8dec"), h, s, q, in, v, r)
    BY DEF Moves
  <2>1. Fine(Vp8DecFits, {"threads"}, {"threads"}, h, s, q, in, v, r)
    BY <1>1, <1>2, Vp8DecKeeps
  <2> QED
    BY <1>1, <1>2, <2>1 DEF Fine
<1>4. Idle("vp8dec")
  <2> SUFFICES ASSUME NEW h \in Hooks, NEW s, NEW q, NEW in, NEW o, Vp8DecFits(s, q, o),
                      Calls({"sink"}, h, s, q, in, o), Vp8DecOps(h, q, in) = NoHook
               PROVE  Vp8DecFits(To(h, s, "ok"), q, o)
    BY <1>1, <1>2 DEF Idle
  <2>1. h # "open"
    BY Some
       DEF Vp8DecOps, NoHook, Vp8DecOpen
  <2>2. h # "close"
    BY Some
       DEF Vp8DecOps, NoHook, Vp8DecClose, FreeCodec
  <2> QED
    BY <2>1, <2>2
       DEF Vp8DecFits, Hooks, To, Calls
<1>5. Steady("vp8dec")
  BY <1>1 DEF Steady, Vp8DecFits, Nearly, Is
<1>6. Born("vp8dec")
  BY <1>1 DEF Born, Vp8DecFits, Struct, Create, Calloc, Compositors, Is
<1>7. Safe("vp8dec")
  BY <1>1 DEF Safe, Vp8DecFits, KnownLeaks, KnownStrays, Compositors, Odd, Is
<1> QED
  BY <1>3, <1>4, <1>5, <1>6, <1>7 DEF Sound

LEMMA Vp9EncSound == Sound("vp9enc")
<1>1. /\ \A s, q, o : Fits("vp9enc", s, q, o) <=> Vp8EncFits(s, q, o)
      /\ \A h, q, in : Ops("vp9enc", h, q, in) = Vp9EncOps(h, q, in)
  BY DEF Fits, Ops
<1>2. /\ Pads("vp9enc") = {"sink"} /\ Settings("vp9enc") = {"size", "threads"}
      /\ Forgotten("vp9enc") = {}
  BY DEF Pads, Settings, Forgotten, Compositors
<1>3. Moves("vp9enc")
  <2> SUFFICES ASSUME NEW h, NEW s, NEW q, NEW in, NEW o, NEW v, o \subseteq v,
                      NEW r \in Ops("vp9enc", h, q, in), Fits("vp9enc", s, q, o),
                      Calls(Pads("vp9enc"), h, s, q, in, v)
               PROVE  Fine(LAMBDA a, b, c : Fits("vp9enc", a, b, c), Settings("vp9enc"),
                           Forgotten("vp9enc"), h, s, q, in, v, r)
    BY DEF Moves
  <2>1. Fine(Vp8EncFits, {"size", "threads"}, {}, h, s, q, in, v, r)
    BY <1>1, <1>2, Vp9EncKeeps
  <2> QED
    BY <1>1, <1>2, <2>1 DEF Fine
<1>4. Idle("vp9enc")
  <2> SUFFICES ASSUME NEW h \in Hooks, NEW s, NEW q, NEW in, NEW o, Vp8EncFits(s, q, o),
                      Calls({"sink"}, h, s, q, in, o), Vp9EncOps(h, q, in) = NoHook
               PROVE  Vp8EncFits(To(h, s, "ok"), q, o)
    BY <1>1, <1>2 DEF Idle
  <2>1. h # "open"
    BY Some
       DEF Vp9EncOps, NoHook, Vp9EncOpen, Vp8EncOpen
  <2>2. h # "close"
    BY Some
       DEF Vp9EncOps, NoHook, Vp9EncClose, Vp8EncClose, FreeCodec
  <2> QED
    BY <2>1, <2>2
       DEF Vp8EncFits, Hooks, To, Calls
<1>5. Steady("vp9enc")
  BY <1>1 DEF Steady, Vp8EncFits, Nearly, Is
<1>6. Born("vp9enc")
  BY <1>1 DEF Born, Vp8EncFits, Struct, Create, Calloc, Compositors, Is
<1>7. Safe("vp9enc")
  BY <1>1 DEF Safe, Vp8EncFits, KnownLeaks, KnownStrays, Compositors, Odd, Is
<1> QED
  BY <1>3, <1>4, <1>5, <1>6, <1>7 DEF Sound

LEMMA Vp9DecSound == Sound("vp9dec")
<1>1. /\ \A s, q, o : Fits("vp9dec", s, q, o) <=> Vp8DecFits(s, q, o)
      /\ \A h, q, in : Ops("vp9dec", h, q, in) = Vp9DecOps(h, q, in)
  BY DEF Fits, Ops
<1>2. /\ Pads("vp9dec") = {"sink"} /\ Settings("vp9dec") = {"threads"}
      /\ Forgotten("vp9dec") = {"threads"}
  BY DEF Pads, Settings, Forgotten, Compositors
<1>3. Moves("vp9dec")
  <2> SUFFICES ASSUME NEW h, NEW s, NEW q, NEW in, NEW o, NEW v, o \subseteq v,
                      NEW r \in Ops("vp9dec", h, q, in), Fits("vp9dec", s, q, o),
                      Calls(Pads("vp9dec"), h, s, q, in, v)
               PROVE  Fine(LAMBDA a, b, c : Fits("vp9dec", a, b, c), Settings("vp9dec"),
                           Forgotten("vp9dec"), h, s, q, in, v, r)
    BY DEF Moves
  <2>1. Fine(Vp8DecFits, {"threads"}, {"threads"}, h, s, q, in, v, r)
    BY <1>1, <1>2, Vp9DecKeeps
  <2> QED
    BY <1>1, <1>2, <2>1 DEF Fine
<1>4. Idle("vp9dec")
  <2> SUFFICES ASSUME NEW h \in Hooks, NEW s, NEW q, NEW in, NEW o, Vp8DecFits(s, q, o),
                      Calls({"sink"}, h, s, q, in, o), Vp9DecOps(h, q, in) = NoHook
               PROVE  Vp8DecFits(To(h, s, "ok"), q, o)
    BY <1>1, <1>2 DEF Idle
  <2>1. h # "open"
    BY Some
       DEF Vp9DecOps, NoHook, Vp9DecOpen, Vp8DecOpen
  <2>2. h # "close"
    BY Some
       DEF Vp9DecOps, NoHook, Vp9DecClose, Vp8DecClose, FreeCodec
  <2> QED
    BY <2>1, <2>2
       DEF Vp8DecFits, Hooks, To, Calls
<1>5. Steady("vp9dec")
  BY <1>1 DEF Steady, Vp8DecFits, Nearly, Is
<1>6. Born("vp9dec")
  BY <1>1 DEF Born, Vp8DecFits, Struct, Create, Calloc, Compositors, Is
<1>7. Safe("vp9dec")
  BY <1>1 DEF Safe, Vp8DecFits, KnownLeaks, KnownStrays, Compositors, Odd, Is
<1> QED
  BY <1>3, <1>4, <1>5, <1>6, <1>7 DEF Sound

LEMMA NvEncSound == Sound("nvenc")
<1>1. /\ \A s, q, o : Fits("nvenc", s, q, o) <=> NvEncFits(s, q, o)
      /\ \A h, q, in : Ops("nvenc", h, q, in) = NvEncOps(h, q, in)
  BY DEF Fits, Ops
<1>2. /\ Pads("nvenc") = {"sink"} /\ Settings("nvenc") = {"codec"}
      /\ Forgotten("nvenc") = {}
  BY DEF Pads, Settings, Forgotten, Compositors
<1>3. Moves("nvenc")
  <2> SUFFICES ASSUME NEW h, NEW s, NEW q, NEW in, NEW o, NEW v, o \subseteq v,
                      NEW r \in Ops("nvenc", h, q, in), Fits("nvenc", s, q, o),
                      Calls(Pads("nvenc"), h, s, q, in, v)
               PROVE  Fine(LAMBDA a, b, c : Fits("nvenc", a, b, c), Settings("nvenc"),
                           Forgotten("nvenc"), h, s, q, in, v, r)
    BY DEF Moves
  <2>1. Fine(NvEncFits, {"codec"}, {}, h, s, q, in, v, r)
    BY <1>1, <1>2, NvEncKeeps
  <2> QED
    BY <1>1, <1>2, <2>1 DEF Fine
<1>4. Idle("nvenc")
  <2> SUFFICES ASSUME NEW h \in Hooks, NEW s, NEW q, NEW in, NEW o, NvEncFits(s, q, o),
                      Calls({"sink"}, h, s, q, in, o), NvEncOps(h, q, in) = NoHook
               PROVE  NvEncFits(To(h, s, "ok"), q, o)
    BY <1>1, <1>2 DEF Idle
  <2>1. h # "open"
    BY Some
       DEF NvEncOps, NoHook, NvEncOpen
  <2>2. h # "start"
    BY Some
       DEF NvEncOps, NoHook, NvEncStart
  <2>3. h # "stop"
    BY Some
       DEF NvEncOps, NoHook, NvEncStop
  <2>4. h # "close"
    BY Some
       DEF NvEncOps, NoHook, NvEncClose, FreeCodec
  <2> QED
    BY <2>1, <2>2, <2>3, <2>4
       DEF NvEncFits, Hooks, To, Calls
<1>5. Steady("nvenc")
  BY <1>1 DEF Steady, NvEncFits, Nearly, Is
<1>6. Born("nvenc")
  BY <1>1 DEF Born, NvEncFits, Struct, Create, Calloc, Compositors, Is
<1>7. Safe("nvenc")
  BY <1>1 DEF Safe, NvEncFits, KnownLeaks, KnownStrays, Compositors, Odd, Is
<1> QED
  BY <1>3, <1>4, <1>5, <1>6, <1>7 DEF Sound

LEMMA NvDecSound == Sound("nvdec")
<1>1. /\ \A s, q, o : Fits("nvdec", s, q, o) <=> NvDecFits(s, q, o)
      /\ \A h, q, in : Ops("nvdec", h, q, in) = NvDecOps(h, q, in)
  BY DEF Fits, Ops
<1>2. /\ Pads("nvdec") = {"sink"} /\ Settings("nvdec") = {"codec"}
      /\ Forgotten("nvdec") = {}
  BY DEF Pads, Settings, Forgotten, Compositors
<1>3. Moves("nvdec")
  <2> SUFFICES ASSUME NEW h, NEW s, NEW q, NEW in, NEW o, NEW v, o \subseteq v,
                      NEW r \in Ops("nvdec", h, q, in), Fits("nvdec", s, q, o),
                      Calls(Pads("nvdec"), h, s, q, in, v)
               PROVE  Fine(LAMBDA a, b, c : Fits("nvdec", a, b, c), Settings("nvdec"),
                           Forgotten("nvdec"), h, s, q, in, v, r)
    BY DEF Moves
  <2>1. Fine(NvDecFits, {"codec"}, {}, h, s, q, in, v, r)
    BY <1>1, <1>2, NvDecKeeps
  <2> QED
    BY <1>1, <1>2, <2>1 DEF Fine
<1>4. Idle("nvdec")
  <2> SUFFICES ASSUME NEW h \in Hooks, NEW s, NEW q, NEW in, NEW o, NvDecFits(s, q, o),
                      Calls({"sink"}, h, s, q, in, o), NvDecOps(h, q, in) = NoHook
               PROVE  NvDecFits(To(h, s, "ok"), q, o)
    BY <1>1, <1>2 DEF Idle
  <2>1. h # "open"
    BY Some
       DEF NvDecOps, NoHook, NvDecOpen
  <2>2. h # "start"
    BY Some
       DEF NvDecOps, NoHook, NvDecStart
  <2>3. h # "stop"
    BY Some
       DEF NvDecOps, NoHook, NvDecStop, NvEncStop
  <2>4. h # "close"
    BY Some
       DEF NvDecOps, NoHook, NvDecClose, FreeCodec, NvDecCleanupBuffers
  <2> QED
    BY <2>1, <2>2, <2>3, <2>4
       DEF NvDecFits, Hooks, To, Calls
<1>5. Steady("nvdec")
  BY <1>1 DEF Steady, NvDecFits, Nearly, Is
<1>6. Born("nvdec")
  BY <1>1 DEF Born, NvDecFits, Struct, Create, Calloc, Compositors, Is
<1>7. Safe("nvdec")
  BY <1>1 DEF Safe, NvDecFits, KnownLeaks, KnownStrays, Compositors, Odd, Is
<1> QED
  BY <1>3, <1>4, <1>5, <1>6, <1>7 DEF Sound

LEMMA NvScaleSound == Sound("nvscale")
<1>1. /\ \A s, q, o : Fits("nvscale", s, q, o) <=> NvScaleFits(s, q, o)
      /\ \A h, q, in : Ops("nvscale", h, q, in) = NvScaleOps(h, q, in)
  BY DEF Fits, Ops
<1>2. /\ Pads("nvscale") = {"sink"} /\ Settings("nvscale") = {"width"}
      /\ Forgotten("nvscale") = {}
  BY DEF Pads, Settings, Forgotten, Compositors
<1>3. Moves("nvscale")
  <2> SUFFICES ASSUME NEW h, NEW s, NEW q, NEW in, NEW o, NEW v, o \subseteq v,
                      NEW r \in Ops("nvscale", h, q, in), Fits("nvscale", s, q, o),
                      Calls(Pads("nvscale"), h, s, q, in, v)
               PROVE  Fine(LAMBDA a, b, c : Fits("nvscale", a, b, c), Settings("nvscale"),
                           Forgotten("nvscale"), h, s, q, in, v, r)
    BY DEF Moves
  <2>1. Fine(NvScaleFits, {"width"}, {}, h, s, q, in, v, r)
    BY <1>1, <1>2, NvScaleKeeps
  <2> QED
    BY <1>1, <1>2, <2>1 DEF Fine
<1>4. Idle("nvscale")
  <2> SUFFICES ASSUME NEW h \in Hooks, NEW s, NEW q, NEW in, NEW o, NvScaleFits(s, q, o),
                      Calls({"sink"}, h, s, q, in, o), NvScaleOps(h, q, in) = NoHook
               PROVE  NvScaleFits(To(h, s, "ok"), q, o)
    BY <1>1, <1>2 DEF Idle
  <2>1. h # "open"
    BY Some
       DEF NvScaleOps, NoHook, NvScaleOpen
  <2>2. h # "start"
    BY Some
       DEF NvScaleOps, NoHook, NvScaleStart
  <2>3. h # "stop"
    BY Some
       DEF NvScaleOps, NoHook, NvScaleStop, NvEncStop
  <2>4. h # "close"
    BY Some
       DEF NvScaleOps, NoHook, NvScaleClose, FreeCodec
  <2> QED
    BY <2>1, <2>2, <2>3, <2>4
       DEF NvScaleFits, Hooks, To, Calls
<1>5. Steady("nvscale")
  BY <1>1 DEF Steady, NvScaleFits, Nearly, Is
<1>6. Born("nvscale")
  BY <1>1 DEF Born, NvScaleFits, Struct, Create, Calloc, Compositors, Is
<1>7. Safe("nvscale")
  BY <1>1 DEF Safe, NvScaleFits, KnownLeaks, KnownStrays, Compositors, Odd, Is
<1> QED
  BY <1>3, <1>4, <1>5, <1>6, <1>7 DEF Sound

LEMMA VaEncSound == Sound("vaapienc")
<1>1. /\ \A s, q, o : Fits("vaapienc", s, q, o) <=> VaEncFits(s, q, o)
      /\ \A h, q, in : Ops("vaapienc", h, q, in) = VaEncOps(h, q, in)
  BY DEF Fits, Ops
<1>2. /\ Pads("vaapienc") = {"sink"} /\ Settings("vaapienc") = {"device"}
      /\ Forgotten("vaapienc") = {}
  BY DEF Pads, Settings, Forgotten, Compositors
<1>3. Moves("vaapienc")
  <2> SUFFICES ASSUME NEW h, NEW s, NEW q, NEW in, NEW o, NEW v, o \subseteq v,
                      NEW r \in Ops("vaapienc", h, q, in), Fits("vaapienc", s, q, o),
                      Calls(Pads("vaapienc"), h, s, q, in, v)
               PROVE  Fine(LAMBDA a, b, c : Fits("vaapienc", a, b, c), Settings("vaapienc"),
                           Forgotten("vaapienc"), h, s, q, in, v, r)
    BY DEF Moves
  <2>1. Fine(VaEncFits, {"device"}, {}, h, s, q, in, v, r)
    BY <1>1, <1>2, VaEncKeeps
  <2> QED
    BY <1>1, <1>2, <2>1 DEF Fine
<1>4. Idle("vaapienc")
  <2> SUFFICES ASSUME NEW h \in Hooks, NEW s, NEW q, NEW in, NEW o, VaEncFits(s, q, o),
                      Calls({"sink"}, h, s, q, in, o), VaEncOps(h, q, in) = NoHook
               PROVE  VaEncFits(To(h, s, "ok"), q, o)
    BY <1>1, <1>2 DEF Idle
  <2>1. h # "open"
    BY Some
       DEF VaEncOps, NoHook, VaEncOpen, AllOrNothing, PendingClear
  <2>2. h # "close"
    BY Some
       DEF VaEncOps, NoHook, VaEncClose, FreeCodec, PendingClear
  <2> QED
    BY <2>1, <2>2
       DEF VaEncFits, Hooks, To, Calls
<1>5. Steady("vaapienc")
  BY <1>1 DEF Steady, VaEncFits, Nearly, Is
<1>6. Born("vaapienc")
  BY <1>1 DEF Born, VaEncFits, Struct, Create, Calloc, Compositors, Is
<1>7. Safe("vaapienc")
  BY <1>1 DEF Safe, VaEncFits, KnownLeaks, KnownStrays, Compositors, Odd, Is
<1> QED
  BY <1>3, <1>4, <1>5, <1>6, <1>7 DEF Sound

LEMMA VaDecSound == Sound("vaapidec")
<1>1. /\ \A s, q, o : Fits("vaapidec", s, q, o) <=> VaDecFits(s, q, o)
      /\ \A h, q, in : Ops("vaapidec", h, q, in) = VaDecOps(h, q, in)
  BY DEF Fits, Ops
<1>2. /\ Pads("vaapidec") = {"sink"} /\ Settings("vaapidec") = {"codec", "dmabuf"}
      /\ Forgotten("vaapidec") = {}
  BY DEF Pads, Settings, Forgotten, Compositors
<1>3. Moves("vaapidec")
  <2> SUFFICES ASSUME NEW h, NEW s, NEW q, NEW in, NEW o, NEW v, o \subseteq v,
                      NEW r \in Ops("vaapidec", h, q, in), Fits("vaapidec", s, q, o),
                      Calls(Pads("vaapidec"), h, s, q, in, v)
               PROVE  Fine(LAMBDA a, b, c : Fits("vaapidec", a, b, c), Settings("vaapidec"),
                           Forgotten("vaapidec"), h, s, q, in, v, r)
    BY DEF Moves
  <2>1. Fine(VaDecFits, {"codec", "dmabuf"}, {}, h, s, q, in, v, r)
    BY <1>1, <1>2, VaDecKeeps
  <2> QED
    BY <1>1, <1>2, <2>1 DEF Fine
<1>4. Idle("vaapidec")
  <2> SUFFICES ASSUME NEW h \in Hooks, NEW s, NEW q, NEW in, NEW o, VaDecFits(s, q, o),
                      Calls({"sink"}, h, s, q, in, o), VaDecOps(h, q, in) = NoHook
               PROVE  VaDecFits(To(h, s, "ok"), q, o)
    BY <1>1, <1>2 DEF Idle
  <2>1. h # "open"
    BY Some
       DEF VaDecOps, NoHook, VaDecOpen
  <2>2. h # "close"
    BY Some
       DEF VaDecOps, NoHook, VaDecClose, FreeCodec
  <2> QED
    BY <2>1, <2>2
       DEF VaDecFits, Hooks, To, Calls
<1>5. Steady("vaapidec")
  BY <1>1 DEF Steady, VaDecFits, Nearly, Is
<1>6. Born("vaapidec")
  BY <1>1 DEF Born, VaDecFits, Struct, Create, Calloc, Compositors, Is
<1>7. Safe("vaapidec")
  BY <1>1 DEF Safe, VaDecFits, KnownLeaks, KnownStrays, Compositors, Odd, Is
<1> QED
  BY <1>3, <1>4, <1>5, <1>6, <1>7 DEF Sound

LEMMA OneEncSound == Sound("oneapienc")
<1>1. /\ \A s, q, o : Fits("oneapienc", s, q, o) <=> OneEncFits(s, q, o)
      /\ \A h, q, in : Ops("oneapienc", h, q, in) = OneEncOps(h, q, in)
  BY DEF Fits, Ops
<1>2. /\ Pads("oneapienc") = {"sink"} /\ Settings("oneapienc") = {"codec"}
      /\ Forgotten("oneapienc") = {}
  BY DEF Pads, Settings, Forgotten, Compositors
<1>3. Moves("oneapienc")
  <2> SUFFICES ASSUME NEW h, NEW s, NEW q, NEW in, NEW o, NEW v, o \subseteq v,
                      NEW r \in Ops("oneapienc", h, q, in), Fits("oneapienc", s, q, o),
                      Calls(Pads("oneapienc"), h, s, q, in, v)
               PROVE  Fine(LAMBDA a, b, c : Fits("oneapienc", a, b, c), Settings("oneapienc"),
                           Forgotten("oneapienc"), h, s, q, in, v, r)
    BY DEF Moves
  <2>1. Fine(OneEncFits, {"codec"}, {}, h, s, q, in, v, r)
    BY <1>1, <1>2, OneEncKeeps
  <2> QED
    BY <1>1, <1>2, <2>1 DEF Fine
<1>4. Idle("oneapienc")
  <2> SUFFICES ASSUME NEW h \in Hooks, NEW s, NEW q, NEW in, NEW o, OneEncFits(s, q, o),
                      Calls({"sink"}, h, s, q, in, o), OneEncOps(h, q, in) = NoHook
               PROVE  OneEncFits(To(h, s, "ok"), q, o)
    BY <1>1, <1>2 DEF Idle
  <2>1. h # "open"
    BY Some, SessionSome
       DEF OneEncOps, NoHook, OneEncOpen, PendingClear
  <2>2. h # "close"
    BY Some
       DEF OneEncOps, NoHook, OneEncClose, FreeCodec, PendingClear
  <2> QED
    BY <2>1, <2>2
       DEF OneEncFits, Hooks, To, Calls
<1>5. Steady("oneapienc")
  BY <1>1 DEF Steady, OneEncFits, Nearly, Is
<1>6. Born("oneapienc")
  BY <1>1 DEF Born, OneEncFits, Struct, Create, Calloc, Compositors, Is
<1>7. Safe("oneapienc")
  BY <1>1 DEF Safe, OneEncFits, KnownLeaks, KnownStrays, Compositors, Odd, Is
<1> QED
  BY <1>3, <1>4, <1>5, <1>6, <1>7 DEF Sound

LEMMA OneDecSound == Sound("oneapidec")
<1>1. /\ \A s, q, o : Fits("oneapidec", s, q, o) <=> OneDecFits(s, q, o)
      /\ \A h, q, in : Ops("oneapidec", h, q, in) = OneDecOps(h, q, in)
  BY DEF Fits, Ops
<1>2. /\ Pads("oneapidec") = {"sink"} /\ Settings("oneapidec") = {"codec"}
      /\ Forgotten("oneapidec") = {}
  BY DEF Pads, Settings, Forgotten, Compositors
<1>3. Moves("oneapidec")
  <2> SUFFICES ASSUME NEW h, NEW s, NEW q, NEW in, NEW o, NEW v, o \subseteq v,
                      NEW r \in Ops("oneapidec", h, q, in), Fits("oneapidec", s, q, o),
                      Calls(Pads("oneapidec"), h, s, q, in, v)
               PROVE  Fine(LAMBDA a, b, c : Fits("oneapidec", a, b, c), Settings("oneapidec"),
                           Forgotten("oneapidec"), h, s, q, in, v, r)
    BY DEF Moves
  <2>1. Fine(OneDecFits, {"codec"}, {}, h, s, q, in, v, r)
    BY <1>1, <1>2, OneDecKeeps
  <2> QED
    BY <1>1, <1>2, <2>1 DEF Fine
<1>4. Idle("oneapidec")
  <2> SUFFICES ASSUME NEW h \in Hooks, NEW s, NEW q, NEW in, NEW o, OneDecFits(s, q, o),
                      Calls({"sink"}, h, s, q, in, o), OneDecOps(h, q, in) = NoHook
               PROVE  OneDecFits(To(h, s, "ok"), q, o)
    BY <1>1, <1>2 DEF Idle
  <2>1. h # "open"
    BY Some, SessionSome
       DEF OneDecOps, NoHook, OneDecOpen, PendingClear
  <2>2. h # "close"
    BY Some
       DEF OneDecOps, NoHook, OneDecClose, FreeCodec, PendingClear
  <2> QED
    BY <2>1, <2>2
       DEF OneDecFits, Hooks, To, Calls
<1>5. Steady("oneapidec")
  BY <1>1 DEF Steady, OneDecFits, Nearly, Is
<1>6. Born("oneapidec")
  BY <1>1 DEF Born, OneDecFits, Struct, Create, Calloc, Compositors, Is
<1>7. Safe("oneapidec")
  BY <1>1 DEF Safe, OneDecFits, KnownLeaks, KnownStrays, Compositors, Odd, Is
<1> QED
  BY <1>3, <1>4, <1>5, <1>6, <1>7 DEF Sound

LEMMA AlsaSinkSound == Sound("alsasink")
<1>1. /\ \A s, q, o : Fits("alsasink", s, q, o) <=> AlsaSinkFits(s, q, o)
      /\ \A h, q, in : Ops("alsasink", h, q, in) = AlsaSinkOps(h, q, in)
  BY DEF Fits, Ops
<1>2. /\ Pads("alsasink") = {"sink"} /\ Settings("alsasink") = {"device"}
      /\ Forgotten("alsasink") = {}
  BY DEF Pads, Settings, Forgotten, Compositors
<1>3. Moves("alsasink")
  <2> SUFFICES ASSUME NEW h, NEW s, NEW q, NEW in, NEW o, NEW v, o \subseteq v,
                      NEW r \in Ops("alsasink", h, q, in), Fits("alsasink", s, q, o),
                      Calls(Pads("alsasink"), h, s, q, in, v)
               PROVE  Fine(LAMBDA a, b, c : Fits("alsasink", a, b, c), Settings("alsasink"),
                           Forgotten("alsasink"), h, s, q, in, v, r)
    BY DEF Moves
  <2>1. Fine(AlsaSinkFits, {"device"}, {}, h, s, q, in, v, r)
    BY <1>1, <1>2, AlsaSinkKeeps
  <2> QED
    BY <1>1, <1>2, <2>1 DEF Fine
<1>4. Idle("alsasink")
  <2> SUFFICES ASSUME NEW h \in Hooks, NEW s, NEW q, NEW in, NEW o, AlsaSinkFits(s, q, o),
                      Calls({"sink"}, h, s, q, in, o), AlsaSinkOps(h, q, in) = NoHook
               PROVE  AlsaSinkFits(To(h, s, "ok"), q, o)
    BY <1>1, <1>2 DEF Idle
  <2>1. h # "open"
    BY Some
       DEF AlsaSinkOps, NoHook, AlsaSinkOpen
  <2>2. h # "start"
    BY Some
       DEF AlsaSinkOps, NoHook, AlsaSinkStart
  <2>3. h # "stop"
    BY Some
       DEF AlsaSinkOps, NoHook, AlsaSinkStop
  <2>4. h # "close"
    BY Some
       DEF AlsaSinkOps, NoHook, AlsaSinkClose
  <2> QED
    BY <2>1, <2>2, <2>3, <2>4
       DEF AlsaSinkFits, Hooks, To, Calls
<1>5. Steady("alsasink")
  BY <1>1 DEF Steady, AlsaSinkFits, Nearly, Is
<1>6. Born("alsasink")
  BY <1>1 DEF Born, AlsaSinkFits, Struct, Create, Calloc, Compositors, Is
<1>7. Safe("alsasink")
  BY <1>1 DEF Safe, AlsaSinkFits, KnownLeaks, KnownStrays, Compositors, Odd, Is
<1> QED
  BY <1>3, <1>4, <1>5, <1>6, <1>7 DEF Sound

LEMMA AlsaSrcSound == Sound("alsasrc")
<1>1. /\ \A s, q, o : Fits("alsasrc", s, q, o) <=> AlsaSrcFits(s, q, o)
      /\ \A h, q, in : Ops("alsasrc", h, q, in) = AlsaSrcOps(h, q, in)
  BY DEF Fits, Ops
<1>2. /\ Pads("alsasrc") = {} /\ Settings("alsasrc") = {"device"}
      /\ Forgotten("alsasrc") = {}
  BY DEF Pads, Settings, Forgotten, Compositors
<1>3. Moves("alsasrc")
  <2> SUFFICES ASSUME NEW h, NEW s, NEW q, NEW in, NEW o, NEW v, o \subseteq v,
                      NEW r \in Ops("alsasrc", h, q, in), Fits("alsasrc", s, q, o),
                      Calls(Pads("alsasrc"), h, s, q, in, v)
               PROVE  Fine(LAMBDA a, b, c : Fits("alsasrc", a, b, c), Settings("alsasrc"),
                           Forgotten("alsasrc"), h, s, q, in, v, r)
    BY DEF Moves
  <2>1. Fine(AlsaSrcFits, {"device"}, {}, h, s, q, in, v, r)
    BY <1>1, <1>2, AlsaSrcKeeps
  <2> QED
    BY <1>1, <1>2, <2>1 DEF Fine
<1>4. Idle("alsasrc")
  <2> SUFFICES ASSUME NEW h \in Hooks, NEW s, NEW q, NEW in, NEW o, AlsaSrcFits(s, q, o),
                      Calls({}, h, s, q, in, o), AlsaSrcOps(h, q, in) = NoHook
               PROVE  AlsaSrcFits(To(h, s, "ok"), q, o)
    BY <1>1, <1>2 DEF Idle
  <2>1. h # "open"
    BY Some
       DEF AlsaSrcOps, NoHook, AlsaSrcOpen
  <2>2. h # "start"
    BY Some
       DEF AlsaSrcOps, NoHook, AlsaSrcStart
  <2>3. h # "close"
    BY Some
       DEF AlsaSrcOps, NoHook, AlsaSrcClose
  <2> QED
    BY <2>1, <2>2, <2>3
       DEF AlsaSrcFits, Hooks, To, Calls
<1>5. Steady("alsasrc")
  BY <1>1 DEF Steady, AlsaSrcFits, Nearly, Is
<1>6. Born("alsasrc")
  BY <1>1 DEF Born, AlsaSrcFits, Struct, Create, Calloc, Compositors, Is
<1>7. Safe("alsasrc")
  BY <1>1 DEF Safe, AlsaSrcFits, KnownLeaks, KnownStrays, Compositors, Odd, Is
<1> QED
  BY <1>3, <1>4, <1>5, <1>6, <1>7 DEF Sound

LEMMA V4l2SinkSound == Sound("v4l2sink")
<1>1. /\ \A s, q, o : Fits("v4l2sink", s, q, o) <=> V4l2SinkFits(s, q, o)
      /\ \A h, q, in : Ops("v4l2sink", h, q, in) = V4l2SinkOps(h, q, in)
  BY DEF Fits, Ops
<1>2. /\ Pads("v4l2sink") = {"sink"} /\ Settings("v4l2sink") = {"device", "userptr"}
      /\ Forgotten("v4l2sink") = {}
  BY DEF Pads, Settings, Forgotten, Compositors
<1>3. Moves("v4l2sink")
  <2> SUFFICES ASSUME NEW h, NEW s, NEW q, NEW in, NEW o, NEW v, o \subseteq v,
                      NEW r \in Ops("v4l2sink", h, q, in), Fits("v4l2sink", s, q, o),
                      Calls(Pads("v4l2sink"), h, s, q, in, v)
               PROVE  Fine(LAMBDA a, b, c : Fits("v4l2sink", a, b, c), Settings("v4l2sink"),
                           Forgotten("v4l2sink"), h, s, q, in, v, r)
    BY DEF Moves
  <2>1. Fine(V4l2SinkFits, {"device", "userptr"}, {}, h, s, q, in, v, r)
    BY <1>1, <1>2, V4l2SinkKeeps
  <2> QED
    BY <1>1, <1>2, <2>1 DEF Fine
<1>4. Idle("v4l2sink")
  <2> SUFFICES ASSUME NEW h \in Hooks, NEW s, NEW q, NEW in, NEW o, V4l2SinkFits(s, q, o),
                      Calls({"sink"}, h, s, q, in, o), V4l2SinkOps(h, q, in) = NoHook
               PROVE  V4l2SinkFits(To(h, s, "ok"), q, o)
    BY <1>1, <1>2 DEF Idle
  <2>1. h # "open"
    BY Some
       DEF V4l2SinkOps, NoHook, V4l2SinkOpen
  <2>2. h # "start"
    BY Some
       DEF V4l2SinkOps, NoHook, V4l2SinkStart, Then
  <2>3. h # "stop"
    BY Some
       DEF V4l2SinkOps, NoHook, V4l2SinkStop
  <2>4. h # "close"
    BY Some
       DEF V4l2SinkOps, NoHook, V4l2SinkClose
  <2> QED
    BY <2>1, <2>2, <2>3, <2>4
       DEF V4l2SinkFits, Hooks, To, Calls
<1>5. Steady("v4l2sink")
  BY <1>1 DEF Steady, V4l2SinkFits, Nearly, Is
<1>6. Born("v4l2sink")
  BY <1>1 DEF Born, V4l2SinkFits, Struct, Create, Calloc, Compositors, Is
<1>7. Safe("v4l2sink")
  BY <1>1 DEF Safe, V4l2SinkFits, KnownLeaks, KnownStrays, Compositors, Odd, Is
<1> QED
  BY <1>3, <1>4, <1>5, <1>6, <1>7 DEF Sound

LEMMA V4l2SrcSound == Sound("v4l2src")
<1>1. /\ \A s, q, o : Fits("v4l2src", s, q, o) <=> V4l2SrcFits(s, q, o)
      /\ \A h, q, in : Ops("v4l2src", h, q, in) = V4l2SrcOps(h, q, in)
  BY DEF Fits, Ops
<1>2. /\ Pads("v4l2src") = {} /\ Settings("v4l2src") = {"userptr", "export"}
      /\ Forgotten("v4l2src") = {}
  BY DEF Pads, Settings, Forgotten, Compositors
<1>3. Moves("v4l2src")
  <2> SUFFICES ASSUME NEW h, NEW s, NEW q, NEW in, NEW o, NEW v, o \subseteq v,
                      NEW r \in Ops("v4l2src", h, q, in), Fits("v4l2src", s, q, o),
                      Calls(Pads("v4l2src"), h, s, q, in, v)
               PROVE  Fine(LAMBDA a, b, c : Fits("v4l2src", a, b, c), Settings("v4l2src"),
                           Forgotten("v4l2src"), h, s, q, in, v, r)
    BY DEF Moves
  <2>1. Fine(V4l2SrcFits, {"userptr", "export"}, {}, h, s, q, in, v, r)
    BY <1>1, <1>2, V4l2SrcKeeps
  <2> QED
    BY <1>1, <1>2, <2>1 DEF Fine
<1>4. Idle("v4l2src")
  <2> SUFFICES ASSUME NEW h \in Hooks, NEW s, NEW q, NEW in, NEW o, V4l2SrcFits(s, q, o),
                      Calls({}, h, s, q, in, o), V4l2SrcOps(h, q, in) = NoHook
               PROVE  V4l2SrcFits(To(h, s, "ok"), q, o)
    BY <1>1, <1>2 DEF Idle
  <2>1. h # "open"
    BY Some
       DEF V4l2SrcOps, NoHook, V4l2SrcOpen
  <2>2. h # "start"
    BY Some
       DEF V4l2SrcOps, NoHook, V4l2SrcStart, MayFail, Then
  <2>3. h # "stop"
    BY Some
       DEF V4l2SrcOps, NoHook, V4l2SrcStop
  <2>4. h # "close"
    BY Some
       DEF V4l2SrcOps, NoHook, V4l2SrcClose, V4l2SrcCloseExportedFds
  <2> QED
    BY <2>1, <2>2, <2>3, <2>4
       DEF V4l2SrcFits, Hooks, To, Calls
<1>5. Steady("v4l2src")
  BY <1>1 DEF Steady, V4l2SrcFits, Nearly, Odd, Is
<1>6. Born("v4l2src")
  BY <1>1 DEF Born, V4l2SrcFits, Struct, Create, Calloc, Compositors, Odd, Is
<1>7. Safe("v4l2src")
  BY <1>1 DEF Safe, V4l2SrcFits, KnownLeaks, KnownStrays, Compositors, Odd, Is
<1> QED
  BY <1>3, <1>4, <1>5, <1>6, <1>7 DEF Sound

LEMMA X11Sound == Sound("x11sink")
<1>1. /\ \A s, q, o : Fits("x11sink", s, q, o) <=> X11Fits(s, q, o)
      /\ \A h, q, in : Ops("x11sink", h, q, in) = X11Ops(h, q, in)
  BY DEF Fits, Ops
<1>2. /\ Pads("x11sink") = {"sink"} /\ Settings("x11sink") = {"title"}
      /\ Forgotten("x11sink") = {}
  BY DEF Pads, Settings, Forgotten, Compositors
<1>3. Moves("x11sink")
  <2> SUFFICES ASSUME NEW h, NEW s, NEW q, NEW in, NEW o, NEW v, o \subseteq v,
                      NEW r \in Ops("x11sink", h, q, in), Fits("x11sink", s, q, o),
                      Calls(Pads("x11sink"), h, s, q, in, v)
               PROVE  Fine(LAMBDA a, b, c : Fits("x11sink", a, b, c), Settings("x11sink"),
                           Forgotten("x11sink"), h, s, q, in, v, r)
    BY DEF Moves
  <2>1. Fine(X11Fits, {"title"}, {}, h, s, q, in, v, r)
    BY <1>1, <1>2, X11Keeps
  <2> QED
    BY <1>1, <1>2, <2>1 DEF Fine
<1>4. Idle("x11sink")
  <2> SUFFICES ASSUME NEW h \in Hooks, NEW s, NEW q, NEW in, NEW o, X11Fits(s, q, o),
                      Calls({"sink"}, h, s, q, in, o), X11Ops(h, q, in) = NoHook
               PROVE  X11Fits(To(h, s, "ok"), q, o)
    BY <1>1, <1>2 DEF Idle
  <2>1. h # "open"
    BY Some
       DEF X11Ops, NoHook, X11Open
  <2>2. h # "close"
    BY Some
       DEF X11Ops, NoHook, X11Close, X11DestroyWindow
  <2> QED
    BY <2>1, <2>2
       DEF X11Fits, Hooks, To, Calls
<1>5. Steady("x11sink")
  BY <1>1 DEF Steady, X11Fits, Nearly, Is
<1>6. Born("x11sink")
  BY <1>1 DEF Born, X11Fits, Struct, Create, Calloc, Compositors, Is
<1>7. Safe("x11sink")
  BY <1>1 DEF Safe, X11Fits, KnownLeaks, KnownStrays, Compositors, Odd, Is
<1> QED
  BY <1>3, <1>4, <1>5, <1>6, <1>7 DEF Sound

LEMMA FileSinkSound == Sound("filesink")
<1>1. /\ \A s, q, o : Fits("filesink", s, q, o) <=> FileSinkFits(s, q, o)
      /\ \A h, q, in : Ops("filesink", h, q, in) = FileSinkOps(h, q, in)
  BY DEF Fits, Ops
<1>2. /\ Pads("filesink") = {"sink"} /\ Settings("filesink") = {"path"}
      /\ Forgotten("filesink") = {}
  BY DEF Pads, Settings, Forgotten, Compositors
<1>3. Moves("filesink")
  <2> SUFFICES ASSUME NEW h, NEW s, NEW q, NEW in, NEW o, NEW v, o \subseteq v,
                      NEW r \in Ops("filesink", h, q, in), Fits("filesink", s, q, o),
                      Calls(Pads("filesink"), h, s, q, in, v)
               PROVE  Fine(LAMBDA a, b, c : Fits("filesink", a, b, c), Settings("filesink"),
                           Forgotten("filesink"), h, s, q, in, v, r)
    BY DEF Moves
  <2>1. Fine(FileSinkFits, {"path"}, {}, h, s, q, in, v, r)
    BY <1>1, <1>2, FileSinkKeeps
  <2> QED
    BY <1>1, <1>2, <2>1 DEF Fine
<1>4. Idle("filesink")
  <2> SUFFICES ASSUME NEW h \in Hooks, NEW s, NEW q, NEW in, NEW o, FileSinkFits(s, q, o),
                      Calls({"sink"}, h, s, q, in, o), FileSinkOps(h, q, in) = NoHook
               PROVE  FileSinkFits(To(h, s, "ok"), q, o)
    BY <1>1, <1>2 DEF Idle
  <2>1. h # "open"
    BY Some
       DEF FileSinkOps, NoHook, FileSinkOpen, AllOrNothing
  <2>2. h # "close"
    BY Some
       DEF FileSinkOps, NoHook, FileSinkClose
  <2> QED
    BY <2>1, <2>2
       DEF FileSinkFits, Hooks, To, Calls
<1>5. Steady("filesink")
  BY <1>1 DEF Steady, FileSinkFits, Nearly
<1>6. Born("filesink")
  BY <1>1 DEF Born, FileSinkFits, Struct, Create, Calloc, Compositors
<1>7. Safe("filesink")
  BY <1>1 DEF Safe, FileSinkFits, KnownLeaks, KnownStrays, Compositors, Odd
<1> QED
  BY <1>3, <1>4, <1>5, <1>6, <1>7 DEF Sound

LEMMA FileSrcSound == Sound("filesrc")
<1>1. /\ \A s, q, o : Fits("filesrc", s, q, o) <=> FileSrcFits(s, q, o)
      /\ \A h, q, in : Ops("filesrc", h, q, in) = FileSrcOps(h, q, in)
  BY DEF Fits, Ops
<1>2. /\ Pads("filesrc") = {} /\ Settings("filesrc") = {"loop", "path"}
      /\ Forgotten("filesrc") = {}
  BY DEF Pads, Settings, Forgotten, Compositors
<1>3. Moves("filesrc")
  <2> SUFFICES ASSUME NEW h, NEW s, NEW q, NEW in, NEW o, NEW v, o \subseteq v,
                      NEW r \in Ops("filesrc", h, q, in), Fits("filesrc", s, q, o),
                      Calls(Pads("filesrc"), h, s, q, in, v)
               PROVE  Fine(LAMBDA a, b, c : Fits("filesrc", a, b, c), Settings("filesrc"),
                           Forgotten("filesrc"), h, s, q, in, v, r)
    BY DEF Moves
  <2>1. Fine(FileSrcFits, {"loop", "path"}, {}, h, s, q, in, v, r)
    BY <1>1, <1>2, FileSrcKeeps
  <2> QED
    BY <1>1, <1>2, <2>1 DEF Fine
<1>4. Idle("filesrc")
  <2> SUFFICES ASSUME NEW h \in Hooks, NEW s, NEW q, NEW in, NEW o, FileSrcFits(s, q, o),
                      Calls({}, h, s, q, in, o), FileSrcOps(h, q, in) = NoHook
               PROVE  FileSrcFits(To(h, s, "ok"), q, o)
    BY <1>1, <1>2 DEF Idle
  <2>1. h # "open"
    BY Some
       DEF FileSrcOps, NoHook, FileSrcOpen, AllOrNothing
  <2>2. h # "close"
    BY Some
       DEF FileSrcOps, NoHook, FileSrcClose
  <2> QED
    BY <2>1, <2>2
       DEF FileSrcFits, Hooks, To, Calls
<1>5. Steady("filesrc")
  BY <1>1 DEF Steady, FileSrcFits, Nearly
<1>6. Born("filesrc")
  BY <1>1 DEF Born, FileSrcFits, Struct, Create, Calloc, Compositors
<1>7. Safe("filesrc")
  BY <1>1 DEF Safe, FileSrcFits, KnownLeaks, KnownStrays, Compositors, Odd
<1> QED
  BY <1>3, <1>4, <1>5, <1>6, <1>7 DEF Sound

LEMMA FakeSinkSound == Sound("fakesink")
<1>1. /\ \A s, q, o : Fits("fakesink", s, q, o) <=> OwnsNothingFits(s, q, o)
      /\ \A h, q, in : Ops("fakesink", h, q, in) = FakeSinkOps(h, q, in)
  BY DEF Fits, Ops
<1>2. /\ Pads("fakesink") = {"sink"} /\ Settings("fakesink") = {"drop_probability"}
      /\ Forgotten("fakesink") = {}
  BY DEF Pads, Settings, Forgotten, Compositors
<1>3. Moves("fakesink")
  <2> SUFFICES ASSUME NEW h, NEW s, NEW q, NEW in, NEW o, NEW v, o \subseteq v,
                      NEW r \in Ops("fakesink", h, q, in), Fits("fakesink", s, q, o),
                      Calls(Pads("fakesink"), h, s, q, in, v)
               PROVE  Fine(LAMBDA a, b, c : Fits("fakesink", a, b, c), Settings("fakesink"),
                           Forgotten("fakesink"), h, s, q, in, v, r)
    BY DEF Moves
  <2>1. Fine(OwnsNothingFits, {"drop_probability"}, {}, h, s, q, in, v, r)
    BY <1>1, <1>2, FakeSinkKeeps
  <2> QED
    BY <1>1, <1>2, <2>1 DEF Fine
<1>4. Idle("fakesink")
  <2> SUFFICES ASSUME NEW h \in Hooks, NEW s, NEW q, NEW in, NEW o, OwnsNothingFits(s, q, o),
                      Calls({"sink"}, h, s, q, in, o), FakeSinkOps(h, q, in) = NoHook
               PROVE  OwnsNothingFits(To(h, s, "ok"), q, o)
    BY <1>1, <1>2 DEF Idle
  <2>1. h # "open"
    BY Some
       DEF FakeSinkOps, NoHook, FakeSinkOpen
  <2> QED
    BY <2>1
       DEF OwnsNothingFits, Hooks, To, Calls
<1>5. Steady("fakesink")
  BY <1>1 DEF Steady, OwnsNothingFits, Nearly
<1>6. Born("fakesink")
  BY <1>1 DEF Born, OwnsNothingFits, Struct, Create, Calloc, Compositors
<1>7. Safe("fakesink")
  BY <1>1 DEF Safe, OwnsNothingFits, KnownLeaks, KnownStrays, Compositors, Odd
<1> QED
  BY <1>3, <1>4, <1>5, <1>6, <1>7 DEF Sound

LEMMA TextSrcSound == Sound("textsrc")
<1>1. /\ \A s, q, o : Fits("textsrc", s, q, o) <=> TextSrcFits(s, q, o)
      /\ \A h, q, in : Ops("textsrc", h, q, in) = TextSrcOps(h, q, in)
  BY DEF Fits, Ops
<1>2. /\ Pads("textsrc") = {} /\ Settings("textsrc") = {"loop", "num_buffers"}
      /\ Forgotten("textsrc") = {}
  BY DEF Pads, Settings, Forgotten, Compositors
<1>3. Moves("textsrc")
  <2> SUFFICES ASSUME NEW h, NEW s, NEW q, NEW in, NEW o, NEW v, o \subseteq v,
                      NEW r \in Ops("textsrc", h, q, in), Fits("textsrc", s, q, o),
                      Calls(Pads("textsrc"), h, s, q, in, v)
               PROVE  Fine(LAMBDA a, b, c : Fits("textsrc", a, b, c), Settings("textsrc"),
                           Forgotten("textsrc"), h, s, q, in, v, r)
    BY DEF Moves
  <2>1. Fine(TextSrcFits, {"loop", "num_buffers"}, {}, h, s, q, in, v, r)
    BY <1>1, <1>2, TextSrcKeeps
  <2> QED
    BY <1>1, <1>2, <2>1 DEF Fine
<1>4. Idle("textsrc")
  <2> SUFFICES ASSUME NEW h \in Hooks, NEW s, NEW q, NEW in, NEW o, TextSrcFits(s, q, o),
                      Calls({}, h, s, q, in, o), TextSrcOps(h, q, in) = NoHook
               PROVE  TextSrcFits(To(h, s, "ok"), q, o)
    BY <1>1, <1>2 DEF Idle
  <2>1. h # "open"
    BY Some
       DEF TextSrcOps, NoHook, TextSrcOpen, Then, AllOrNothing
  <2>2. h # "close"
    BY Some
       DEF TextSrcOps, NoHook, TextSrcClose
  <2> QED
    BY <2>1, <2>2
       DEF TextSrcFits, Hooks, To, Calls
<1>5. Steady("textsrc")
  BY <1>1 DEF Steady, TextSrcFits, Nearly
<1>6. Born("textsrc")
  BY <1>1 DEF Born, TextSrcFits, Struct, Create, Calloc, Compositors
<1>7. Safe("textsrc")
  BY <1>1 DEF Safe, TextSrcFits, KnownLeaks, KnownStrays, Compositors, Odd
<1> QED
  BY <1>3, <1>4, <1>5, <1>6, <1>7 DEF Sound

LEMMA GlSinkSound == Sound("glsink")
<1>1. /\ \A s, q, o : Fits("glsink", s, q, o) <=> GlSinkFits(s, q, o)
      /\ \A h, q, in : Ops("glsink", h, q, in) = GlSinkOps(h, q, in)
  BY DEF Fits, Ops
<1>2. /\ Pads("glsink") = {"sink"} /\ Settings("glsink") = {"vsync"}
      /\ Forgotten("glsink") = {}
  BY DEF Pads, Settings, Forgotten, Compositors
<1>3. Moves("glsink")
  <2> SUFFICES ASSUME NEW h, NEW s, NEW q, NEW in, NEW o, NEW v, o \subseteq v,
                      NEW r \in Ops("glsink", h, q, in), Fits("glsink", s, q, o),
                      Calls(Pads("glsink"), h, s, q, in, v)
               PROVE  Fine(LAMBDA a, b, c : Fits("glsink", a, b, c), Settings("glsink"),
                           Forgotten("glsink"), h, s, q, in, v, r)
    BY DEF Moves
  <2>1. Fine(GlSinkFits, {"vsync"}, {}, h, s, q, in, v, r)
    BY <1>1, <1>2, GlSinkKeeps
  <2> QED
    BY <1>1, <1>2, <2>1 DEF Fine
<1>4. Idle("glsink")
  <2> SUFFICES ASSUME NEW h \in Hooks, NEW s, NEW q, NEW in, NEW o, GlSinkFits(s, q, o),
                      Calls({"sink"}, h, s, q, in, o), GlSinkOps(h, q, in) = NoHook
               PROVE  GlSinkFits(To(h, s, "ok"), q, o)
    BY <1>1, <1>2 DEF Idle
  <2>1. h # "open"
    BY Some
       DEF GlSinkOps, NoHook, GlSinkOpen, GlSinkBuildShaders, GlSinkCreateTextures
  <2>2. h # "close"
    BY Some
       DEF GlSinkOps, NoHook, GlSinkClose
  <2> QED
    BY <2>1, <2>2
       DEF GlSinkFits, Hooks, To, Calls
<1>5. Steady("glsink")
  BY <1>1 DEF Steady, GlSinkFits, Nearly
<1>6. Born("glsink")
  BY <1>1 DEF Born, GlSinkFits, Struct, Create, Calloc, Compositors
<1>7. Safe("glsink")
  BY <1>1 DEF Safe, GlSinkFits, KnownLeaks, KnownStrays, Compositors, Odd
<1> QED
  BY <1>3, <1>4, <1>5, <1>6, <1>7 DEF Sound

LEMMA HlsSound == Sound("hlssink")
<1>1. /\ \A s, q, o : Fits("hlssink", s, q, o) <=> HlsFits(s, q, o)
      /\ \A h, q, in : Ops("hlssink", h, q, in) = HlsOps(h, q, in)
  BY DEF Fits, Ops
<1>2. /\ Pads("hlssink") = HlsPads /\ Settings("hlssink") = {"location"}
      /\ Forgotten("hlssink") = {}
  BY DEF Pads, Settings, Forgotten, Compositors
<1>3. Moves("hlssink")
  <2> SUFFICES ASSUME NEW h, NEW s, NEW q, NEW in, NEW o, NEW v, o \subseteq v,
                      NEW r \in Ops("hlssink", h, q, in), Fits("hlssink", s, q, o),
                      Calls(Pads("hlssink"), h, s, q, in, v)
               PROVE  Fine(LAMBDA a, b, c : Fits("hlssink", a, b, c), Settings("hlssink"),
                           Forgotten("hlssink"), h, s, q, in, v, r)
    BY DEF Moves
  <2>1. Fine(HlsFits, {"location"}, {}, h, s, q, in, v, r)
    BY <1>1, <1>2, HlsKeeps
  <2> QED
    BY <1>1, <1>2, <2>1 DEF Fine
<1>4. Idle("hlssink")
  <2> SUFFICES ASSUME NEW h \in Hooks, NEW s, NEW q, NEW in, NEW o, HlsFits(s, q, o),
                      Calls(HlsPads, h, s, q, in, o), HlsOps(h, q, in) = NoHook
               PROVE  HlsFits(To(h, s, "ok"), q, o)
    BY <1>1, <1>2 DEF Idle
  <2>1. h # "start"
    BY Some
       DEF HlsOps, NoHook, HlsStart, HlsPads, HlsSampleLinks
  <2>2. h # "stop"
    BY Some
       DEF HlsOps, NoHook, HlsStop
  <2> QED
    BY <2>1, <2>2
       DEF HlsFits, Hooks, To, Calls
<1>5. Steady("hlssink")
  BY <1>1 DEF Steady, HlsFits, Nearly, Is
<1>6. Born("hlssink")
  BY <1>1 DEF Born, HlsFits, Struct, Create, Calloc, Compositors, Is
<1>7. Safe("hlssink")
  BY <1>1 DEF Safe, HlsFits, KnownLeaks, KnownStrays, Compositors, Odd, Is
<1> QED
  BY <1>3, <1>4, <1>5, <1>6, <1>7 DEF Sound

LEMMA AudioTestSound == Sound("audiotestsrc")
<1>1. /\ \A s, q, o : Fits("audiotestsrc", s, q, o) <=> AudioTestFits(s, q, o)
      /\ \A h, q, in : Ops("audiotestsrc", h, q, in) = AudioTestOps(h, q, in)
  BY DEF Fits, Ops
<1>2. /\ Pads("audiotestsrc") = {} /\ Settings("audiotestsrc") = {"loop", "num_buffers"}
      /\ Forgotten("audiotestsrc") = {}
  BY DEF Pads, Settings, Forgotten, Compositors
<1>3. Moves("audiotestsrc")
  <2> SUFFICES ASSUME NEW h, NEW s, NEW q, NEW in, NEW o, NEW v, o \subseteq v,
                      NEW r \in Ops("audiotestsrc", h, q, in), Fits("audiotestsrc", s, q, o),
                      Calls(Pads("audiotestsrc"), h, s, q, in, v)
               PROVE  Fine(LAMBDA a, b, c : Fits("audiotestsrc", a, b, c), Settings("audiotestsrc"),
                           Forgotten("audiotestsrc"), h, s, q, in, v, r)
    BY DEF Moves
  <2>1. Fine(AudioTestFits, {"loop", "num_buffers"}, {}, h, s, q, in, v, r)
    BY <1>1, <1>2, AudioTestKeeps
  <2> QED
    BY <1>1, <1>2, <2>1 DEF Fine
<1>4. Idle("audiotestsrc")
  <2> SUFFICES ASSUME NEW h \in Hooks, NEW s, NEW q, NEW in, NEW o, AudioTestFits(s, q, o),
                      Calls({}, h, s, q, in, o), AudioTestOps(h, q, in) = NoHook
               PROVE  AudioTestFits(To(h, s, "ok"), q, o)
    BY <1>1, <1>2 DEF Idle
  <2>1. h # "open"
    BY Some
       DEF AudioTestOps, NoHook, AudioTestOpen, AudioTestCreatePool, AllOrNothing
  <2>2. h # "start"
    BY Some
       DEF AudioTestOps, NoHook, AudioTestStart
  <2>3. h # "stop"
    BY Some
       DEF AudioTestOps, NoHook, AudioTestStop
  <2>4. h # "close"
    BY Some
       DEF AudioTestOps, NoHook, AudioTestClose
  <2> QED
    BY <2>1, <2>2, <2>3, <2>4
       DEF AudioTestFits, Hooks, To, Calls
<1>5. Steady("audiotestsrc")
  BY <1>1 DEF Steady, AudioTestFits, Nearly
<1>6. Born("audiotestsrc")
  BY <1>1 DEF Born, AudioTestFits, Struct, Create, Calloc, Compositors
<1>7. Safe("audiotestsrc")
  BY <1>1 DEF Safe, AudioTestFits, KnownLeaks, KnownStrays, Compositors, Odd
<1> QED
  BY <1>3, <1>4, <1>5, <1>6, <1>7 DEF Sound

LEMMA VideoTestSound == Sound("videotestsrc")
<1>1. /\ \A s, q, o : Fits("videotestsrc", s, q, o) <=> VideoTestFits(s, q, o)
      /\ \A h, q, in : Ops("videotestsrc", h, q, in) = VideoTestOps(h, q, in)
  BY DEF Fits, Ops
<1>2. /\ Pads("videotestsrc") = {} /\ Settings("videotestsrc") = {"pixel_format", "loop", "num_buffers"}
      /\ Forgotten("videotestsrc") = {}
  BY DEF Pads, Settings, Forgotten, Compositors
<1>3. Moves("videotestsrc")
  <2> SUFFICES ASSUME NEW h, NEW s, NEW q, NEW in, NEW o, NEW v, o \subseteq v,
                      NEW r \in Ops("videotestsrc", h, q, in), Fits("videotestsrc", s, q, o),
                      Calls(Pads("videotestsrc"), h, s, q, in, v)
               PROVE  Fine(LAMBDA a, b, c : Fits("videotestsrc", a, b, c), Settings("videotestsrc"),
                           Forgotten("videotestsrc"), h, s, q, in, v, r)
    BY DEF Moves
  <2>1. Fine(VideoTestFits, {"pixel_format", "loop", "num_buffers"}, {}, h, s, q, in, v, r)
    BY <1>1, <1>2, VideoTestKeeps
  <2> QED
    BY <1>1, <1>2, <2>1 DEF Fine
<1>4. Idle("videotestsrc")
  <2> SUFFICES ASSUME NEW h \in Hooks, NEW s, NEW q, NEW in, NEW o, VideoTestFits(s, q, o),
                      Calls({}, h, s, q, in, o), VideoTestOps(h, q, in) = NoHook
               PROVE  VideoTestFits(To(h, s, "ok"), q, o)
    BY <1>1, <1>2 DEF Idle
  <2>1. h # "open"
    BY Some
       DEF VideoTestOps, NoHook, VideoTestOpen
  <2>2. h # "start"
    BY Some
       DEF VideoTestOps, NoHook, VideoTestStart
  <2>3. h # "close"
    BY Some
       DEF VideoTestOps, NoHook, VideoTestClose
  <2> QED
    BY <2>1, <2>2, <2>3
       DEF VideoTestFits, Hooks, To, Calls
<1>5. Steady("videotestsrc")
  BY <1>1 DEF Steady, VideoTestFits, Nearly
<1>6. Born("videotestsrc")
  BY <1>1 DEF Born, VideoTestFits, Struct, Create, Calloc, Compositors
<1>7. Safe("videotestsrc")
  BY <1>1 DEF Safe, VideoTestFits, KnownLeaks, KnownStrays, Compositors, Odd
<1> QED
  BY <1>3, <1>4, <1>5, <1>6, <1>7 DEF Sound

LEMMA ScSound == Sound("sc6f0src")
<1>1. /\ \A s, q, o : Fits("sc6f0src", s, q, o) <=> ScFits(s, q, o)
      /\ \A h, q, in : Ops("sc6f0src", h, q, in) = ScOps(h, q, in)
  BY DEF Fits, Ops
<1>2. /\ Pads("sc6f0src") = {} /\ Settings("sc6f0src") = {"mock"}
      /\ Forgotten("sc6f0src") = {}
  BY DEF Pads, Settings, Forgotten, Compositors
<1>3. Moves("sc6f0src")
  <2> SUFFICES ASSUME NEW h, NEW s, NEW q, NEW in, NEW o, NEW v, o \subseteq v,
                      NEW r \in Ops("sc6f0src", h, q, in), Fits("sc6f0src", s, q, o),
                      Calls(Pads("sc6f0src"), h, s, q, in, v)
               PROVE  Fine(LAMBDA a, b, c : Fits("sc6f0src", a, b, c), Settings("sc6f0src"),
                           Forgotten("sc6f0src"), h, s, q, in, v, r)
    BY DEF Moves
  <2>1. Fine(ScFits, {"mock"}, {}, h, s, q, in, v, r)
    BY <1>1, <1>2, ScKeeps
  <2> QED
    BY <1>1, <1>2, <2>1 DEF Fine
<1>4. Idle("sc6f0src")
  <2> SUFFICES ASSUME NEW h \in Hooks, NEW s, NEW q, NEW in, NEW o, ScFits(s, q, o),
                      Calls({}, h, s, q, in, o), ScOps(h, q, in) = NoHook
               PROVE  ScFits(To(h, s, "ok"), q, o)
    BY <1>1, <1>2 DEF Idle
  <2>1. h # "open"
    BY Some
       DEF ScOps, NoHook, ScOpen
  <2>2. h # "start"
    BY Some
       DEF ScOps, NoHook, ScStart
  <2>3. h # "stop"
    BY Some
       DEF ScOps, NoHook, ScStop, ScTeardownCaptureBranch, ScVideo, ScAudio, ScLock
  <2>4. h # "close"
    BY Some
       DEF ScOps, NoHook, ScClose
  <2> QED
    BY <2>1, <2>2, <2>3, <2>4
       DEF ScFits, Hooks, To, Calls
<1>5. Steady("sc6f0src")
  BY <1>1 DEF Steady, ScFits, Nearly
<1>6. Born("sc6f0src")
  BY <1>1 DEF Born, ScFits, Struct, Create, Calloc, Compositors
<1>7. Safe("sc6f0src")
  BY <1>1 DEF Safe, ScFits, KnownLeaks, KnownStrays, Compositors, Odd
<1> QED
  BY <1>3, <1>4, <1>5, <1>6, <1>7 DEF Sound

LEMMA NetSrcSound == Sound("netsrc")
<1>1. /\ \A s, q, o : Fits("netsrc", s, q, o) <=> NetSrcFits(s, q, o)
      /\ \A h, q, in : Ops("netsrc", h, q, in) = NetSrcOps(h, q, in)
  BY DEF Fits, Ops
<1>2. /\ Pads("netsrc") = {} /\ Settings("netsrc") = {"server", "udp"}
      /\ Forgotten("netsrc") = {}
  BY DEF Pads, Settings, Forgotten, Compositors
<1>3. Moves("netsrc")
  <2> SUFFICES ASSUME NEW h, NEW s, NEW q, NEW in, NEW o, NEW v, o \subseteq v,
                      NEW r \in Ops("netsrc", h, q, in), Fits("netsrc", s, q, o),
                      Calls(Pads("netsrc"), h, s, q, in, v)
               PROVE  Fine(LAMBDA a, b, c : Fits("netsrc", a, b, c), Settings("netsrc"),
                           Forgotten("netsrc"), h, s, q, in, v, r)
    BY DEF Moves
  <2>1. Fine(NetSrcFits, {"server", "udp"}, {}, h, s, q, in, v, r)
    BY <1>1, <1>2, NetSrcKeeps
  <2> QED
    BY <1>1, <1>2, <2>1 DEF Fine
<1>4. Idle("netsrc")
  <2> SUFFICES ASSUME NEW h \in Hooks, NEW s, NEW q, NEW in, NEW o, NetSrcFits(s, q, o),
                      Calls({}, h, s, q, in, o), NetSrcOps(h, q, in) = NoHook
               PROVE  NetSrcFits(To(h, s, "ok"), q, o)
    BY <1>1, <1>2 DEF Idle
  <2>1. h # "open"
    BY Some
       DEF NetSrcOps, NoHook, NetSrcOpen, Then, AllOrNothing, NetSrcCreateListenSocket,
          NetSrcCreateUdpListenerSocket, NetSrcCloseListen, NetSrcCloseConnection
  <2>2. h # "start"
    BY Some
       DEF NetSrcOps, NoHook, NetSrcStart
  <2>3. h # "stop"
    BY Some
       DEF NetSrcOps, NoHook, NetSrcStop, NetSrcCloseConnection
  <2>4. h # "close"
    BY Some
       DEF NetSrcOps, NoHook, NetSrcClose, NetSrcCloseConnection, NetSrcCloseListen
  <2> QED
    BY <2>1, <2>2, <2>3, <2>4
       DEF NetSrcFits, Hooks, To, Calls
<1>5. Steady("netsrc")
  BY <1>1 DEF Steady, NetSrcFits, Nearly
<1>6. Born("netsrc")
  BY <1>1 DEF Born, NetSrcFits, Struct, Create, Calloc, Compositors
<1>7. Safe("netsrc")
  BY <1>1 DEF Safe, NetSrcFits, KnownLeaks, KnownStrays, Compositors, Odd
<1> QED
  BY <1>3, <1>4, <1>5, <1>6, <1>7 DEF Sound

LEMMA NetSinkSound == Sound("netsink")
<1>1. /\ \A s, q, o : Fits("netsink", s, q, o) <=> NetSinkFits(s, q, o)
      /\ \A h, q, in : Ops("netsink", h, q, in) = NetSinkOps(h, q, in)
  BY DEF Fits, Ops
<1>2. /\ Pads("netsink") = {"sink"} /\ Settings("netsink") = {"server", "udp", "timestamp_pacing"}
      /\ Forgotten("netsink") = {}
  BY DEF Pads, Settings, Forgotten, Compositors
<1>3. Moves("netsink")
  <2> SUFFICES ASSUME NEW h, NEW s, NEW q, NEW in, NEW o, NEW v, o \subseteq v,
                      NEW r \in Ops("netsink", h, q, in), Fits("netsink", s, q, o),
                      Calls(Pads("netsink"), h, s, q, in, v)
               PROVE  Fine(LAMBDA a, b, c : Fits("netsink", a, b, c), Settings("netsink"),
                           Forgotten("netsink"), h, s, q, in, v, r)
    BY DEF Moves
  <2>1. Fine(NetSinkFits, {"server", "udp", "timestamp_pacing"}, {}, h, s, q, in, v, r)
    BY <1>1, <1>2, NetSinkKeeps
  <2> QED
    BY <1>1, <1>2, <2>1 DEF Fine
<1>4. Idle("netsink")
  <2> SUFFICES ASSUME NEW h \in Hooks, NEW s, NEW q, NEW in, NEW o, NetSinkFits(s, q, o),
                      Calls({"sink"}, h, s, q, in, o), NetSinkOps(h, q, in) = NoHook
               PROVE  NetSinkFits(To(h, s, "ok"), q, o)
    BY <1>1, <1>2 DEF Idle
  <2>1. h # "open"
    BY Some
       DEF NetSinkOps, NoHook, NetSinkOpen, AllOrNothing, NetSinkCreateListenSocket,
          NetSinkCloseListen
  <2>2. h # "start"
    BY Some
       DEF NetSinkOps, NoHook, NetSinkStart
  <2>3. h # "stop"
    BY Some
       DEF NetSinkOps, NoHook, NetSinkStop, NetSinkCloseConnection
  <2>4. h # "close"
    BY Some
       DEF NetSinkOps, NoHook, NetSinkClose, NetSinkCloseConnection, NetSinkCloseListen
  <2> QED
    BY <2>1, <2>2, <2>3, <2>4
       DEF NetSinkFits, Hooks, To, Calls
<1>5. Steady("netsink")
  BY <1>1 DEF Steady, NetSinkFits, Nearly
<1>6. Born("netsink")
  BY <1>1 DEF Born, NetSinkFits, Struct, Create, Calloc, Compositors
<1>7. Safe("netsink")
  BY <1>1 DEF Safe, NetSinkFits, KnownLeaks, KnownStrays, Compositors, Odd
<1> QED
  BY <1>3, <1>4, <1>5, <1>6, <1>7 DEF Sound

LEMMA SrtSrcSound == Sound("srtsrc")
<1>1. /\ \A s, q, o : Fits("srtsrc", s, q, o) <=> SrtSrcFits(s, q, o)
      /\ \A h, q, in : Ops("srtsrc", h, q, in) = SrtSrcOps(h, q, in)
  BY DEF Fits, Ops
<1>2. /\ Pads("srtsrc") = {} /\ Settings("srtsrc") = {"listener"}
      /\ Forgotten("srtsrc") = {}
  BY DEF Pads, Settings, Forgotten, Compositors
<1>3. Moves("srtsrc")
  <2> SUFFICES ASSUME NEW h, NEW s, NEW q, NEW in, NEW o, NEW v, o \subseteq v,
                      NEW r \in Ops("srtsrc", h, q, in), Fits("srtsrc", s, q, o),
                      Calls(Pads("srtsrc"), h, s, q, in, v)
               PROVE  Fine(LAMBDA a, b, c : Fits("srtsrc", a, b, c), Settings("srtsrc"),
                           Forgotten("srtsrc"), h, s, q, in, v, r)
    BY DEF Moves
  <2>1. Fine(SrtSrcFits, {"listener"}, {}, h, s, q, in, v, r)
    BY <1>1, <1>2, SrtSrcKeeps
  <2> QED
    BY <1>1, <1>2, <2>1 DEF Fine
<1>4. Idle("srtsrc")
  <2> SUFFICES ASSUME NEW h \in Hooks, NEW s, NEW q, NEW in, NEW o, SrtSrcFits(s, q, o),
                      Calls({}, h, s, q, in, o), SrtSrcOps(h, q, in) = NoHook
               PROVE  SrtSrcFits(To(h, s, "ok"), q, o)
    BY <1>1, <1>2 DEF Idle
  <2>1. h # "open"
    BY Some
       DEF SrtSrcOps, NoHook, SrtSrcOpen, AllOrNothing
  <2>2. h # "start"
    BY Some
       DEF SrtSrcOps, NoHook, SrtSrcStart
  <2>3. h # "stop"
    BY Some
       DEF SrtSrcOps, NoHook, SrtSrcStop
  <2>4. h # "close"
    BY Some
       DEF SrtSrcOps, NoHook, SrtSrcClose
  <2> QED
    BY <2>1, <2>2, <2>3, <2>4
       DEF SrtSrcFits, Hooks, To, Calls
<1>5. Steady("srtsrc")
  BY <1>1 DEF Steady, SrtSrcFits, Nearly, Is
<1>6. Born("srtsrc")
  BY <1>1 DEF Born, SrtSrcFits, Struct, Create, Calloc, Compositors, Is
<1>7. Safe("srtsrc")
  BY <1>1 DEF Safe, SrtSrcFits, KnownLeaks, KnownStrays, Compositors, Odd, Is
<1> QED
  BY <1>3, <1>4, <1>5, <1>6, <1>7 DEF Sound

LEMMA SrtSinkSound == Sound("srtsink")
<1>1. /\ \A s, q, o : Fits("srtsink", s, q, o) <=> SrtSinkFits(s, q, o)
      /\ \A h, q, in : Ops("srtsink", h, q, in) = SrtSinkOps(h, q, in)
  BY DEF Fits, Ops
<1>2. /\ Pads("srtsink") = {"sink"} /\ Settings("srtsink") = {"listener"}
      /\ Forgotten("srtsink") = {}
  BY DEF Pads, Settings, Forgotten, Compositors
<1>3. Moves("srtsink")
  <2> SUFFICES ASSUME NEW h, NEW s, NEW q, NEW in, NEW o, NEW v, o \subseteq v,
                      NEW r \in Ops("srtsink", h, q, in), Fits("srtsink", s, q, o),
                      Calls(Pads("srtsink"), h, s, q, in, v)
               PROVE  Fine(LAMBDA a, b, c : Fits("srtsink", a, b, c), Settings("srtsink"),
                           Forgotten("srtsink"), h, s, q, in, v, r)
    BY DEF Moves
  <2>1. Fine(SrtSinkFits, {"listener"}, {}, h, s, q, in, v, r)
    BY <1>1, <1>2, SrtSinkKeeps
  <2> QED
    BY <1>1, <1>2, <2>1 DEF Fine
<1>4. Idle("srtsink")
  <2> SUFFICES ASSUME NEW h \in Hooks, NEW s, NEW q, NEW in, NEW o, SrtSinkFits(s, q, o),
                      Calls({"sink"}, h, s, q, in, o), SrtSinkOps(h, q, in) = NoHook
               PROVE  SrtSinkFits(To(h, s, "ok"), q, o)
    BY <1>1, <1>2 DEF Idle
  <2>1. h # "open"
    BY Some
       DEF SrtSinkOps, NoHook, SrtSinkOpen, AllOrNothing
  <2>2. h # "start"
    BY Some
       DEF SrtSinkOps, NoHook, SrtSinkStart
  <2>3. h # "stop"
    BY Some
       DEF SrtSinkOps, NoHook, SrtSinkStop
  <2>4. h # "close"
    BY Some
       DEF SrtSinkOps, NoHook, SrtSinkClose
  <2> QED
    BY <2>1, <2>2, <2>3, <2>4
       DEF SrtSinkFits, Hooks, To, Calls
<1>5. Steady("srtsink")
  BY <1>1 DEF Steady, SrtSinkFits, Nearly, Is
<1>6. Born("srtsink")
  BY <1>1 DEF Born, SrtSinkFits, Struct, Create, Calloc, Compositors, Is
<1>7. Safe("srtsink")
  BY <1>1 DEF Safe, SrtSinkFits, KnownLeaks, KnownStrays, Compositors, Odd, Is
<1> QED
  BY <1>3, <1>4, <1>5, <1>6, <1>7 DEF Sound

LEMMA HttpSound == Sound("httpsrc")
<1>1. /\ \A s, q, o : Fits("httpsrc", s, q, o) <=> HttpFits(s, q, o)
      /\ \A h, q, in : Ops("httpsrc", h, q, in) = HttpOps(h, q, in)
  BY DEF Fits, Ops
<1>2. /\ Pads("httpsrc") = {} /\ Settings("httpsrc") = {"url", "reconnect"}
      /\ Forgotten("httpsrc") = {}
  BY DEF Pads, Settings, Forgotten, Compositors
<1>3. Moves("httpsrc")
  <2> SUFFICES ASSUME NEW h, NEW s, NEW q, NEW in, NEW o, NEW v, o \subseteq v,
                      NEW r \in Ops("httpsrc", h, q, in), Fits("httpsrc", s, q, o),
                      Calls(Pads("httpsrc"), h, s, q, in, v)
               PROVE  Fine(LAMBDA a, b, c : Fits("httpsrc", a, b, c), Settings("httpsrc"),
                           Forgotten("httpsrc"), h, s, q, in, v, r)
    BY DEF Moves
  <2>1. Fine(HttpFits, {"url", "reconnect"}, {}, h, s, q, in, v, r)
    BY <1>1, <1>2, HttpKeeps
  <2> QED
    BY <1>1, <1>2, <2>1 DEF Fine
<1>4. Idle("httpsrc")
  <2> SUFFICES ASSUME NEW h \in Hooks, NEW s, NEW q, NEW in, NEW o, HttpFits(s, q, o),
                      Calls({}, h, s, q, in, o), HttpOps(h, q, in) = NoHook
               PROVE  HttpFits(To(h, s, "ok"), q, o)
    BY <1>1, <1>2 DEF Idle
  <2>1. h # "open"
    BY Some
       DEF HttpOps, NoHook, HttpOpen, Then, HttpConnect, AllOrNothing
  <2>2. h # "close"
    BY Some
       DEF HttpOps, NoHook, HttpClose
  <2> QED
    BY <2>1, <2>2
       DEF HttpFits, Hooks, To, Calls
<1>5. Steady("httpsrc")
  BY <1>1 DEF Steady, HttpFits, Nearly
<1>6. Born("httpsrc")
  BY <1>1 DEF Born, HttpFits, Struct, Create, Calloc, Compositors
<1>7. Safe("httpsrc")
  BY <1>1 DEF Safe, HttpFits, KnownLeaks, KnownStrays, Compositors, Odd
<1> QED
  BY <1>3, <1>4, <1>5, <1>6, <1>7 DEF Sound

LEMMA RtmpSrcSound == Sound("rtmpsrc")
<1>1. /\ \A s, q, o : Fits("rtmpsrc", s, q, o) <=> RtmpSrcFits(s, q, o)
      /\ \A h, q, in : Ops("rtmpsrc", h, q, in) = RtmpSrcOps(h, q, in)
  BY DEF Fits, Ops
<1>2. /\ Pads("rtmpsrc") = {} /\ Settings("rtmpsrc") = {"url", "reconnect"}
      /\ Forgotten("rtmpsrc") = {}
  BY DEF Pads, Settings, Forgotten, Compositors
<1>3. Moves("rtmpsrc")
  <2> SUFFICES ASSUME NEW h, NEW s, NEW q, NEW in, NEW o, NEW v, o \subseteq v,
                      NEW r \in Ops("rtmpsrc", h, q, in), Fits("rtmpsrc", s, q, o),
                      Calls(Pads("rtmpsrc"), h, s, q, in, v)
               PROVE  Fine(LAMBDA a, b, c : Fits("rtmpsrc", a, b, c), Settings("rtmpsrc"),
                           Forgotten("rtmpsrc"), h, s, q, in, v, r)
    BY DEF Moves
  <2>1. Fine(RtmpSrcFits, {"url", "reconnect"}, {}, h, s, q, in, v, r)
    BY <1>1, <1>2, RtmpSrcKeeps
  <2> QED
    BY <1>1, <1>2, <2>1 DEF Fine
<1>4. Idle("rtmpsrc")
  <2> SUFFICES ASSUME NEW h \in Hooks, NEW s, NEW q, NEW in, NEW o, RtmpSrcFits(s, q, o),
                      Calls({}, h, s, q, in, o), RtmpSrcOps(h, q, in) = NoHook
               PROVE  RtmpSrcFits(To(h, s, "ok"), q, o)
    BY <1>1, <1>2 DEF Idle
  <2>1. h # "open"
    BY Some
       DEF RtmpSrcOps, NoHook, RtmpSrcOpen, RtmpSrcConnect, AllOrNothing, RtmpSrcCloseInput
  <2>2. h # "start"
    BY Some
       DEF RtmpSrcOps, NoHook, RtmpSrcStart
  <2>3. h # "stop"
    BY Some, RtmpSrcEndedSome
       DEF RtmpSrcOps, NoHook, RtmpSrcStop, Regardless
  <2>4. h # "close"
    BY Some
       DEF RtmpSrcOps, NoHook, RtmpSrcClose, RtmpSrcCloseInput
  <2> QED
    BY <2>1, <2>2, <2>3, <2>4
       DEF RtmpSrcFits, Hooks, To, Calls
<1>5. Steady("rtmpsrc")
  BY <1>1 DEF Steady, RtmpSrcFits, Nearly, Is
<1>6. Born("rtmpsrc")
  BY <1>1 DEF Born, RtmpSrcFits, Struct, Create, Calloc, Compositors, Is
<1>7. Safe("rtmpsrc")
  BY <1>1 DEF Safe, RtmpSrcFits, KnownLeaks, KnownStrays, Compositors, Odd, Is
<1> QED
  BY <1>3, <1>4, <1>5, <1>6, <1>7 DEF Sound

LEMMA RtmpSinkSound == Sound("rtmpsink")
<1>1. /\ \A s, q, o : Fits("rtmpsink", s, q, o) <=> RtmpSinkFits(s, q, o)
      /\ \A h, q, in : Ops("rtmpsink", h, q, in) = RtmpSinkOps(h, q, in)
  BY DEF Fits, Ops
<1>2. /\ Pads("rtmpsink") = RtmpPads /\ Settings("rtmpsink") = {"url", "reconnect"}
      /\ Forgotten("rtmpsink") = {}
  BY DEF Pads, Settings, Forgotten, Compositors
<1>3. Moves("rtmpsink")
  <2> SUFFICES ASSUME NEW h, NEW s, NEW q, NEW in, NEW o, NEW v, o \subseteq v,
                      NEW r \in Ops("rtmpsink", h, q, in), Fits("rtmpsink", s, q, o),
                      Calls(Pads("rtmpsink"), h, s, q, in, v)
               PROVE  Fine(LAMBDA a, b, c : Fits("rtmpsink", a, b, c), Settings("rtmpsink"),
                           Forgotten("rtmpsink"), h, s, q, in, v, r)
    BY DEF Moves
  <2>1. Fine(RtmpSinkFits, {"url", "reconnect"}, {}, h, s, q, in, v, r)
    BY <1>1, <1>2, RtmpSinkKeeps
  <2> QED
    BY <1>1, <1>2, <2>1 DEF Fine
<1>4. Idle("rtmpsink")
  <2> SUFFICES ASSUME NEW h \in Hooks, NEW s, NEW q, NEW in, NEW o, RtmpSinkFits(s, q, o),
                      Calls(RtmpPads, h, s, q, in, o), RtmpSinkOps(h, q, in) = NoHook
               PROVE  RtmpSinkFits(To(h, s, "ok"), q, o)
    BY <1>1, <1>2 DEF Idle
  <2>1. h # "open"
    BY Some
       DEF RtmpSinkOps, NoHook, RtmpSinkOpen
  <2>2. h # "start"
    BY Some
       DEF RtmpSinkOps, NoHook, RtmpSinkStart, RtmpPads
  <2>3. h # "stop"
    BY Some
       DEF RtmpSinkOps, NoHook, RtmpSinkStop
  <2>4. h # "close"
    BY Some
       DEF RtmpSinkOps, NoHook, RtmpSinkClose
  <2> QED
    BY <2>1, <2>2, <2>3, <2>4
       DEF RtmpSinkFits, Hooks, To, Calls
<1>5. Steady("rtmpsink")
  BY <1>1 DEF Steady, RtmpSinkFits, Nearly, Is
<1>6. Born("rtmpsink")
  BY <1>1 DEF Born, RtmpSinkFits, Struct, Create, Calloc, Compositors, Is
<1>7. Safe("rtmpsink")
  BY <1>1 DEF Safe, RtmpSinkFits, KnownLeaks, KnownStrays, Compositors, Odd, Is
<1> QED
  BY <1>3, <1>4, <1>5, <1>6, <1>7 DEF Sound

LEMMA ScalerSound == Sound("videoscaler")
<1>1. /\ \A s, q, o : Fits("videoscaler", s, q, o) <=> ScalerFits(s, q, o)
      /\ \A h, q, in : Ops("videoscaler", h, q, in) = ScalerOps(h, q, in)
  BY DEF Fits, Ops
<1>2. /\ Pads("videoscaler") = {"sink"} /\ Settings("videoscaler") = {"target"}
      /\ Forgotten("videoscaler") = {}
  BY DEF Pads, Settings, Forgotten, Compositors
<1>3. Moves("videoscaler")
  <2> SUFFICES ASSUME NEW h, NEW s, NEW q, NEW in, NEW o, NEW v, o \subseteq v,
                      NEW r \in Ops("videoscaler", h, q, in), Fits("videoscaler", s, q, o),
                      Calls(Pads("videoscaler"), h, s, q, in, v)
               PROVE  Fine(LAMBDA a, b, c : Fits("videoscaler", a, b, c), Settings("videoscaler"),
                           Forgotten("videoscaler"), h, s, q, in, v, r)
    BY DEF Moves
  <2>1. Fine(ScalerFits, {"target"}, {}, h, s, q, in, v, r)
    BY <1>1, <1>2, ScalerKeeps
  <2> QED
    BY <1>1, <1>2, <2>1 DEF Fine
<1>4. Idle("videoscaler")
  <2> SUFFICES ASSUME NEW h \in Hooks, NEW s, NEW q, NEW in, NEW o, ScalerFits(s, q, o),
                      Calls({"sink"}, h, s, q, in, o), ScalerOps(h, q, in) = NoHook
               PROVE  ScalerFits(To(h, s, "ok"), q, o)
    BY <1>1, <1>2 DEF Idle
  <2>1. h # "open"
    BY Some
       DEF ScalerOps, NoHook, ScalerOpen
  <2>2. h # "close"
    BY Some
       DEF ScalerOps, NoHook, ScalerClose
  <2> QED
    BY <2>1, <2>2
       DEF ScalerFits, Hooks, To, Calls
<1>5. Steady("videoscaler")
  BY <1>1 DEF Steady, ScalerFits, Nearly
<1>6. Born("videoscaler")
  BY <1>1 DEF Born, ScalerFits, Struct, Create, Calloc, Compositors
<1>7. Safe("videoscaler")
  BY <1>1 DEF Safe, ScalerFits, KnownLeaks, KnownStrays, Compositors, Odd
<1> QED
  BY <1>3, <1>4, <1>5, <1>6, <1>7 DEF Sound

LEMMA ResamplerSound == Sound("audioresampler")
<1>1. /\ \A s, q, o : Fits("audioresampler", s, q, o) <=> ResamplerFits(s, q, o)
      /\ \A h, q, in : Ops("audioresampler", h, q, in) = ResamplerOps(h, q, in)
  BY DEF Fits, Ops
<1>2. /\ Pads("audioresampler") = {"sink"}
      /\ Settings("audioresampler") = {"rate", "asrc", "block_samples", "sample_rate"}
      /\ Forgotten("audioresampler") = {"rate"}
  BY DEF Pads, Settings, Forgotten, Compositors
<1>3. Moves("audioresampler")
  <2> SUFFICES ASSUME NEW h, NEW s, NEW q, NEW in, NEW o, NEW v, o \subseteq v,
                      NEW r \in Ops("audioresampler", h, q, in), Fits("audioresampler", s, q, o),
                      Calls(Pads("audioresampler"), h, s, q, in, v)
               PROVE  Fine(LAMBDA a, b, c : Fits("audioresampler", a, b, c), Settings("audioresampler"),
                           Forgotten("audioresampler"), h, s, q, in, v, r)
    BY DEF Moves
  <2>1. Fine(ResamplerFits, {"rate", "asrc", "block_samples", "sample_rate"}, {"rate"}, h, s, q, in, v, r)
    BY <1>1, <1>2, ResamplerKeeps
  <2> QED
    BY <1>1, <1>2, <2>1 DEF Fine
<1>4. Idle("audioresampler")
  <2> SUFFICES ASSUME NEW h \in Hooks, NEW s, NEW q, NEW in, NEW o, ResamplerFits(s, q, o),
                      Calls({"sink"}, h, s, q, in, o), ResamplerOps(h, q, in) = NoHook
               PROVE  ResamplerFits(To(h, s, "ok"), q, o)
    BY <1>1, <1>2 DEF Idle
  <2>1. h # "open"
    BY Some
       DEF ResamplerOps, NoHook, ResamplerOpen
  <2>2. h # "close"
    BY Some
       DEF ResamplerOps, NoHook, ResamplerClose
  <2> QED
    BY <2>1, <2>2
       DEF ResamplerFits, Hooks, To, Calls
<1>5. Steady("audioresampler")
  BY <1>1 DEF Steady, ResamplerFits, Nearly
<1>6. Born("audioresampler")
  BY <1>1 DEF Born, ResamplerFits, Struct, Create, Calloc, Compositors
<1>7. Safe("audioresampler")
  BY <1>1 DEF Safe, ResamplerFits, KnownLeaks, KnownStrays, Compositors, Odd
<1> QED
  BY <1>3, <1>4, <1>5, <1>6, <1>7 DEF Sound

LEMMA OverlaySound == Sound("textoverlay")
<1>1. /\ \A s, q, o : Fits("textoverlay", s, q, o) <=> OverlayFits(s, q, o)
      /\ \A h, q, in : Ops("textoverlay", h, q, in) = OverlayOps(h, q, in)
  BY DEF Fits, Ops
<1>2. /\ Pads("textoverlay") = OverlayPads
      /\ Settings("textoverlay") = {"text", "timecode", "font_path"}
      /\ Forgotten("textoverlay") = {}
  BY DEF Pads, Settings, Forgotten, Compositors
<1>3. Moves("textoverlay")
  <2> SUFFICES ASSUME NEW h, NEW s, NEW q, NEW in, NEW o, NEW v, o \subseteq v,
                      NEW r \in Ops("textoverlay", h, q, in), Fits("textoverlay", s, q, o),
                      Calls(Pads("textoverlay"), h, s, q, in, v)
               PROVE  Fine(LAMBDA a, b, c : Fits("textoverlay", a, b, c), Settings("textoverlay"),
                           Forgotten("textoverlay"), h, s, q, in, v, r)
    BY DEF Moves
  <2>1. Fine(OverlayFits, {"text", "timecode", "font_path"}, {}, h, s, q, in, v, r)
    BY <1>1, <1>2, OverlayKeeps
  <2> QED
    BY <1>1, <1>2, <2>1 DEF Fine
<1>4. Idle("textoverlay")
  <2> SUFFICES ASSUME NEW h \in Hooks, NEW s, NEW q, NEW in, NEW o, OverlayFits(s, q, o),
                      Calls(OverlayPads, h, s, q, in, o), OverlayOps(h, q, in) = NoHook
               PROVE  OverlayFits(To(h, s, "ok"), q, o)
    BY <1>1, <1>2 DEF Idle
  <2>1. h # "open"
    BY Some
       DEF OverlayOps, NoHook, OverlayOpen, AllOrNothing
  <2>2. h # "close"
    BY Some
       DEF OverlayOps, NoHook, OverlayClose
  <2> QED
    BY <2>1, <2>2
       DEF OverlayFits, Hooks, To, Calls
<1>5. Steady("textoverlay")
  BY <1>1 DEF Steady, OverlayFits, Nearly
<1>6. Born("textoverlay")
  BY <1>1 DEF Born, OverlayFits, Struct, Create, Calloc, Compositors
<1>7. Safe("textoverlay")
  BY <1>1 DEF Safe, OverlayFits, KnownLeaks, KnownStrays, Compositors, Odd
<1> QED
  BY <1>3, <1>4, <1>5, <1>6, <1>7 DEF Sound

LEMMA H26xSound == Sound("h26xparse")
<1>1. /\ \A s, q, o : Fits("h26xparse", s, q, o) <=> H26xFits(s, q, o)
      /\ \A h, q, in : Ops("h26xparse", h, q, in) = H26xOps(h, q, in)
  BY DEF Fits, Ops
<1>2. /\ Pads("h26xparse") = {"sink"}
      /\ Settings("h26xparse") = {"codec", "input_format", "policy", "aggregate"}
      /\ Forgotten("h26xparse") = {}
  BY DEF Pads, Settings, Forgotten, Compositors
<1>3. Moves("h26xparse")
  <2> SUFFICES ASSUME NEW h, NEW s, NEW q, NEW in, NEW o, NEW v, o \subseteq v,
                      NEW r \in Ops("h26xparse", h, q, in), Fits("h26xparse", s, q, o),
                      Calls(Pads("h26xparse"), h, s, q, in, v)
               PROVE  Fine(LAMBDA a, b, c : Fits("h26xparse", a, b, c), Settings("h26xparse"),
                           Forgotten("h26xparse"), h, s, q, in, v, r)
    BY DEF Moves
  <2>1. Fine(H26xFits, {"codec", "input_format", "policy", "aggregate"}, {}, h, s, q, in, v, r)
    BY <1>1, <1>2, H26xKeeps
  <2> QED
    BY <1>1, <1>2, <2>1 DEF Fine
<1>4. Idle("h26xparse")
  <2> SUFFICES ASSUME NEW h \in Hooks, NEW s, NEW q, NEW in, NEW o, H26xFits(s, q, o),
                      Calls({"sink"}, h, s, q, in, o), H26xOps(h, q, in) = NoHook
               PROVE  H26xFits(To(h, s, "ok"), q, o)
    BY <1>1, <1>2 DEF Idle
  <2>1. h # "open"
    BY Some
       DEF H26xOps, NoHook, H26xOpen, H26xClear
  <2>2. h # "close"
    BY Some
       DEF H26xOps, NoHook, H26xClose
  <2> QED
    BY <2>1, <2>2
       DEF H26xFits, Hooks, To, Calls
<1>5. Steady("h26xparse")
  BY <1>1 DEF Steady, H26xFits, Nearly
<1>6. Born("h26xparse")
  BY <1>1 DEF Born, H26xFits, Struct, Create, Calloc, Compositors
<1>7. Safe("h26xparse")
  BY <1>1 DEF Safe, H26xFits, KnownLeaks, KnownStrays, Compositors, Odd
<1> QED
  BY <1>3, <1>4, <1>5, <1>6, <1>7 DEF Sound

LEMMA AacParserSound == Sound("aacparse")
<1>1. /\ \A s, q, o : Fits("aacparse", s, q, o) <=> OwnsNothingFits(s, q, o)
      /\ \A h, q, in : Ops("aacparse", h, q, in) = AacParserOps(h, q, in)
  BY DEF Fits, Ops
<1>2. /\ Pads("aacparse") = {"sink"} /\ Settings("aacparse") = {"config"}
      /\ Forgotten("aacparse") = {}
  BY DEF Pads, Settings, Forgotten, Compositors
<1>3. Moves("aacparse")
  <2> SUFFICES ASSUME NEW h, NEW s, NEW q, NEW in, NEW o, NEW v, o \subseteq v,
                      NEW r \in Ops("aacparse", h, q, in), Fits("aacparse", s, q, o),
                      Calls(Pads("aacparse"), h, s, q, in, v)
               PROVE  Fine(LAMBDA a, b, c : Fits("aacparse", a, b, c), Settings("aacparse"),
                           Forgotten("aacparse"), h, s, q, in, v, r)
    BY DEF Moves
  <2>1. Fine(OwnsNothingFits, {"config"}, {}, h, s, q, in, v, r)
    BY <1>1, <1>2, AacParserKeeps
  <2> QED
    BY <1>1, <1>2, <2>1 DEF Fine
<1>4. Idle("aacparse")
  <2> SUFFICES ASSUME NEW h \in Hooks, NEW s, NEW q, NEW in, NEW o, OwnsNothingFits(s, q, o),
                      Calls({"sink"}, h, s, q, in, o), AacParserOps(h, q, in) = NoHook
               PROVE  OwnsNothingFits(To(h, s, "ok"), q, o)
    BY <1>1, <1>2 DEF Idle
  <2> QED
    BY DEF OwnsNothingFits, Hooks, To, Calls
<1>5. Steady("aacparse")
  BY <1>1 DEF Steady, OwnsNothingFits, Nearly
<1>6. Born("aacparse")
  BY <1>1 DEF Born, OwnsNothingFits, Struct, Create, Calloc, Compositors
<1>7. Safe("aacparse")
  BY <1>1 DEF Safe, OwnsNothingFits, KnownLeaks, KnownStrays, Compositors, Odd
<1> QED
  BY <1>3, <1>4, <1>5, <1>6, <1>7 DEF Sound

LEMMA SubRipSound == Sound("srtparse")
<1>1. /\ \A s, q, o : Fits("srtparse", s, q, o) <=> SubRipFits(s, q, o)
      /\ \A h, q, in : Ops("srtparse", h, q, in) = SubRipOps(h, q, in)
  BY DEF Fits, Ops
<1>2. /\ Pads("srtparse") = {} /\ Settings("srtparse") = {}
      /\ Forgotten("srtparse") = {}
  BY DEF Pads, Settings, Forgotten, Compositors
<1>3. Moves("srtparse")
  <2> SUFFICES ASSUME NEW h, NEW s, NEW q, NEW in, NEW o, NEW v, o \subseteq v,
                      NEW r \in Ops("srtparse", h, q, in), Fits("srtparse", s, q, o),
                      Calls(Pads("srtparse"), h, s, q, in, v)
               PROVE  Fine(LAMBDA a, b, c : Fits("srtparse", a, b, c), Settings("srtparse"),
                           Forgotten("srtparse"), h, s, q, in, v, r)
    BY DEF Moves
  <2>1. Fine(SubRipFits, {}, {}, h, s, q, in, v, r)
    BY <1>1, <1>2, SubRipKeeps
  <2> QED
    BY <1>1, <1>2, <2>1 DEF Fine
<1>4. Idle("srtparse")
  <2> SUFFICES ASSUME NEW h \in Hooks, NEW s, NEW q, NEW in, NEW o, SubRipFits(s, q, o),
                      Calls({}, h, s, q, in, o), SubRipOps(h, q, in) = NoHook
               PROVE  SubRipFits(To(h, s, "ok"), q, o)
    BY <1>1, <1>2 DEF Idle
  <2>1. h # "open"
    BY Some
       DEF SubRipOps, NoHook, SubRipOpen, AllOrNothing
  <2>2. h # "start"
    BY Some
       DEF SubRipOps, NoHook, SubRipStart
  <2>3. h # "stop"
    BY Some
       DEF SubRipOps, NoHook, SubRipStop
  <2>4. h # "close"
    BY Some
       DEF SubRipOps, NoHook, SubRipClose
  <2> QED
    BY <2>1, <2>2, <2>3, <2>4
       DEF SubRipFits, Hooks, To, Calls
<1>5. Steady("srtparse")
  BY <1>1 DEF Steady, SubRipFits, Nearly, Is
<1>6. Born("srtparse")
  BY <1>1 DEF Born, SubRipFits, Struct, Create, Calloc, Compositors, Is
<1>7. Safe("srtparse")
  BY <1>1 DEF Safe, SubRipFits, KnownLeaks, KnownStrays, Compositors, Odd, Is
<1> QED
  BY <1>3, <1>4, <1>5, <1>6, <1>7 DEF Sound

LEMMA Mp4MuxSound == Sound("mp4mux")
<1>1. /\ \A s, q, o : Fits("mp4mux", s, q, o) <=> Mp4MuxFits(s, q, o)
      /\ \A h, q, in : Ops("mp4mux", h, q, in) = Mp4MuxOps(h, q, in)
  BY DEF Fits, Ops
<1>2. /\ Pads("mp4mux") = MuxPads /\ Settings("mp4mux") = {"direct_file", "split_at_keyframe"}
      /\ Forgotten("mp4mux") = {}
  BY DEF Pads, Settings, Forgotten, Compositors
<1>3. Moves("mp4mux")
  <2> SUFFICES ASSUME NEW h, NEW s, NEW q, NEW in, NEW o, NEW v, o \subseteq v,
                      NEW r \in Ops("mp4mux", h, q, in), Fits("mp4mux", s, q, o),
                      Calls(Pads("mp4mux"), h, s, q, in, v)
               PROVE  Fine(LAMBDA a, b, c : Fits("mp4mux", a, b, c), Settings("mp4mux"),
                           Forgotten("mp4mux"), h, s, q, in, v, r)
    BY DEF Moves
  <2>1. Fine(Mp4MuxFits, {"direct_file", "split_at_keyframe"}, {}, h, s, q, in, v, r)
    BY <1>1, <1>2, Mp4MuxKeeps
  <2> QED
    BY <1>1, <1>2, <2>1 DEF Fine
<1>4. Idle("mp4mux")
  <2> SUFFICES ASSUME NEW h \in Hooks, NEW s, NEW q, NEW in, NEW o, Mp4MuxFits(s, q, o),
                      Calls(MuxPads, h, s, q, in, o), Mp4MuxOps(h, q, in) = NoHook
               PROVE  Mp4MuxFits(To(h, s, "ok"), q, o)
    BY <1>1, <1>2 DEF Idle
  <2>1. h # "start"
    BY Some
       DEF Mp4MuxOps, NoHook, Mp4MuxStart, MuxStart, MuxPads
  <2>2. h # "stop"
    BY Some, Mp4MuxStopSome
       DEF Mp4MuxOps, NoHook
  <2> QED
    BY <2>1, <2>2
       DEF Mp4MuxFits, Hooks, To, Calls
<1>5. Steady("mp4mux")
  BY <1>1 DEF Steady, Mp4MuxFits, Nearly, Odd, Is, IoContexts
<1>6. Born("mp4mux")
  BY <1>1 DEF Born, Mp4MuxFits, Struct, Create, Calloc, Compositors, Odd, Is, IoContexts
<1>7. Safe("mp4mux")
  BY <1>1 DEF Safe, Mp4MuxFits, KnownLeaks, KnownStrays, Compositors, Odd, Is, IoContexts
<1> QED
  BY <1>3, <1>4, <1>5, <1>6, <1>7 DEF Sound

LEMMA TsMuxSound == Sound("tsmux")
<1>1. /\ \A s, q, o : Fits("tsmux", s, q, o) <=> TsMuxFits(s, q, o)
      /\ \A h, q, in : Ops("tsmux", h, q, in) = TsMuxOps(h, q, in)
  BY DEF Fits, Ops
<1>2. /\ Pads("tsmux") = MuxPads /\ Settings("tsmux") = {"direct_file"}
      /\ Forgotten("tsmux") = {}
  BY DEF Pads, Settings, Forgotten, Compositors
<1>3. Moves("tsmux")
  <2> SUFFICES ASSUME NEW h, NEW s, NEW q, NEW in, NEW o, NEW v, o \subseteq v,
                      NEW r \in Ops("tsmux", h, q, in), Fits("tsmux", s, q, o),
                      Calls(Pads("tsmux"), h, s, q, in, v)
               PROVE  Fine(LAMBDA a, b, c : Fits("tsmux", a, b, c), Settings("tsmux"),
                           Forgotten("tsmux"), h, s, q, in, v, r)
    BY DEF Moves
  <2>1. Fine(TsMuxFits, {"direct_file"}, {}, h, s, q, in, v, r)
    BY <1>1, <1>2, TsMuxKeeps
  <2> QED
    BY <1>1, <1>2, <2>1 DEF Fine
<1>4. Idle("tsmux")
  <2> SUFFICES ASSUME NEW h \in Hooks, NEW s, NEW q, NEW in, NEW o, TsMuxFits(s, q, o),
                      Calls(MuxPads, h, s, q, in, o), TsMuxOps(h, q, in) = NoHook
               PROVE  TsMuxFits(To(h, s, "ok"), q, o)
    BY <1>1, <1>2 DEF Idle
  <2>1. h # "start"
    BY Some
       DEF TsMuxOps, NoHook, TsMuxStart, MuxStart, MuxPads
  <2>2. h # "stop"
    BY Some, MuxStopSome
       DEF TsMuxOps, NoHook, TsMuxStop
  <2> QED
    BY <2>1, <2>2
       DEF TsMuxFits, Hooks, To, Calls
<1>5. Steady("tsmux")
  BY <1>1 DEF Steady, TsMuxFits, Nearly, Odd, Is, IoContexts
<1>6. Born("tsmux")
  BY <1>1 DEF Born, TsMuxFits, Struct, Create, Calloc, Compositors, Odd, Is, IoContexts
<1>7. Safe("tsmux")
  BY <1>1 DEF Safe, TsMuxFits, KnownLeaks, KnownStrays, Compositors, Odd, Is, IoContexts
<1> QED
  BY <1>3, <1>4, <1>5, <1>6, <1>7 DEF Sound

LEMMA Mp4DemuxSound == Sound("mp4demux")
<1>1. /\ \A s, q, o : Fits("mp4demux", s, q, o) <=> Mp4DemuxFits(s, q, o)
      /\ \A h, q, in : Ops("mp4demux", h, q, in) = Mp4DemuxOps(h, q, in)
  BY DEF Fits, Ops
<1>2. /\ Pads("mp4demux") = {"sink"} /\ Settings("mp4demux") = {"direct_file"}
      /\ Forgotten("mp4demux") = {}
  BY DEF Pads, Settings, Forgotten, Compositors
<1>3. Moves("mp4demux")
  <2> SUFFICES ASSUME NEW h, NEW s, NEW q, NEW in, NEW o, NEW v, o \subseteq v,
                      NEW r \in Ops("mp4demux", h, q, in), Fits("mp4demux", s, q, o),
                      Calls(Pads("mp4demux"), h, s, q, in, v)
               PROVE  Fine(LAMBDA a, b, c : Fits("mp4demux", a, b, c), Settings("mp4demux"),
                           Forgotten("mp4demux"), h, s, q, in, v, r)
    BY DEF Moves
  <2>1. Fine(Mp4DemuxFits, {"direct_file"}, {}, h, s, q, in, v, r)
    BY <1>1, <1>2, Mp4DemuxKeeps
  <2> QED
    BY <1>1, <1>2, <2>1 DEF Fine
<1>4. Idle("mp4demux")
  <2> SUFFICES ASSUME NEW h \in Hooks, NEW s, NEW q, NEW in, NEW o, Mp4DemuxFits(s, q, o),
                      Calls({"sink"}, h, s, q, in, o), Mp4DemuxOps(h, q, in) = NoHook
               PROVE  Mp4DemuxFits(To(h, s, "ok"), q, o)
    BY <1>1, <1>2 DEF Idle
  <2>1. h # "open"
    BY Some
       DEF Mp4DemuxOps, NoHook, DemuxOpen
  <2>2. h # "start"
    BY Some
       DEF Mp4DemuxOps, NoHook, Mp4DemuxStart, DemuxFresh, DemuxFound
  <2>3. h # "stop"
    BY Some
       DEF Mp4DemuxOps, NoHook, DemuxStop, IoFreed, IoContexts, IoKind
  <2>4. h # "close"
    BY Some
       DEF Mp4DemuxOps, NoHook, DemuxClose
  <2> QED
    BY <2>1, <2>2, <2>3, <2>4
       DEF Mp4DemuxFits, Hooks, To, Calls
<1>5. Steady("mp4demux")
  BY <1>1 DEF Steady, Mp4DemuxFits, Nearly, Odd, Is
<1>6. Born("mp4demux")
  BY <1>1 DEF Born, Mp4DemuxFits, Struct, Create, Calloc, Compositors, Odd, Is
<1>7. Safe("mp4demux")
  BY <1>1 DEF Safe, Mp4DemuxFits, KnownLeaks, KnownStrays, Compositors, Odd, Is
<1> QED
  BY <1>3, <1>4, <1>5, <1>6, <1>7 DEF Sound

LEMMA TsDemuxSound == Sound("tsdemux")
<1>1. /\ \A s, q, o : Fits("tsdemux", s, q, o) <=> TsDemuxFits(s, q, o)
      /\ \A h, q, in : Ops("tsdemux", h, q, in) = TsDemuxOps(h, q, in)
  BY DEF Fits, Ops
<1>2. /\ Pads("tsdemux") = {"sink"} /\ Settings("tsdemux") = {"direct_file"}
      /\ Forgotten("tsdemux") = {}
  BY DEF Pads, Settings, Forgotten, Compositors
<1>3. Moves("tsdemux")
  <2> SUFFICES ASSUME NEW h, NEW s, NEW q, NEW in, NEW o, NEW v, o \subseteq v,
                      NEW r \in Ops("tsdemux", h, q, in), Fits("tsdemux", s, q, o),
                      Calls(Pads("tsdemux"), h, s, q, in, v)
               PROVE  Fine(LAMBDA a, b, c : Fits("tsdemux", a, b, c), Settings("tsdemux"),
                           Forgotten("tsdemux"), h, s, q, in, v, r)
    BY DEF Moves
  <2>1. Fine(TsDemuxFits, {"direct_file"}, {}, h, s, q, in, v, r)
    BY <1>1, <1>2, TsDemuxKeeps
  <2> QED
    BY <1>1, <1>2, <2>1 DEF Fine
<1>4. Idle("tsdemux")
  <2> SUFFICES ASSUME NEW h \in Hooks, NEW s, NEW q, NEW in, NEW o, TsDemuxFits(s, q, o),
                      Calls({"sink"}, h, s, q, in, o), TsDemuxOps(h, q, in) = NoHook
               PROVE  TsDemuxFits(To(h, s, "ok"), q, o)
    BY <1>1, <1>2 DEF Idle
  <2>1. h # "open"
    BY Some
       DEF TsDemuxOps, NoHook, DemuxOpen
  <2>2. h # "start"
    BY Some
       DEF TsDemuxOps, NoHook, TsDemuxStart, DemuxFresh, DemuxFound
  <2>3. h # "stop"
    BY Some
       DEF TsDemuxOps, NoHook, DemuxStop, IoFreed, IoContexts, IoKind
  <2>4. h # "close"
    BY Some
       DEF TsDemuxOps, NoHook, DemuxClose
  <2> QED
    BY <2>1, <2>2, <2>3, <2>4
       DEF TsDemuxFits, Hooks, To, Calls
<1>5. Steady("tsdemux")
  BY <1>1 DEF Steady, TsDemuxFits, Nearly, Odd, Is
<1>6. Born("tsdemux")
  BY <1>1 DEF Born, TsDemuxFits, Struct, Create, Calloc, Compositors, Odd, Is
<1>7. Safe("tsdemux")
  BY <1>1 DEF Safe, TsDemuxFits, KnownLeaks, KnownStrays, Compositors, Odd, Is
<1> QED
  BY <1>3, <1>4, <1>5, <1>6, <1>7 DEF Sound

LEMMA RtpPaySound == Sound("rtppay")
<1>1. /\ \A s, q, o : Fits("rtppay", s, q, o) <=> RtpPayFits(s, q, o)
      /\ \A h, q, in : Ops("rtppay", h, q, in) = RtpPayOps(h, q, in)
  BY DEF Fits, Ops
<1>2. /\ Pads("rtppay") = {"sink"} /\ Settings("rtppay") = {"codec", "mtu", "seq"}
      /\ Forgotten("rtppay") = {}
  BY DEF Pads, Settings, Forgotten, Compositors
<1>3. Moves("rtppay")
  <2> SUFFICES ASSUME NEW h, NEW s, NEW q, NEW in, NEW o, NEW v, o \subseteq v,
                      NEW r \in Ops("rtppay", h, q, in), Fits("rtppay", s, q, o),
                      Calls(Pads("rtppay"), h, s, q, in, v)
               PROVE  Fine(LAMBDA a, b, c : Fits("rtppay", a, b, c), Settings("rtppay"),
                           Forgotten("rtppay"), h, s, q, in, v, r)
    BY DEF Moves
  <2>1. Fine(RtpPayFits, {"codec", "mtu", "seq"}, {}, h, s, q, in, v, r)
    BY <1>1, <1>2, RtpPayKeeps
  <2> QED
    BY <1>1, <1>2, <2>1 DEF Fine
<1>4. Idle("rtppay")
  <2> SUFFICES ASSUME NEW h \in Hooks, NEW s, NEW q, NEW in, NEW o, RtpPayFits(s, q, o),
                      Calls({"sink"}, h, s, q, in, o), RtpPayOps(h, q, in) = NoHook
               PROVE  RtpPayFits(To(h, s, "ok"), q, o)
    BY <1>1, <1>2 DEF Idle
  <2>1. h # "open"
    BY Some
       DEF RtpPayOps, NoHook, RtpPayOpen
  <2>2. h # "close"
    BY Some
       DEF RtpPayOps, NoHook, RtpPayClose
  <2> QED
    BY <2>1, <2>2
       DEF RtpPayFits, Hooks, To, Calls
<1>5. Steady("rtppay")
  BY <1>1 DEF Steady, RtpPayFits, Nearly
<1>6. Born("rtppay")
  BY <1>1 DEF Born, RtpPayFits, Struct, Create, Calloc, Compositors
<1>7. Safe("rtppay")
  BY <1>1 DEF Safe, RtpPayFits, KnownLeaks, KnownStrays, Compositors, Odd
<1> QED
  BY <1>3, <1>4, <1>5, <1>6, <1>7 DEF Sound

LEMMA RtpDepaySound == Sound("rtpdepay")
<1>1. /\ \A s, q, o : Fits("rtpdepay", s, q, o) <=> RtpDepayFits(s, q, o)
      /\ \A h, q, in : Ops("rtpdepay", h, q, in) = RtpDepayOps(h, q, in)
  BY DEF Fits, Ops
<1>2. /\ Pads("rtpdepay") = {"sink"} /\ Settings("rtpdepay") = {"codec", "ssrc"}
      /\ Forgotten("rtpdepay") = {}
  BY DEF Pads, Settings, Forgotten, Compositors
<1>3. Moves("rtpdepay")
  <2> SUFFICES ASSUME NEW h, NEW s, NEW q, NEW in, NEW o, NEW v, o \subseteq v,
                      NEW r \in Ops("rtpdepay", h, q, in), Fits("rtpdepay", s, q, o),
                      Calls(Pads("rtpdepay"), h, s, q, in, v)
               PROVE  Fine(LAMBDA a, b, c : Fits("rtpdepay", a, b, c), Settings("rtpdepay"),
                           Forgotten("rtpdepay"), h, s, q, in, v, r)
    BY DEF Moves
  <2>1. Fine(RtpDepayFits, {"codec", "ssrc"}, {}, h, s, q, in, v, r)
    BY <1>1, <1>2, RtpDepayKeeps
  <2> QED
    BY <1>1, <1>2, <2>1 DEF Fine
<1>4. Idle("rtpdepay")
  <2> SUFFICES ASSUME NEW h \in Hooks, NEW s, NEW q, NEW in, NEW o, RtpDepayFits(s, q, o),
                      Calls({"sink"}, h, s, q, in, o), RtpDepayOps(h, q, in) = NoHook
               PROVE  RtpDepayFits(To(h, s, "ok"), q, o)
    BY <1>1, <1>2 DEF Idle
  <2>1. h # "open"
    BY Some
       DEF RtpDepayOps, NoHook, RtpDepayOpen, RtpDepayResetAu
  <2>2. h # "close"
    BY Some
       DEF RtpDepayOps, NoHook, RtpDepayClose, RtpDepayResetAu
  <2> QED
    BY <2>1, <2>2
       DEF RtpDepayFits, Hooks, To, Calls
<1>5. Steady("rtpdepay")
  BY <1>1 DEF Steady, RtpDepayFits, Nearly
<1>6. Born("rtpdepay")
  BY <1>1 DEF Born, RtpDepayFits, Struct, Create, Calloc, Compositors
<1>7. Safe("rtpdepay")
  BY <1>1 DEF Safe, RtpDepayFits, KnownLeaks, KnownStrays, Compositors, Odd
<1> QED
  BY <1>3, <1>4, <1>5, <1>6, <1>7 DEF Sound

LEMMA Pay20Sound == Sound("st2110_20pay")
<1>1. /\ \A s, q, o : Fits("st2110_20pay", s, q, o) <=> OwnsNothingFits(s, q, o)
      /\ \A h, q, in : Ops("st2110_20pay", h, q, in) = Pay20Ops(h, q, in)
  BY DEF Fits, Ops
<1>2. /\ Pads("st2110_20pay") = {"sink"} /\ Settings("st2110_20pay") = {}
      /\ Forgotten("st2110_20pay") = {}
  BY DEF Pads, Settings, Forgotten, Compositors
<1>3. Moves("st2110_20pay")
  <2> SUFFICES ASSUME NEW h, NEW s, NEW q, NEW in, NEW o, NEW v, o \subseteq v,
                      NEW r \in Ops("st2110_20pay", h, q, in), Fits("st2110_20pay", s, q, o),
                      Calls(Pads("st2110_20pay"), h, s, q, in, v)
               PROVE  Fine(LAMBDA a, b, c : Fits("st2110_20pay", a, b, c), Settings("st2110_20pay"),
                           Forgotten("st2110_20pay"), h, s, q, in, v, r)
    BY DEF Moves
  <2>1. Fine(OwnsNothingFits, {}, {}, h, s, q, in, v, r)
    BY <1>1, <1>2, Pay20Keeps
  <2> QED
    BY <1>1, <1>2, <2>1 DEF Fine
<1>4. Idle("st2110_20pay")
  <2> SUFFICES ASSUME NEW h \in Hooks, NEW s, NEW q, NEW in, NEW o, OwnsNothingFits(s, q, o),
                      Calls({"sink"}, h, s, q, in, o), Pay20Ops(h, q, in) = NoHook
               PROVE  OwnsNothingFits(To(h, s, "ok"), q, o)
    BY <1>1, <1>2 DEF Idle
  <2> QED
    BY DEF OwnsNothingFits, Hooks, To, Calls
<1>5. Steady("st2110_20pay")
  BY <1>1 DEF Steady, OwnsNothingFits, Nearly
<1>6. Born("st2110_20pay")
  BY <1>1 DEF Born, OwnsNothingFits, Struct, Create, Calloc, Compositors
<1>7. Safe("st2110_20pay")
  BY <1>1 DEF Safe, OwnsNothingFits, KnownLeaks, KnownStrays, Compositors, Odd
<1> QED
  BY <1>3, <1>4, <1>5, <1>6, <1>7 DEF Sound

LEMMA Depay20Sound == Sound("st2110_20depay")
<1>1. /\ \A s, q, o : Fits("st2110_20depay", s, q, o) <=> Depay20Fits(s, q, o)
      /\ \A h, q, in : Ops("st2110_20depay", h, q, in) = Depay20Ops(h, q, in)
  BY DEF Fits, Ops
<1>2. /\ Pads("st2110_20depay") = {"sink"} /\ Settings("st2110_20depay") = {}
      /\ Forgotten("st2110_20depay") = {}
  BY DEF Pads, Settings, Forgotten, Compositors
<1>3. Moves("st2110_20depay")
  <2> SUFFICES ASSUME NEW h, NEW s, NEW q, NEW in, NEW o, NEW v, o \subseteq v,
                      NEW r \in Ops("st2110_20depay", h, q, in), Fits("st2110_20depay", s, q, o),
                      Calls(Pads("st2110_20depay"), h, s, q, in, v)
               PROVE  Fine(LAMBDA a, b, c : Fits("st2110_20depay", a, b, c), Settings("st2110_20depay"),
                           Forgotten("st2110_20depay"), h, s, q, in, v, r)
    BY DEF Moves
  <2>1. Fine(Depay20Fits, {}, {}, h, s, q, in, v, r)
    BY <1>1, <1>2, Depay20Keeps
  <2> QED
    BY <1>1, <1>2, <2>1 DEF Fine
<1>4. Idle("st2110_20depay")
  <2> SUFFICES ASSUME NEW h \in Hooks, NEW s, NEW q, NEW in, NEW o, Depay20Fits(s, q, o),
                      Calls({"sink"}, h, s, q, in, o), Depay20Ops(h, q, in) = NoHook
               PROVE  Depay20Fits(To(h, s, "ok"), q, o)
    BY <1>1, <1>2 DEF Idle
  <2> QED
    BY DEF Depay20Fits, Hooks, To, Calls
<1>5. Steady("st2110_20depay")
  BY <1>1 DEF Steady, Depay20Fits, Nearly
<1>6. Born("st2110_20depay")
  BY <1>1 DEF Born, Depay20Fits, Struct, Create, Calloc, Compositors
<1>7. Safe("st2110_20depay")
  BY <1>1 DEF Safe, Depay20Fits, KnownLeaks, KnownStrays, Compositors, Odd
<1> QED
  BY <1>3, <1>4, <1>5, <1>6, <1>7 DEF Sound

LEMMA Pay21Sound == Sound("st2110_21pay")
<1>1. /\ \A s, q, o : Fits("st2110_21pay", s, q, o) <=> Pay21Fits(s, q, o)
      /\ \A h, q, in : Ops("st2110_21pay", h, q, in) = Pay21Ops(h, q, in)
  BY DEF Fits, Ops
<1>2. /\ Pads("st2110_21pay") = {"sink"} /\ Settings("st2110_21pay") = {}
      /\ Forgotten("st2110_21pay") = {}
  BY DEF Pads, Settings, Forgotten, Compositors
<1>3. Moves("st2110_21pay")
  <2> SUFFICES ASSUME NEW h, NEW s, NEW q, NEW in, NEW o, NEW v, o \subseteq v,
                      NEW r \in Ops("st2110_21pay", h, q, in), Fits("st2110_21pay", s, q, o),
                      Calls(Pads("st2110_21pay"), h, s, q, in, v)
               PROVE  Fine(LAMBDA a, b, c : Fits("st2110_21pay", a, b, c), Settings("st2110_21pay"),
                           Forgotten("st2110_21pay"), h, s, q, in, v, r)
    BY DEF Moves
  <2>1. Fine(Pay21Fits, {}, {}, h, s, q, in, v, r)
    BY <1>1, <1>2, Pay21Keeps
  <2> QED
    BY <1>1, <1>2, <2>1 DEF Fine
<1>4. Idle("st2110_21pay")
  <2> SUFFICES ASSUME NEW h \in Hooks, NEW s, NEW q, NEW in, NEW o, Pay21Fits(s, q, o),
                      Calls({"sink"}, h, s, q, in, o), Pay21Ops(h, q, in) = NoHook
               PROVE  Pay21Fits(To(h, s, "ok"), q, o)
    BY <1>1, <1>2 DEF Idle
  <2>1. h # "start"
    BY Some
       DEF Pay21Ops, NoHook, Pay21Start
  <2>2. h # "stop"
    BY Some
       DEF Pay21Ops, NoHook, Pay21Stop
  <2> QED
    BY <2>1, <2>2
       DEF Pay21Fits, Hooks, To, Calls
<1>5. Steady("st2110_21pay")
  BY <1>1 DEF Steady, Pay21Fits, Nearly
<1>6. Born("st2110_21pay")
  BY <1>1 DEF Born, Pay21Fits, Struct, Create, Calloc, Compositors
<1>7. Safe("st2110_21pay")
  BY <1>1 DEF Safe, Pay21Fits, KnownLeaks, KnownStrays, Compositors, Odd
<1> QED
  BY <1>3, <1>4, <1>5, <1>6, <1>7 DEF Sound

LEMMA Depay21Sound == Sound("st2110_21depay")
<1>1. /\ \A s, q, o : Fits("st2110_21depay", s, q, o) <=> Depay21Fits(s, q, o)
      /\ \A h, q, in : Ops("st2110_21depay", h, q, in) = Depay21Ops(h, q, in)
  BY DEF Fits, Ops
<1>2. /\ Pads("st2110_21depay") = {"sink"} /\ Settings("st2110_21depay") = {}
      /\ Forgotten("st2110_21depay") = {}
  BY DEF Pads, Settings, Forgotten, Compositors
<1>3. Moves("st2110_21depay")
  <2> SUFFICES ASSUME NEW h, NEW s, NEW q, NEW in, NEW o, NEW v, o \subseteq v,
                      NEW r \in Ops("st2110_21depay", h, q, in), Fits("st2110_21depay", s, q, o),
                      Calls(Pads("st2110_21depay"), h, s, q, in, v)
               PROVE  Fine(LAMBDA a, b, c : Fits("st2110_21depay", a, b, c), Settings("st2110_21depay"),
                           Forgotten("st2110_21depay"), h, s, q, in, v, r)
    BY DEF Moves
  <2>1. Fine(Depay21Fits, {}, {}, h, s, q, in, v, r)
    BY <1>1, <1>2, Depay21Keeps
  <2> QED
    BY <1>1, <1>2, <2>1 DEF Fine
<1>4. Idle("st2110_21depay")
  <2> SUFFICES ASSUME NEW h \in Hooks, NEW s, NEW q, NEW in, NEW o, Depay21Fits(s, q, o),
                      Calls({"sink"}, h, s, q, in, o), Depay21Ops(h, q, in) = NoHook
               PROVE  Depay21Fits(To(h, s, "ok"), q, o)
    BY <1>1, <1>2 DEF Idle
  <2>1. h # "stop"
    BY Some
       DEF Depay21Ops, NoHook, Depay21Stop
  <2> QED
    BY <2>1
       DEF Depay21Fits, Hooks, To, Calls
<1>5. Steady("st2110_21depay")
  BY <1>1 DEF Steady, Depay21Fits, Nearly
<1>6. Born("st2110_21depay")
  BY <1>1 DEF Born, Depay21Fits, Struct, Create, Calloc, Compositors
<1>7. Safe("st2110_21depay")
  BY <1>1 DEF Safe, Depay21Fits, KnownLeaks, KnownStrays, Compositors, Odd
<1> QED
  BY <1>3, <1>4, <1>5, <1>6, <1>7 DEF Sound

LEMMA Pay22Sound == Sound("st2110_22pay")
<1>1. /\ \A s, q, o : Fits("st2110_22pay", s, q, o) <=> Pay22Fits(s, q, o)
      /\ \A h, q, in : Ops("st2110_22pay", h, q, in) = Pay22Ops(h, q, in)
  BY DEF Fits, Ops
<1>2. /\ Pads("st2110_22pay") = {"sink"} /\ Settings("st2110_22pay") = {}
      /\ Forgotten("st2110_22pay") = {}
  BY DEF Pads, Settings, Forgotten, Compositors
<1>3. Moves("st2110_22pay")
  <2> SUFFICES ASSUME NEW h, NEW s, NEW q, NEW in, NEW o, NEW v, o \subseteq v,
                      NEW r \in Ops("st2110_22pay", h, q, in), Fits("st2110_22pay", s, q, o),
                      Calls(Pads("st2110_22pay"), h, s, q, in, v)
               PROVE  Fine(LAMBDA a, b, c : Fits("st2110_22pay", a, b, c), Settings("st2110_22pay"),
                           Forgotten("st2110_22pay"), h, s, q, in, v, r)
    BY DEF Moves
  <2>1. Fine(Pay22Fits, {}, {}, h, s, q, in, v, r)
    BY <1>1, <1>2, Pay22Keeps
  <2> QED
    BY <1>1, <1>2, <2>1 DEF Fine
<1>4. Idle("st2110_22pay")
  <2> SUFFICES ASSUME NEW h \in Hooks, NEW s, NEW q, NEW in, NEW o, Pay22Fits(s, q, o),
                      Calls({"sink"}, h, s, q, in, o), Pay22Ops(h, q, in) = NoHook
               PROVE  Pay22Fits(To(h, s, "ok"), q, o)
    BY <1>1, <1>2 DEF Idle
  <2>1. h # "start"
    BY Some
       DEF Pay22Ops, NoHook, Pay22Start, AllOrNothing
  <2>2. h # "stop"
    BY Some
       DEF Pay22Ops, NoHook, Pay22Stop, FreeCodec
  <2> QED
    BY <2>1, <2>2
       DEF Pay22Fits, Hooks, To, Calls
<1>5. Steady("st2110_22pay")
  BY <1>1 DEF Steady, Pay22Fits, Nearly
<1>6. Born("st2110_22pay")
  BY <1>1 DEF Born, Pay22Fits, Struct, Create, Calloc, Compositors
<1>7. Safe("st2110_22pay")
  BY <1>1 DEF Safe, Pay22Fits, KnownLeaks, KnownStrays, Compositors, Odd
<1> QED
  BY <1>3, <1>4, <1>5, <1>6, <1>7 DEF Sound

LEMMA Depay22Sound == Sound("st2110_22depay")
<1>1. /\ \A s, q, o : Fits("st2110_22depay", s, q, o) <=> Depay22Fits(s, q, o)
      /\ \A h, q, in : Ops("st2110_22depay", h, q, in) = Depay22Ops(h, q, in)
  BY DEF Fits, Ops
<1>2. /\ Pads("st2110_22depay") = {"sink"} /\ Settings("st2110_22depay") = {}
      /\ Forgotten("st2110_22depay") = {}
  BY DEF Pads, Settings, Forgotten, Compositors
<1>3. Moves("st2110_22depay")
  <2> SUFFICES ASSUME NEW h, NEW s, NEW q, NEW in, NEW o, NEW v, o \subseteq v,
                      NEW r \in Ops("st2110_22depay", h, q, in), Fits("st2110_22depay", s, q, o),
                      Calls(Pads("st2110_22depay"), h, s, q, in, v)
               PROVE  Fine(LAMBDA a, b, c : Fits("st2110_22depay", a, b, c), Settings("st2110_22depay"),
                           Forgotten("st2110_22depay"), h, s, q, in, v, r)
    BY DEF Moves
  <2>1. Fine(Depay22Fits, {}, {}, h, s, q, in, v, r)
    BY <1>1, <1>2, Depay22Keeps
  <2> QED
    BY <1>1, <1>2, <2>1 DEF Fine
<1>4. Idle("st2110_22depay")
  <2> SUFFICES ASSUME NEW h \in Hooks, NEW s, NEW q, NEW in, NEW o, Depay22Fits(s, q, o),
                      Calls({"sink"}, h, s, q, in, o), Depay22Ops(h, q, in) = NoHook
               PROVE  Depay22Fits(To(h, s, "ok"), q, o)
    BY <1>1, <1>2 DEF Idle
  <2>1. h # "start"
    BY Some
       DEF Depay22Ops, NoHook, Depay22Start, AllOrNothing
  <2>2. h # "stop"
    BY Some
       DEF Depay22Ops, NoHook, Depay22Stop, FreeCodec
  <2> QED
    BY <2>1, <2>2
       DEF Depay22Fits, Hooks, To, Calls
<1>5. Steady("st2110_22depay")
  BY <1>1 DEF Steady, Depay22Fits, Nearly, Is
<1>6. Born("st2110_22depay")
  BY <1>1 DEF Born, Depay22Fits, Struct, Create, Calloc, Compositors, Is
<1>7. Safe("st2110_22depay")
  BY <1>1 DEF Safe, Depay22Fits, KnownLeaks, KnownStrays, Compositors, Odd, Is
<1> QED
  BY <1>3, <1>4, <1>5, <1>6, <1>7 DEF Sound

LEMMA Pay30Sound == Sound("st2110_30pay")
<1>1. /\ \A s, q, o : Fits("st2110_30pay", s, q, o) <=> Pay30Fits(s, q, o)
      /\ \A h, q, in : Ops("st2110_30pay", h, q, in) = Pay30Ops(h, q, in)
  BY DEF Fits, Ops
<1>2. /\ Pads("st2110_30pay") = {"sink"} /\ Settings("st2110_30pay") = {}
      /\ Forgotten("st2110_30pay") = {}
  BY DEF Pads, Settings, Forgotten, Compositors
<1>3. Moves("st2110_30pay")
  <2> SUFFICES ASSUME NEW h, NEW s, NEW q, NEW in, NEW o, NEW v, o \subseteq v,
                      NEW r \in Ops("st2110_30pay", h, q, in), Fits("st2110_30pay", s, q, o),
                      Calls(Pads("st2110_30pay"), h, s, q, in, v)
               PROVE  Fine(LAMBDA a, b, c : Fits("st2110_30pay", a, b, c), Settings("st2110_30pay"),
                           Forgotten("st2110_30pay"), h, s, q, in, v, r)
    BY DEF Moves
  <2>1. Fine(Pay30Fits, {}, {}, h, s, q, in, v, r)
    BY <1>1, <1>2, Pay30Keeps
  <2> QED
    BY <1>1, <1>2, <2>1 DEF Fine
<1>4. Idle("st2110_30pay")
  <2> SUFFICES ASSUME NEW h \in Hooks, NEW s, NEW q, NEW in, NEW o, Pay30Fits(s, q, o),
                      Calls({"sink"}, h, s, q, in, o), Pay30Ops(h, q, in) = NoHook
               PROVE  Pay30Fits(To(h, s, "ok"), q, o)
    BY <1>1, <1>2 DEF Idle
  <2> QED
    BY DEF Pay30Fits, Hooks, To, Calls
<1>5. Steady("st2110_30pay")
  BY <1>1 DEF Steady, Pay30Fits, Nearly
<1>6. Born("st2110_30pay")
  BY <1>1 DEF Born, Pay30Fits, Struct, Create, Calloc, Compositors
<1>7. Safe("st2110_30pay")
  BY <1>1 DEF Safe, Pay30Fits, KnownLeaks, KnownStrays, Compositors, Odd
<1> QED
  BY <1>3, <1>4, <1>5, <1>6, <1>7 DEF Sound

LEMMA Depay30Sound == Sound("st2110_30depay")
<1>1. /\ \A s, q, o : Fits("st2110_30depay", s, q, o) <=> Depay30Fits(s, q, o)
      /\ \A h, q, in : Ops("st2110_30depay", h, q, in) = Depay30Ops(h, q, in)
  BY DEF Fits, Ops
<1>2. /\ Pads("st2110_30depay") = {"sink"} /\ Settings("st2110_30depay") = {}
      /\ Forgotten("st2110_30depay") = {}
  BY DEF Pads, Settings, Forgotten, Compositors
<1>3. Moves("st2110_30depay")
  <2> SUFFICES ASSUME NEW h, NEW s, NEW q, NEW in, NEW o, NEW v, o \subseteq v,
                      NEW r \in Ops("st2110_30depay", h, q, in), Fits("st2110_30depay", s, q, o),
                      Calls(Pads("st2110_30depay"), h, s, q, in, v)
               PROVE  Fine(LAMBDA a, b, c : Fits("st2110_30depay", a, b, c), Settings("st2110_30depay"),
                           Forgotten("st2110_30depay"), h, s, q, in, v, r)
    BY DEF Moves
  <2>1. Fine(Depay30Fits, {}, {}, h, s, q, in, v, r)
    BY <1>1, <1>2, Depay30Keeps
  <2> QED
    BY <1>1, <1>2, <2>1 DEF Fine
<1>4. Idle("st2110_30depay")
  <2> SUFFICES ASSUME NEW h \in Hooks, NEW s, NEW q, NEW in, NEW o, Depay30Fits(s, q, o),
                      Calls({"sink"}, h, s, q, in, o), Depay30Ops(h, q, in) = NoHook
               PROVE  Depay30Fits(To(h, s, "ok"), q, o)
    BY <1>1, <1>2 DEF Idle
  <2> QED
    BY DEF Depay30Fits, Hooks, To, Calls
<1>5. Steady("st2110_30depay")
  BY <1>1 DEF Steady, Depay30Fits, Nearly
<1>6. Born("st2110_30depay")
  BY <1>1 DEF Born, Depay30Fits, Struct, Create, Calloc, Compositors
<1>7. Safe("st2110_30depay")
  BY <1>1 DEF Safe, Depay30Fits, KnownLeaks, KnownStrays, Compositors, Odd
<1> QED
  BY <1>3, <1>4, <1>5, <1>6, <1>7 DEF Sound

LEMMA Pay40Sound == Sound("st2110_40pay")
<1>1. /\ \A s, q, o : Fits("st2110_40pay", s, q, o) <=> Pay40Fits(s, q, o)
      /\ \A h, q, in : Ops("st2110_40pay", h, q, in) = Pay40Ops(h, q, in)
  BY DEF Fits, Ops
<1>2. /\ Pads("st2110_40pay") = {"sink"} /\ Settings("st2110_40pay") = {}
      /\ Forgotten("st2110_40pay") = {}
  BY DEF Pads, Settings, Forgotten, Compositors
<1>3. Moves("st2110_40pay")
  <2> SUFFICES ASSUME NEW h, NEW s, NEW q, NEW in, NEW o, NEW v, o \subseteq v,
                      NEW r \in Ops("st2110_40pay", h, q, in), Fits("st2110_40pay", s, q, o),
                      Calls(Pads("st2110_40pay"), h, s, q, in, v)
               PROVE  Fine(LAMBDA a, b, c : Fits("st2110_40pay", a, b, c), Settings("st2110_40pay"),
                           Forgotten("st2110_40pay"), h, s, q, in, v, r)
    BY DEF Moves
  <2>1. Fine(Pay40Fits, {}, {}, h, s, q, in, v, r)
    BY <1>1, <1>2, Pay40Keeps
  <2> QED
    BY <1>1, <1>2, <2>1 DEF Fine
<1>4. Idle("st2110_40pay")
  <2> SUFFICES ASSUME NEW h \in Hooks, NEW s, NEW q, NEW in, NEW o, Pay40Fits(s, q, o),
                      Calls({"sink"}, h, s, q, in, o), Pay40Ops(h, q, in) = NoHook
               PROVE  Pay40Fits(To(h, s, "ok"), q, o)
    BY <1>1, <1>2 DEF Idle
  <2>1. h # "close"
    BY Some
       DEF Pay40Ops, NoHook, Pay40Close, Pay40FreeAux
  <2> QED
    BY <2>1
       DEF Pay40Fits, Hooks, To, Calls
<1>5. Steady("st2110_40pay")
  BY <1>1 DEF Steady, Pay40Fits, Nearly
<1>6. Born("st2110_40pay")
  BY <1>1 DEF Born, Pay40Fits, Struct, Create, Calloc, Compositors
<1>7. Safe("st2110_40pay")
  BY <1>1 DEF Safe, Pay40Fits, KnownLeaks, KnownStrays, Compositors, Odd
<1> QED
  BY <1>3, <1>4, <1>5, <1>6, <1>7 DEF Sound

LEMMA Depay40Sound == Sound("st2110_40depay")
<1>1. /\ \A s, q, o : Fits("st2110_40depay", s, q, o) <=> Depay30Fits(s, q, o)
      /\ \A h, q, in : Ops("st2110_40depay", h, q, in) = Depay40Ops(h, q, in)
  BY DEF Fits, Ops
<1>2. /\ Pads("st2110_40depay") = {"sink"} /\ Settings("st2110_40depay") = {}
      /\ Forgotten("st2110_40depay") = {}
  BY DEF Pads, Settings, Forgotten, Compositors
<1>3. Moves("st2110_40depay")
  <2> SUFFICES ASSUME NEW h, NEW s, NEW q, NEW in, NEW o, NEW v, o \subseteq v,
                      NEW r \in Ops("st2110_40depay", h, q, in), Fits("st2110_40depay", s, q, o),
                      Calls(Pads("st2110_40depay"), h, s, q, in, v)
               PROVE  Fine(LAMBDA a, b, c : Fits("st2110_40depay", a, b, c), Settings("st2110_40depay"),
                           Forgotten("st2110_40depay"), h, s, q, in, v, r)
    BY DEF Moves
  <2>1. Fine(Depay30Fits, {}, {}, h, s, q, in, v, r)
    BY <1>1, <1>2, Depay40Keeps
  <2> QED
    BY <1>1, <1>2, <2>1 DEF Fine
<1>4. Idle("st2110_40depay")
  <2> SUFFICES ASSUME NEW h \in Hooks, NEW s, NEW q, NEW in, NEW o, Depay30Fits(s, q, o),
                      Calls({"sink"}, h, s, q, in, o), Depay40Ops(h, q, in) = NoHook
               PROVE  Depay30Fits(To(h, s, "ok"), q, o)
    BY <1>1, <1>2 DEF Idle
  <2> QED
    BY DEF Depay30Fits, Hooks, To, Calls
<1>5. Steady("st2110_40depay")
  BY <1>1 DEF Steady, Depay30Fits, Nearly
<1>6. Born("st2110_40depay")
  BY <1>1 DEF Born, Depay30Fits, Struct, Create, Calloc, Compositors
<1>7. Safe("st2110_40depay")
  BY <1>1 DEF Safe, Depay30Fits, KnownLeaks, KnownStrays, Compositors, Odd
<1> QED
  BY <1>3, <1>4, <1>5, <1>6, <1>7 DEF Sound

LEMMA FecEncoderSound == Sound("st2110_fecenc")
<1>1. /\ \A s, q, o : Fits("st2110_fecenc", s, q, o) <=> OwnsNothingFits(s, q, o)
      /\ \A h, q, in : Ops("st2110_fecenc", h, q, in) = FecEncoderOps(h, q, in)
  BY DEF Fits, Ops
<1>2. /\ Pads("st2110_fecenc") = {"sink"} /\ Settings("st2110_fecenc") = {"L", "D"}
      /\ Forgotten("st2110_fecenc") = {}
  BY DEF Pads, Settings, Forgotten, Compositors
<1>3. Moves("st2110_fecenc")
  <2> SUFFICES ASSUME NEW h, NEW s, NEW q, NEW in, NEW o, NEW v, o \subseteq v,
                      NEW r \in Ops("st2110_fecenc", h, q, in), Fits("st2110_fecenc", s, q, o),
                      Calls(Pads("st2110_fecenc"), h, s, q, in, v)
               PROVE  Fine(LAMBDA a, b, c : Fits("st2110_fecenc", a, b, c), Settings("st2110_fecenc"),
                           Forgotten("st2110_fecenc"), h, s, q, in, v, r)
    BY DEF Moves
  <2>1. Fine(OwnsNothingFits, {"L", "D"}, {}, h, s, q, in, v, r)
    BY <1>1, <1>2, FecEncoderKeeps
  <2> QED
    BY <1>1, <1>2, <2>1 DEF Fine
<1>4. Idle("st2110_fecenc")
  <2> SUFFICES ASSUME NEW h \in Hooks, NEW s, NEW q, NEW in, NEW o, OwnsNothingFits(s, q, o),
                      Calls({"sink"}, h, s, q, in, o), FecEncoderOps(h, q, in) = NoHook
               PROVE  OwnsNothingFits(To(h, s, "ok"), q, o)
    BY <1>1, <1>2 DEF Idle
  <2> QED
    BY DEF OwnsNothingFits, Hooks, To, Calls
<1>5. Steady("st2110_fecenc")
  BY <1>1 DEF Steady, OwnsNothingFits, Nearly
<1>6. Born("st2110_fecenc")
  BY <1>1 DEF Born, OwnsNothingFits, Struct, Create, Calloc, Compositors
<1>7. Safe("st2110_fecenc")
  BY <1>1 DEF Safe, OwnsNothingFits, KnownLeaks, KnownStrays, Compositors, Odd
<1> QED
  BY <1>3, <1>4, <1>5, <1>6, <1>7 DEF Sound

LEMMA FecDecoderSound == Sound("st2110_fecdec")
<1>1. /\ \A s, q, o : Fits("st2110_fecdec", s, q, o) <=> OwnsNothingFits(s, q, o)
      /\ \A h, q, in : Ops("st2110_fecdec", h, q, in) = FecDecoderOps(h, q, in)
  BY DEF Fits, Ops
<1>2. /\ Pads("st2110_fecdec") = {"sink"} /\ Settings("st2110_fecdec") = {"L", "D"}
      /\ Forgotten("st2110_fecdec") = {}
  BY DEF Pads, Settings, Forgotten, Compositors
<1>3. Moves("st2110_fecdec")
  <2> SUFFICES ASSUME NEW h, NEW s, NEW q, NEW in, NEW o, NEW v, o \subseteq v,
                      NEW r \in Ops("st2110_fecdec", h, q, in), Fits("st2110_fecdec", s, q, o),
                      Calls(Pads("st2110_fecdec"), h, s, q, in, v)
               PROVE  Fine(LAMBDA a, b, c : Fits("st2110_fecdec", a, b, c), Settings("st2110_fecdec"),
                           Forgotten("st2110_fecdec"), h, s, q, in, v, r)
    BY DEF Moves
  <2>1. Fine(OwnsNothingFits, {"L", "D"}, {}, h, s, q, in, v, r)
    BY <1>1, <1>2, FecDecoderKeeps
  <2> QED
    BY <1>1, <1>2, <2>1 DEF Fine
<1>4. Idle("st2110_fecdec")
  <2> SUFFICES ASSUME NEW h \in Hooks, NEW s, NEW q, NEW in, NEW o, OwnsNothingFits(s, q, o),
                      Calls({"sink"}, h, s, q, in, o), FecDecoderOps(h, q, in) = NoHook
               PROVE  OwnsNothingFits(To(h, s, "ok"), q, o)
    BY <1>1, <1>2 DEF Idle
  <2> QED
    BY DEF OwnsNothingFits, Hooks, To, Calls
<1>5. Steady("st2110_fecdec")
  BY <1>1 DEF Steady, OwnsNothingFits, Nearly
<1>6. Born("st2110_fecdec")
  BY <1>1 DEF Born, OwnsNothingFits, Struct, Create, Calloc, Compositors
<1>7. Safe("st2110_fecdec")
  BY <1>1 DEF Safe, OwnsNothingFits, KnownLeaks, KnownStrays, Compositors, Odd
<1> QED
  BY <1>3, <1>4, <1>5, <1>6, <1>7 DEF Sound

LEMMA RedMuxSound == Sound("st2110_redmux")
<1>1. /\ \A s, q, o : Fits("st2110_redmux", s, q, o) <=> OwnsNothingFits(s, q, o)
      /\ \A h, q, in : Ops("st2110_redmux", h, q, in) = RedMuxOps(h, q, in)
  BY DEF Fits, Ops
<1>2. /\ Pads("st2110_redmux") = {"sink"} /\ Settings("st2110_redmux") = {"fec_enabled"}
      /\ Forgotten("st2110_redmux") = {"fec_enabled"}
  BY DEF Pads, Settings, Forgotten, Compositors
<1>3. Moves("st2110_redmux")
  <2> SUFFICES ASSUME NEW h, NEW s, NEW q, NEW in, NEW o, NEW v, o \subseteq v,
                      NEW r \in Ops("st2110_redmux", h, q, in), Fits("st2110_redmux", s, q, o),
                      Calls(Pads("st2110_redmux"), h, s, q, in, v)
               PROVE  Fine(LAMBDA a, b, c : Fits("st2110_redmux", a, b, c), Settings("st2110_redmux"),
                           Forgotten("st2110_redmux"), h, s, q, in, v, r)
    BY DEF Moves
  <2>1. Fine(OwnsNothingFits, {"fec_enabled"}, {"fec_enabled"}, h, s, q, in, v, r)
    BY <1>1, <1>2, RedMuxKeeps
  <2> QED
    BY <1>1, <1>2, <2>1 DEF Fine
<1>4. Idle("st2110_redmux")
  <2> SUFFICES ASSUME NEW h \in Hooks, NEW s, NEW q, NEW in, NEW o, OwnsNothingFits(s, q, o),
                      Calls({"sink"}, h, s, q, in, o), RedMuxOps(h, q, in) = NoHook
               PROVE  OwnsNothingFits(To(h, s, "ok"), q, o)
    BY <1>1, <1>2 DEF Idle
  <2>1. h # "open"
    BY Some
       DEF RedMuxOps, NoHook, RedMuxOpen
  <2>2. h # "close"
    BY Some
       DEF RedMuxOps, NoHook, RedClose
  <2> QED
    BY <2>1, <2>2
       DEF OwnsNothingFits, Hooks, To, Calls
<1>5. Steady("st2110_redmux")
  BY <1>1 DEF Steady, OwnsNothingFits, Nearly
<1>6. Born("st2110_redmux")
  BY <1>1 DEF Born, OwnsNothingFits, Struct, Create, Calloc, Compositors
<1>7. Safe("st2110_redmux")
  BY <1>1 DEF Safe, OwnsNothingFits, KnownLeaks, KnownStrays, Compositors, Odd
<1> QED
  BY <1>3, <1>4, <1>5, <1>6, <1>7 DEF Sound

LEMMA RedDemuxSound == Sound("st2110_reddemux")
<1>1. /\ \A s, q, o : Fits("st2110_reddemux", s, q, o) <=> OwnsNothingFits(s, q, o)
      /\ \A h, q, in : Ops("st2110_reddemux", h, q, in) = RedDemuxOps(h, q, in)
  BY DEF Fits, Ops
<1>2. /\ Pads("st2110_reddemux") = RedPads /\ Settings("st2110_reddemux") = {"failover_detection_ms"}
      /\ Forgotten("st2110_reddemux") = {"failover_detection_ms"}
  BY DEF Pads, Settings, Forgotten, Compositors
<1>3. Moves("st2110_reddemux")
  <2> SUFFICES ASSUME NEW h, NEW s, NEW q, NEW in, NEW o, NEW v, o \subseteq v,
                      NEW r \in Ops("st2110_reddemux", h, q, in), Fits("st2110_reddemux", s, q, o),
                      Calls(Pads("st2110_reddemux"), h, s, q, in, v)
               PROVE  Fine(LAMBDA a, b, c : Fits("st2110_reddemux", a, b, c), Settings("st2110_reddemux"),
                           Forgotten("st2110_reddemux"), h, s, q, in, v, r)
    BY DEF Moves
  <2>1. Fine(OwnsNothingFits, {"failover_detection_ms"}, {"failover_detection_ms"}, h, s, q, in, v, r)
    BY <1>1, <1>2, RedDemuxKeeps
  <2> QED
    BY <1>1, <1>2, <2>1 DEF Fine
<1>4. Idle("st2110_reddemux")
  <2> SUFFICES ASSUME NEW h \in Hooks, NEW s, NEW q, NEW in, NEW o, OwnsNothingFits(s, q, o),
                      Calls(RedPads, h, s, q, in, o), RedDemuxOps(h, q, in) = NoHook
               PROVE  OwnsNothingFits(To(h, s, "ok"), q, o)
    BY <1>1, <1>2 DEF Idle
  <2>1. h # "open"
    BY Some
       DEF RedDemuxOps, NoHook, RedDemuxOpen
  <2>2. h # "close"
    BY Some
       DEF RedDemuxOps, NoHook, RedClose
  <2> QED
    BY <2>1, <2>2
       DEF OwnsNothingFits, Hooks, To, Calls
<1>5. Steady("st2110_reddemux")
  BY <1>1 DEF Steady, OwnsNothingFits, Nearly
<1>6. Born("st2110_reddemux")
  BY <1>1 DEF Born, OwnsNothingFits, Struct, Create, Calloc, Compositors
<1>7. Safe("st2110_reddemux")
  BY <1>1 DEF Safe, OwnsNothingFits, KnownLeaks, KnownStrays, Compositors, Odd
<1> QED
  BY <1>3, <1>4, <1>5, <1>6, <1>7 DEF Sound

LEMMA SdpMuxSound == Sound("sdpmux")
<1>1. /\ \A s, q, o : Fits("sdpmux", s, q, o) <=> OwnsNothingFits(s, q, o)
      /\ \A h, q, in : Ops("sdpmux", h, q, in) = SdpMuxOps(h, q, in)
  BY DEF Fits, Ops
<1>2. /\ Pads("sdpmux") = SdpPads /\ Settings("sdpmux") = {"emit_always"}
      /\ Forgotten("sdpmux") = {}
  BY DEF Pads, Settings, Forgotten, Compositors
<1>3. Moves("sdpmux")
  <2> SUFFICES ASSUME NEW h, NEW s, NEW q, NEW in, NEW o, NEW v, o \subseteq v,
                      NEW r \in Ops("sdpmux", h, q, in), Fits("sdpmux", s, q, o),
                      Calls(Pads("sdpmux"), h, s, q, in, v)
               PROVE  Fine(LAMBDA a, b, c : Fits("sdpmux", a, b, c), Settings("sdpmux"),
                           Forgotten("sdpmux"), h, s, q, in, v, r)
    BY DEF Moves
  <2>1. Fine(OwnsNothingFits, {"emit_always"}, {}, h, s, q, in, v, r)
    BY <1>1, <1>2, SdpMuxKeeps
  <2> QED
    BY <1>1, <1>2, <2>1 DEF Fine
<1>4. Idle("sdpmux")
  <2> SUFFICES ASSUME NEW h \in Hooks, NEW s, NEW q, NEW in, NEW o, OwnsNothingFits(s, q, o),
                      Calls(SdpPads, h, s, q, in, o), SdpMuxOps(h, q, in) = NoHook
               PROVE  OwnsNothingFits(To(h, s, "ok"), q, o)
    BY <1>1, <1>2 DEF Idle
  <2>1. h # "open"
    BY Some
       DEF SdpMuxOps, NoHook, SdpMuxOpen, SdpMuxGenerate, MayFail
  <2>2. h # "start"
    BY Some
       DEF SdpMuxOps, NoHook, SdpMuxStart, SdpMuxGenerate, MayFail
  <2>3. h # "stop"
    BY Some
       DEF SdpMuxOps, NoHook, SdpMuxStop
  <2>4. h # "close"
    BY Some
       DEF SdpMuxOps, NoHook, SdpMuxClose, SdpMuxStop
  <2> QED
    BY <2>1, <2>2, <2>3, <2>4
       DEF OwnsNothingFits, Hooks, To, Calls
<1>5. Steady("sdpmux")
  BY <1>1 DEF Steady, OwnsNothingFits, Nearly
<1>6. Born("sdpmux")
  BY <1>1 DEF Born, OwnsNothingFits, Struct, Create, Calloc, Compositors
<1>7. Safe("sdpmux")
  BY <1>1 DEF Safe, OwnsNothingFits, KnownLeaks, KnownStrays, Compositors, Odd
<1> QED
  BY <1>3, <1>4, <1>5, <1>6, <1>7 DEF Sound

LEMMA SdpDemuxSound == Sound("sdpdemux")
<1>1. /\ \A s, q, o : Fits("sdpdemux", s, q, o) <=> SdpDemuxFits(s, q, o)
      /\ \A h, q, in : Ops("sdpdemux", h, q, in) = SdpDemuxOps(h, q, in)
  BY DEF Fits, Ops
<1>2. /\ Pads("sdpdemux") = {"sink"} /\ Settings("sdpdemux") = {"sdp", "reorder_capacity"}
      /\ Forgotten("sdpdemux") = {}
  BY DEF Pads, Settings, Forgotten, Compositors
<1>3. Moves("sdpdemux")
  <2> SUFFICES ASSUME NEW h, NEW s, NEW q, NEW in, NEW o, NEW v, o \subseteq v,
                      NEW r \in Ops("sdpdemux", h, q, in), Fits("sdpdemux", s, q, o),
                      Calls(Pads("sdpdemux"), h, s, q, in, v)
               PROVE  Fine(LAMBDA a, b, c : Fits("sdpdemux", a, b, c), Settings("sdpdemux"),
                           Forgotten("sdpdemux"), h, s, q, in, v, r)
    BY DEF Moves
  <2>1. Fine(SdpDemuxFits, {"sdp", "reorder_capacity"}, {}, h, s, q, in, v, r)
    BY <1>1, <1>2, SdpDemuxKeeps
  <2> QED
    BY <1>1, <1>2, <2>1 DEF Fine
<1>4. Idle("sdpdemux")
  <2> SUFFICES ASSUME NEW h \in Hooks, NEW s, NEW q, NEW in, NEW o, SdpDemuxFits(s, q, o),
                      Calls({"sink"}, h, s, q, in, o), SdpDemuxOps(h, q, in) = NoHook
               PROVE  SdpDemuxFits(To(h, s, "ok"), q, o)
    BY <1>1, <1>2 DEF Idle
  <2>1. h # "open"
    BY Some
       DEF SdpDemuxOps, NoHook, SdpDemuxOpen, SdpParse
  <2>2. h # "start"
    BY Some
       DEF SdpDemuxOps, NoHook, SdpDemuxStart
  <2>3. h # "close"
    BY Some
       DEF SdpDemuxOps, NoHook, SdpDemuxClose
  <2> QED
    BY <2>1, <2>2, <2>3
       DEF SdpDemuxFits, Hooks, To, Calls
<1>5. Steady("sdpdemux")
  BY <1>1 DEF Steady, SdpDemuxFits, Nearly, Is
<1>6. Born("sdpdemux")
  BY <1>1 DEF Born, SdpDemuxFits, Struct, Create, Calloc, Compositors, Is
<1>7. Safe("sdpdemux")
  BY <1>1 DEF Safe, SdpDemuxFits, KnownLeaks, KnownStrays, Compositors, Odd, Is
<1> QED
  BY <1>3, <1>4, <1>5, <1>6, <1>7 DEF Sound

LEMMA UdpSrcSound == Sound("danteudpsrc")
<1>1. /\ \A s, q, o : Fits("danteudpsrc", s, q, o) <=> UdpSrcFits(s, q, o)
      /\ \A h, q, in : Ops("danteudpsrc", h, q, in) = UdpSrcOps(h, q, in)
  BY DEF Fits, Ops
<1>2. /\ Pads("danteudpsrc") = {} /\ Settings("danteudpsrc") = {"address"}
      /\ Forgotten("danteudpsrc") = {}
  BY DEF Pads, Settings, Forgotten, Compositors
<1>3. Moves("danteudpsrc")
  <2> SUFFICES ASSUME NEW h, NEW s, NEW q, NEW in, NEW o, NEW v, o \subseteq v,
                      NEW r \in Ops("danteudpsrc", h, q, in), Fits("danteudpsrc", s, q, o),
                      Calls(Pads("danteudpsrc"), h, s, q, in, v)
               PROVE  Fine(LAMBDA a, b, c : Fits("danteudpsrc", a, b, c), Settings("danteudpsrc"),
                           Forgotten("danteudpsrc"), h, s, q, in, v, r)
    BY DEF Moves
  <2>1. Fine(UdpSrcFits, {"address"}, {}, h, s, q, in, v, r)
    BY <1>1, <1>2, UdpSrcKeeps
  <2> QED
    BY <1>1, <1>2, <2>1 DEF Fine
<1>4. Idle("danteudpsrc")
  <2> SUFFICES ASSUME NEW h \in Hooks, NEW s, NEW q, NEW in, NEW o, UdpSrcFits(s, q, o),
                      Calls({}, h, s, q, in, o), UdpSrcOps(h, q, in) = NoHook
               PROVE  UdpSrcFits(To(h, s, "ok"), q, o)
    BY <1>1, <1>2 DEF Idle
  <2>1. h # "open"
    BY Some
       DEF UdpSrcOps, NoHook, UdpSrcOpen, UdpSrcReaderStop, UdpSrcLock
  <2>2. h # "close"
    BY Some
       DEF UdpSrcOps, NoHook, UdpSrcClose, UdpSrcReaderStop, UdpSrcLock
  <2> QED
    BY <2>1, <2>2
       DEF UdpSrcFits, Hooks, To, Calls
<1>5. Steady("danteudpsrc")
  BY <1>1 DEF Steady, UdpSrcFits, Nearly
<1>6. Born("danteudpsrc")
  BY <1>1 DEF Born, UdpSrcFits, Struct, Create, Calloc, Compositors
<1>7. Safe("danteudpsrc")
  BY <1>1 DEF Safe, UdpSrcFits, KnownLeaks, KnownStrays, Compositors, Odd
<1> QED
  BY <1>3, <1>4, <1>5, <1>6, <1>7 DEF Sound

LEMMA UdpSinkSound == Sound("danteudpsink")
<1>1. /\ \A s, q, o : Fits("danteudpsink", s, q, o) <=> UdpSinkFits(s, q, o)
      /\ \A h, q, in : Ops("danteudpsink", h, q, in) = UdpSinkOps(h, q, in)
  BY DEF Fits, Ops
<1>2. /\ Pads("danteudpsink") = {"sink"} /\ Settings("danteudpsink") = {"timestamp_pacing"}
      /\ Forgotten("danteudpsink") = {}
  BY DEF Pads, Settings, Forgotten, Compositors
<1>3. Moves("danteudpsink")
  <2> SUFFICES ASSUME NEW h, NEW s, NEW q, NEW in, NEW o, NEW v, o \subseteq v,
                      NEW r \in Ops("danteudpsink", h, q, in), Fits("danteudpsink", s, q, o),
                      Calls(Pads("danteudpsink"), h, s, q, in, v)
               PROVE  Fine(LAMBDA a, b, c : Fits("danteudpsink", a, b, c), Settings("danteudpsink"),
                           Forgotten("danteudpsink"), h, s, q, in, v, r)
    BY DEF Moves
  <2>1. Fine(UdpSinkFits, {"timestamp_pacing"}, {}, h, s, q, in, v, r)
    BY <1>1, <1>2, UdpSinkKeeps
  <2> QED
    BY <1>1, <1>2, <2>1 DEF Fine
<1>4. Idle("danteudpsink")
  <2> SUFFICES ASSUME NEW h \in Hooks, NEW s, NEW q, NEW in, NEW o, UdpSinkFits(s, q, o),
                      Calls({"sink"}, h, s, q, in, o), UdpSinkOps(h, q, in) = NoHook
               PROVE  UdpSinkFits(To(h, s, "ok"), q, o)
    BY <1>1, <1>2 DEF Idle
  <2>1. h # "open"
    BY Some
       DEF UdpSinkOps, NoHook, UdpSinkOpen
  <2>2. h # "start"
    BY Some
       DEF UdpSinkOps, NoHook, UdpSinkStart
  <2>3. h # "stop"
    BY Some
       DEF UdpSinkOps, NoHook, UdpSinkStop
  <2>4. h # "close"
    BY Some
       DEF UdpSinkOps, NoHook, UdpSinkClose
  <2> QED
    BY <2>1, <2>2, <2>3, <2>4
       DEF UdpSinkFits, Hooks, To, Calls
<1>5. Steady("danteudpsink")
  BY <1>1 DEF Steady, UdpSinkFits, Nearly
<1>6. Born("danteudpsink")
  BY <1>1 DEF Born, UdpSinkFits, Struct, Create, Calloc, Compositors
<1>7. Safe("danteudpsink")
  BY <1>1 DEF Safe, UdpSinkFits, KnownLeaks, KnownStrays, Compositors, Odd
<1> QED
  BY <1>3, <1>4, <1>5, <1>6, <1>7 DEF Sound

LEMMA DepSourceSound == Sound("dantedepsrc")
<1>1. /\ \A s, q, o : Fits("dantedepsrc", s, q, o) <=> DepFits(s, q, o)
      /\ \A h, q, in : Ops("dantedepsrc", h, q, in) = DepSourceOps(h, q, in)
  BY DEF Fits, Ops
<1>2. /\ Pads("dantedepsrc") = {} /\ Settings("dantedepsrc") = {"shm_name"}
      /\ Forgotten("dantedepsrc") = {}
  BY DEF Pads, Settings, Forgotten, Compositors
<1>3. Moves("dantedepsrc")
  <2> SUFFICES ASSUME NEW h, NEW s, NEW q, NEW in, NEW o, NEW v, o \subseteq v,
                      NEW r \in Ops("dantedepsrc", h, q, in), Fits("dantedepsrc", s, q, o),
                      Calls(Pads("dantedepsrc"), h, s, q, in, v)
               PROVE  Fine(LAMBDA a, b, c : Fits("dantedepsrc", a, b, c), Settings("dantedepsrc"),
                           Forgotten("dantedepsrc"), h, s, q, in, v, r)
    BY DEF Moves
  <2>1. Fine(DepFits, {"shm_name"}, {}, h, s, q, in, v, r)
    BY <1>1, <1>2, DepSourceKeeps
  <2> QED
    BY <1>1, <1>2, <2>1 DEF Fine
<1>4. Idle("dantedepsrc")
  <2> SUFFICES ASSUME NEW h \in Hooks, NEW s, NEW q, NEW in, NEW o, DepFits(s, q, o),
                      Calls({}, h, s, q, in, o), DepSourceOps(h, q, in) = NoHook
               PROVE  DepFits(To(h, s, "ok"), q, o)
    BY <1>1, <1>2 DEF Idle
  <2>1. h # "open"
    BY Some
       DEF DepSourceOps, NoHook, DepSourceOpen, DepOpen, AllOrNothing
  <2>2. h # "start"
    BY Some
       DEF DepSourceOps, NoHook, DepSourceStart, DepStart
  <2>3. h # "stop"
    BY Some
       DEF DepSourceOps, NoHook, DepSourceStop, DepStop
  <2>4. h # "close"
    BY Some
       DEF DepSourceOps, NoHook, DepSourceClose, DepClose
  <2> QED
    BY <2>1, <2>2, <2>3, <2>4
       DEF DepFits, Hooks, To, Calls
<1>5. Steady("dantedepsrc")
  BY <1>1 DEF Steady, DepFits, Nearly
<1>6. Born("dantedepsrc")
  BY <1>1 DEF Born, DepFits, Struct, Create, Calloc, Compositors
<1>7. Safe("dantedepsrc")
  BY <1>1 DEF Safe, DepFits, KnownLeaks, KnownStrays, Compositors, Odd
<1> QED
  BY <1>3, <1>4, <1>5, <1>6, <1>7 DEF Sound

LEMMA DepSinkSound == Sound("dantedepsink")
<1>1. /\ \A s, q, o : Fits("dantedepsink", s, q, o) <=> DepFits(s, q, o)
      /\ \A h, q, in : Ops("dantedepsink", h, q, in) = DepSinkOps(h, q, in)
  BY DEF Fits, Ops
<1>2. /\ Pads("dantedepsink") = {"sink"} /\ Settings("dantedepsink") = {"shm_name"}
      /\ Forgotten("dantedepsink") = {}
  BY DEF Pads, Settings, Forgotten, Compositors
<1>3. Moves("dantedepsink")
  <2> SUFFICES ASSUME NEW h, NEW s, NEW q, NEW in, NEW o, NEW v, o \subseteq v,
                      NEW r \in Ops("dantedepsink", h, q, in), Fits("dantedepsink", s, q, o),
                      Calls(Pads("dantedepsink"), h, s, q, in, v)
               PROVE  Fine(LAMBDA a, b, c : Fits("dantedepsink", a, b, c), Settings("dantedepsink"),
                           Forgotten("dantedepsink"), h, s, q, in, v, r)
    BY DEF Moves
  <2>1. Fine(DepFits, {"shm_name"}, {}, h, s, q, in, v, r)
    BY <1>1, <1>2, DepSinkKeeps
  <2> QED
    BY <1>1, <1>2, <2>1 DEF Fine
<1>4. Idle("dantedepsink")
  <2> SUFFICES ASSUME NEW h \in Hooks, NEW s, NEW q, NEW in, NEW o, DepFits(s, q, o),
                      Calls({"sink"}, h, s, q, in, o), DepSinkOps(h, q, in) = NoHook
               PROVE  DepFits(To(h, s, "ok"), q, o)
    BY <1>1, <1>2 DEF Idle
  <2>1. h # "open"
    BY Some
       DEF DepSinkOps, NoHook, DepSinkOpen, DepOpen, AllOrNothing
  <2>2. h # "start"
    BY Some
       DEF DepSinkOps, NoHook, DepSinkStart, DepStart
  <2>3. h # "stop"
    BY Some
       DEF DepSinkOps, NoHook, DepSinkStop, DepStop
  <2>4. h # "close"
    BY Some
       DEF DepSinkOps, NoHook, DepSinkClose, DepClose
  <2> QED
    BY <2>1, <2>2, <2>3, <2>4
       DEF DepFits, Hooks, To, Calls
<1>5. Steady("dantedepsink")
  BY <1>1 DEF Steady, DepFits, Nearly
<1>6. Born("dantedepsink")
  BY <1>1 DEF Born, DepFits, Struct, Create, Calloc, Compositors
<1>7. Safe("dantedepsink")
  BY <1>1 DEF Safe, DepFits, KnownLeaks, KnownStrays, Compositors, Odd
<1> QED
  BY <1>3, <1>4, <1>5, <1>6, <1>7 DEF Sound

LEMMA QueueElSound == Sound("queue")
<1>1. /\ \A s, q, o : Fits("queue", s, q, o) <=> QueueElFits(s, q, o)
      /\ \A h, q, in : Ops("queue", h, q, in) = QueueElOps(h, q, in)
  BY DEF Fits, Ops
<1>2. /\ Pads("queue") = {"sink"} /\ Settings("queue") = {"pool"}
      /\ Forgotten("queue") = {}
  BY DEF Pads, Settings, Forgotten, Compositors
<1>3. Moves("queue")
  <2> SUFFICES ASSUME NEW h, NEW s, NEW q, NEW in, NEW o, NEW v, o \subseteq v,
                      NEW r \in Ops("queue", h, q, in), Fits("queue", s, q, o),
                      Calls(Pads("queue"), h, s, q, in, v)
               PROVE  Fine(LAMBDA a, b, c : Fits("queue", a, b, c), Settings("queue"),
                           Forgotten("queue"), h, s, q, in, v, r)
    BY DEF Moves
  <2>1. Fine(QueueElFits, {"pool"}, {}, h, s, q, in, v, r)
    BY <1>1, <1>2, QueueElKeeps
  <2> QED
    BY <1>1, <1>2, <2>1 DEF Fine
<1>4. Idle("queue")
  <2> SUFFICES ASSUME NEW h \in Hooks, NEW s, NEW q, NEW in, NEW o, QueueElFits(s, q, o),
                      Calls({"sink"}, h, s, q, in, o), QueueElOps(h, q, in) = NoHook
               PROVE  QueueElFits(To(h, s, "ok"), q, o)
    BY <1>1, <1>2 DEF Idle
  <2>1. h # "open"
    BY Some
       DEF QueueElOps, NoHook, QueueElOpen, AllOrNothing
  <2>2. h # "start"
    BY Some
       DEF QueueElOps, NoHook, QueueElStart, AllOrNothing
  <2>3. h # "stop"
    BY Some
       DEF QueueElOps, NoHook, QueueElStop, QueueElDropped
  <2>4. h # "close"
    BY Some
       DEF QueueElOps, NoHook, QueueElClose, QueueElDropped
  <2> QED
    BY <2>1, <2>2, <2>3, <2>4
       DEF QueueElFits, Hooks, To, Calls
<1>5. Steady("queue")
  BY <1>1 DEF Steady, QueueElFits, Nearly
<1>6. Born("queue")
  BY <1>1 DEF Born, QueueElFits, Struct, Create, Calloc, Compositors
<1>7. Safe("queue")
  BY <1>1 DEF Safe, QueueElFits, KnownLeaks, KnownStrays, Compositors, Odd
<1> QED
  BY <1>3, <1>4, <1>5, <1>6, <1>7 DEF Sound

LEMMA MixerSound == Sound("audiomixer")
<1>1. /\ \A s, q, o : Fits("audiomixer", s, q, o) <=> MixerFits(s, q, o)
      /\ \A h, q, in : Ops("audiomixer", h, q, in) = MixerOps(h, q, in)
  BY DEF Fits, Ops
<1>2. /\ Pads("audiomixer") = MixerPads /\ Settings("audiomixer") = {"max-lateness"}
      /\ Forgotten("audiomixer") = {}
  BY DEF Pads, Settings, Forgotten, Compositors
<1>3. Moves("audiomixer")
  <2> SUFFICES ASSUME NEW h, NEW s, NEW q, NEW in, NEW o, NEW v, o \subseteq v,
                      NEW r \in Ops("audiomixer", h, q, in), Fits("audiomixer", s, q, o),
                      Calls(Pads("audiomixer"), h, s, q, in, v)
               PROVE  Fine(LAMBDA a, b, c : Fits("audiomixer", a, b, c), Settings("audiomixer"),
                           Forgotten("audiomixer"), h, s, q, in, v, r)
    BY DEF Moves
  <2>1. Fine(MixerFits, {"max-lateness"}, {}, h, s, q, in, v, r)
    BY <1>1, <1>2, MixerKeeps
  <2> QED
    BY <1>1, <1>2, <2>1 DEF Fine
<1>4. Idle("audiomixer")
  <2> SUFFICES ASSUME NEW h \in Hooks, NEW s, NEW q, NEW in, NEW o, MixerFits(s, q, o),
                      Calls(MixerPads, h, s, q, in, o), MixerOps(h, q, in) = NoHook
               PROVE  MixerFits(To(h, s, "ok"), q, o)
    BY <1>1, <1>2 DEF Idle
  <2>1. h # "open"
    BY Some
       DEF MixerOps, NoHook, MixerOpen
  <2>2. h # "start"
    BY Some
       DEF MixerOps, NoHook, MixerStart, ThreadUnchecked
  <2>3. h # "stop"
    BY Some
       DEF MixerOps, NoHook, MixerStop, Joined
  <2>4. h # "close"
    BY Some
       DEF MixerOps, NoHook, MixerClose, Joined, MixerPads, MixerWith, MixerTake
  <2> QED
    BY <2>1, <2>2, <2>3, <2>4
       DEF MixerFits, Hooks, To, Calls
<1>5. Steady("audiomixer")
  BY <1>1 DEF Steady, MixerFits, Nearly
<1>6. Born("audiomixer")
  <2> SUFFICES ASSUME NEW L, L \subseteq MixerPads PROVE MixerFits("NULL", MixerCreate(L), {})
    BY <1>1, <1>2 DEF Born, Create, Compositors
  <2> DEFINE x == PadFlags(L, "queue")
             y == PadFlags(L, "active")
  <2>1. x \subseteq {"sink_0_queue", "sink_1_queue"}
    BY SinkFlags DEF MixerPads
  <2>2. /\ Struct(MixerCreate(L)) /\ MixerCreate(L).held = x /\ MixerCreate(L).lost = {}
        /\ MixerCreate(L).on = y
        /\ MixerCreate(L).stray = {}
    BY DEF MixerCreate, Calloc, Struct
  <2> HIDE DEF x, y
  <2> QED
    BY <2>1, <2>2 DEF MixerFits, Struct
<1>7. Safe("audiomixer")
  BY <1>1 DEF Safe, MixerFits, KnownLeaks, KnownStrays, Compositors, Odd, PadFlags, PadFlag,
     PadFields, MixerPads
<1> QED
  BY <1>3, <1>4, <1>5, <1>6, <1>7 DEF Sound

LEMMA RtspSinkSound == Sound("rtspsink")
<1>1. /\ \A s, q, o : Fits("rtspsink", s, q, o) <=> RtspSinkFits(s, q, o)
      /\ \A h, q, in : Ops("rtspsink", h, q, in) = RtspSinkOps(h, q, in)
  BY DEF Fits, Ops
<1>2. /\ Pads("rtspsink") = RtspPads /\ Settings("rtspsink") = {"udp-timestamp-pacing", "udp"}
      /\ Forgotten("rtspsink") = {}
  BY DEF Pads, Settings, Forgotten, Compositors
<1>3. Moves("rtspsink")
  <2> SUFFICES ASSUME NEW h, NEW s, NEW q, NEW in, NEW o, NEW v, o \subseteq v,
                      NEW r \in Ops("rtspsink", h, q, in), Fits("rtspsink", s, q, o),
                      Calls(Pads("rtspsink"), h, s, q, in, v)
               PROVE  Fine(LAMBDA a, b, c : Fits("rtspsink", a, b, c), Settings("rtspsink"),
                           Forgotten("rtspsink"), h, s, q, in, v, r)
    BY DEF Moves
  <2>1. Fine(RtspSinkFits, {"udp-timestamp-pacing", "udp"}, {}, h, s, q, in, v, r)
    BY <1>1, <1>2, RtspSinkKeeps
  <2> QED
    BY <1>1, <1>2, <2>1 DEF Fine
<1>4. Idle("rtspsink")
  <2> SUFFICES ASSUME NEW h \in Hooks, NEW s, NEW q, NEW in, NEW o, RtspSinkFits(s, q, o),
                      Calls(RtspPads, h, s, q, in, o), RtspSinkOps(h, q, in) = NoHook
               PROVE  RtspSinkFits(To(h, s, "ok"), q, o)
    BY <1>1, <1>2 DEF Idle
  <2>1. h # "open"
    BY Some
       DEF RtspSinkOps, NoHook, RtspSinkOpen, RtspFlags, RtspPads
  <2>2. h # "start"
    BY Some
       DEF RtspSinkOps, NoHook, RtspSinkStart, RtspPads
  <2>3. h # "stop"
    BY Some
       DEF RtspSinkOps, NoHook, RtspSinkStop, RtspSinkClose, RtspPads, RtspFlags
  <2>4. h # "close"
    BY Some
       DEF RtspSinkOps, NoHook, RtspSinkClose, RtspPads, RtspFlags
  <2> QED
    BY <2>1, <2>2, <2>3, <2>4
       DEF RtspSinkFits, Hooks, To, Calls
<1>5. Steady("rtspsink")
  BY <1>1 DEF Steady, RtspSinkFits, Nearly
<1>6. Born("rtspsink")
  BY <1>1 DEF Born, RtspSinkFits, Struct, Create, Calloc, Compositors
<1>7. Safe("rtspsink")
  BY <1>1 DEF Safe, RtspSinkFits, KnownLeaks, KnownStrays, Compositors, Odd
<1> QED
  BY <1>3, <1>4, <1>5, <1>6, <1>7 DEF Sound

LEMMA IppCompSound == Sound("ippcompsink")
<1>1. /\ \A s, q, o : Fits("ippcompsink", s, q, o) <=> IppCompFits(s, q, o)
      /\ \A h, q, in : Ops("ippcompsink", h, q, in) = IppCompOps(h, q, in)
  BY DEF Fits, Ops
<1>2. /\ Pads("ippcompsink") = CompPads /\ Settings("ippcompsink") = {"canvas-width"}
      /\ Forgotten("ippcompsink") = {}
  BY DEF Pads, Settings, Forgotten, Compositors
<1>3. Moves("ippcompsink")
  <2> SUFFICES ASSUME NEW h, NEW s, NEW q, NEW in, NEW o, NEW v, o \subseteq v,
                      NEW r \in Ops("ippcompsink", h, q, in), Fits("ippcompsink", s, q, o),
                      Calls(Pads("ippcompsink"), h, s, q, in, v)
               PROVE  Fine(LAMBDA a, b, c : Fits("ippcompsink", a, b, c), Settings("ippcompsink"),
                           Forgotten("ippcompsink"), h, s, q, in, v, r)
    BY DEF Moves
  <2>1. Fine(IppCompFits, {"canvas-width"}, {}, h, s, q, in, v, r)
    BY <1>1, <1>2, IppCompKeeps
  <2> QED
    BY <1>1, <1>2, <2>1 DEF Fine
<1>4. Idle("ippcompsink")
  <2> SUFFICES ASSUME NEW h \in Hooks, NEW s, NEW q, NEW in, NEW o, IppCompFits(s, q, o),
                      Calls(CompPads, h, s, q, in, o), IppCompOps(h, q, in) = NoHook
               PROVE  IppCompFits(To(h, s, "ok"), q, o)
    BY <1>1, <1>2 DEF Idle
  <2>1. h # "open"
    BY Some
       DEF IppCompOps, NoHook, IppCompOpen, ThreadUnchecked
  <2>2. h # "close"
    BY Some
       DEF IppCompOps, NoHook, IppCompClose, Joined, CompPads, CompInputFree
  <2> QED
    BY <2>1, <2>2
       DEF IppCompFits, Hooks, To, Calls
<1>5. Steady("ippcompsink")
  BY <1>1 DEF Steady, IppCompFits, Nearly, Odd, Is
<1>6. Born("ippcompsink")
  <2> SUFFICES ASSUME NEW L, L \subseteq CompPads PROVE IppCompFits("NULL", CompCreate(L), {})
    BY <1>1, <1>2 DEF Born, Create, Compositors
  <2> DEFINE x == PadFlags(L \cup {"sink_0"}, "input")
  <2>1. x \subseteq {"sink_0_input", "sink_1_input"}
    BY SinkFlags DEF CompPads
  <2>2. /\ Struct(CompCreate(L)) /\ CompCreate(L).held = x /\ CompCreate(L).lost = {}
        /\ CompCreate(L).on = {}
        /\ CompCreate(L).stray = {}
    BY DEF CompCreate, Calloc, Struct
  <2> HIDE DEF x
  <2> QED
    BY <2>1, <2>2 DEF IppCompFits, Struct, Odd, Is
<1>7. Safe("ippcompsink")
  BY <1>1 DEF Safe, IppCompFits, KnownLeaks, KnownStrays, Compositors, Odd, PadFlags,
     PadFlag, PadFields, CompPads, Is
<1> QED
  BY <1>3, <1>4, <1>5, <1>6, <1>7 DEF Sound

LEMMA GlCompSound == Sound("glcompsink")
<1>1. /\ \A s, q, o : Fits("glcompsink", s, q, o) <=> GlCompFits(s, q, o)
      /\ \A h, q, in : Ops("glcompsink", h, q, in) = GlCompOps(h, q, in)
  BY DEF Fits, Ops
<1>2. /\ Pads("glcompsink") = CompPads /\ Settings("glcompsink") = {"canvas-width"}
      /\ Forgotten("glcompsink") = {}
  BY DEF Pads, Settings, Forgotten, Compositors
<1>3. Moves("glcompsink")
  <2> SUFFICES ASSUME NEW h, NEW s, NEW q, NEW in, NEW o, NEW v, o \subseteq v,
                      NEW r \in Ops("glcompsink", h, q, in), Fits("glcompsink", s, q, o),
                      Calls(Pads("glcompsink"), h, s, q, in, v)
               PROVE  Fine(LAMBDA a, b, c : Fits("glcompsink", a, b, c), Settings("glcompsink"),
                           Forgotten("glcompsink"), h, s, q, in, v, r)
    BY DEF Moves
  <2>1. Fine(GlCompFits, {"canvas-width"}, {}, h, s, q, in, v, r)
    BY <1>1, <1>2, GlCompKeeps
  <2> QED
    BY <1>1, <1>2, <2>1 DEF Fine
<1>4. Idle("glcompsink")
  <2> SUFFICES ASSUME NEW h \in Hooks, NEW s, NEW q, NEW in, NEW o, GlCompFits(s, q, o),
                      Calls(CompPads, h, s, q, in, o), GlCompOps(h, q, in) = NoHook
               PROVE  GlCompFits(To(h, s, "ok"), q, o)
    BY <1>1, <1>2 DEF Idle
  <2>1. h # "open"
    BY Some
       DEF GlCompOps, NoHook, GlCompOpen, Finally, ThreadUnchecked, GlCompWorkerInit
  <2>2. h # "close"
    BY Some
       DEF GlCompOps, NoHook, GlCompClose, Finally, Joined, CompPads, CompInputFree,
          GlCompWorkerInit
  <2> QED
    BY <2>1, <2>2
       DEF GlCompFits, Hooks, To, Calls
<1>5. Steady("glcompsink")
  BY <1>1 DEF Steady, GlCompFits, Nearly, Is
<1>6. Born("glcompsink")
  <2> SUFFICES ASSUME NEW L, L \subseteq CompPads PROVE GlCompFits("NULL", CompCreate(L), {})
    BY <1>1, <1>2 DEF Born, Create, Compositors
  <2> DEFINE x == PadFlags(L \cup {"sink_0"}, "input")
  <2>1. x \subseteq {"sink_0_input", "sink_1_input"}
    BY SinkFlags DEF CompPads
  <2>2. /\ Struct(CompCreate(L)) /\ CompCreate(L).held = x /\ CompCreate(L).lost = {}
        /\ CompCreate(L).on = {}
        /\ CompCreate(L).stray = {}
    BY DEF CompCreate, Calloc, Struct
  <2> HIDE DEF x
  <2> QED
    BY <2>1, <2>2 DEF GlCompFits, Struct, Is
<1>7. Safe("glcompsink")
  BY <1>1 DEF Safe, GlCompFits, KnownLeaks, KnownStrays, Compositors, Odd, PadFlags,
     PadFlag, PadFields, CompPads, Is
<1> QED
  BY <1>3, <1>4, <1>5, <1>6, <1>7 DEF Sound

\* Each of the kinds of zst_builtins.c that are modelled is sound.
LEMMA AllSound == \A e \in Kinds : Sound(e)
  BY AacEncSound, OpusEncSound, X264Sound, X265Sound, H265EncSound, H264DecSound,
     H265DecSound, AacDecSound, OpusDecSound, Vp8EncSound, Vp8DecSound, Vp9EncSound,
     Vp9DecSound, NvEncSound, NvDecSound, NvScaleSound, VaEncSound, VaDecSound, OneEncSound,
     OneDecSound, AlsaSinkSound, AlsaSrcSound, V4l2SinkSound, V4l2SrcSound, X11Sound,
     FileSinkSound, FileSrcSound, FakeSinkSound, TextSrcSound, GlSinkSound, HlsSound,
     AudioTestSound, VideoTestSound, ScSound, NetSrcSound, NetSinkSound, SrtSrcSound,
     SrtSinkSound, HttpSound, RtmpSrcSound, RtmpSinkSound, ScalerSound, ResamplerSound,
     OverlaySound, H26xSound, AacParserSound, SubRipSound, Mp4MuxSound, TsMuxSound,
     Mp4DemuxSound, TsDemuxSound, RtpPaySound, RtpDepaySound, Pay20Sound, Depay20Sound,
     Pay21Sound, Depay21Sound, Pay22Sound, Depay22Sound, Pay30Sound, Depay30Sound,
     Pay40Sound, Depay40Sound, FecEncoderSound, FecDecoderSound, RedMuxSound, RedDemuxSound,
     SdpMuxSound, SdpDemuxSound, UdpSrcSound, UdpSinkSound, DepSourceSound, DepSinkSound,
     QueueElSound, MixerSound, RtspSinkSound, IppCompSound, GlCompSound
     DEF Kinds

-----------------------------------------------------------------------------
(* 3. The element around its hooks.                                         *)

\* On the way from q to r no setting was forgotten and no pad was linked.
Grown(e, q, r) ==
    (q.on \ r.on) \cap Settings(e) \subseteq Forgotten(e) /\ r.links \subseteq q.links

\* A destroyed element was brought down to NULL first.
At(s) == IF s = "GONE" THEN "NULL" ELSE s

\* The inductive invariant: the structure fits the state, the links are those of
\* the element's pads, and what was asked for is a setting that is still in force
\* or that open() is known to forget.
ElementInv ==
    /\ elem \in Elements
    /\ state \in {"NULL", "READY", "PAUSED", "PLAYING", "GONE"}
    /\ Fits(elem, At(state), p, odd)
    /\ p.links \subseteq Pads(elem)
    /\ asked \subseteq Settings(elem)
    /\ asked \ p.on \subseteq Forgotten(elem)

LEMMA GrownTrans ==
    \A e, q, r, t : Grown(e, q, r) /\ Grown(e, r, t) => Grown(e, q, t)
  BY DEF Grown

LEMMA GrownSame ==
    \A e, q, r : r.on = q.on /\ r.links = q.links => Grown(e, q, r)
  BY DEF Grown

\* A structure that is nearly one that fits fits.
LEMMA NearlyFits ==
    ASSUME NEW e, Sound(e), NEW s, NEW q, NEW r, NEW o, NEW v,
           Fits(e, s, q, o), o \subseteq v, Nearly(q, r)
    PROVE  Fits(e, s, r, v) /\ Grown(e, q, r)
<1>1. Fits(e, s, r, v)
  BY DEF Sound, Steady
<1>2. Grown(e, q, r)
  BY GrownSame DEF Nearly
<1> QED
  BY <1>1, <1>2

\* A push, a given-up frame and the beginning of a stream.
LEMMA SendNearly ==
    ASSUME NEW e, Sound(e), NEW s, NEW q, NEW o, Fits(e, s, q, o)
    PROVE  /\ Nearly(q, q) /\ Nearly(q, Shed(q)) /\ Nearly(q, Send(q, <<"eos">>))
           /\ Nearly(q, [q EXCEPT !.sent = "none", !.shed = FALSE])
           /\ Nearly(q, [q EXCEPT !.sent = "none"])
           /\ \A x : \A r \in Push(q, x) : Nearly(q, r.p)
<1>1. Struct(q)
  BY DEF Sound, Safe
<1>2. /\ Nearly(q, q) /\ Nearly(q, Shed(q))
      /\ Nearly(q, [q EXCEPT !.sent = "none", !.shed = FALSE])
      /\ Nearly(q, [q EXCEPT !.sent = "none"])
  BY <1>1 DEF Nearly, Shed, Struct
<1>3. \A x : Nearly(q, Send(q, x))
  BY <1>1 DEF Nearly, Send, Struct
<1>4. \A x : \A r \in Push(q, x) : r.p = Send(q, <<x>>) \/ r.p = Shed(q)
  BY DEF Push, Ok, Fail, Outcome
<1> QED
  BY <1>2, <1>3, <1>4

\* An outcome of a hook of a sound kind.
LEMMA OutcomeFits ==
    ASSUME NEW e, Sound(e), NEW h, NEW s, NEW q, NEW in, NEW o, NEW v,
           Fits(e, s, q, o), o \subseteq v, Calls(Pads(e), h, s, q, in, v),
           NEW r \in Ops(e, h, q, in), h = "set_property" /\ s # "NULL" /\ r.p # q => v # {}
    PROVE  /\ Fits(e, To(h, s, r.ret), r.p, v) /\ Grown(e, q, r.p)
           /\ h = "process" /\ in = "none" /\ q.links = {} /\ r.ret = "eof" =>
                Fits(e, "READY", r.p, v)
           /\ h \in {"stop", "unpreroll", "close"} => r.ret = "ok"
           /\ h = "set_property" => r.p.on \ q.on \subseteq Settings(e) \cup Derived
<1>1. Fine(LAMBDA a, b, c : Fits(e, a, b, c), Settings(e), Forgotten(e), h, s, q, in, v, r)
  BY DEF Sound, Moves
<1> QED
  BY <1>1 DEF Fine, Grown

\* zst_element_set_state: one step, with or without a hook.
LEMMA CallHookFits ==
    ASSUME Sound(elem), NEW h \in Hooks, NEW s, NEW q, NEW o,
           Fits(elem, s, q, o), Calls(Pads(elem), h, s, q, "none", o), NEW r \in CallHook(h, q)
    PROVE  /\ Fits(elem, To(h, s, r.ret), r.p, o) /\ Grown(elem, q, r.p)
           /\ h \in {"stop", "unpreroll", "close"} => r.ret = "ok"
<1>1. CASE Ops(elem, h, q, "none") = NoHook
  <2>1. r.ret = "ok" /\ r.p = q
    BY <1>1 DEF CallHook, Hook, Ok, Outcome
  <2>2. Fits(elem, To(h, s, "ok"), q, o)
    BY <1>1 DEF Sound, Idle
  <2> QED
    BY <2>1, <2>2 DEF Grown
<1>2. CASE Ops(elem, h, q, "none") # NoHook
  <2>1. r \in Ops(elem, h, q, "none")
    BY <1>2 DEF CallHook, Hook
  <2>2. h # "set_property"
    BY DEF Hooks
  <2> QED
    BY <2>1, <2>2, OutcomeFits
<1> QED
  BY <1>1, <1>2

\* zst_element_destroy: no hook on the way down fails, so the descent ends in NULL.
LEMMA DownFromPausedFits ==
    ASSUME Sound(elem), NEW q, NEW o, Fits(elem, "PAUSED", q, o), q.links \subseteq Pads(elem),
           NEW r \in DownFromPaused(q)
    PROVE  Fits(elem, "NULL", r.p, o) /\ Grown(elem, q, r.p)
<1>1. PICK t \in CallHook("unpreroll", q) : r \in (IF t.ret = "ok" THEN CallHook("close", t.p) ELSE {t})
  BY DEF DownFromPaused, Then
<1>2. Calls(Pads(elem), "unpreroll", "PAUSED", q, "none", o) /\ "unpreroll" \in Hooks
  BY DEF Calls, Hooks
<1>3. Fits(elem, To("unpreroll", "PAUSED", t.ret), t.p, o) /\ Grown(elem, q, t.p) /\ t.ret = "ok"
  BY <1>1, <1>2, CallHookFits
<1>4. Fits(elem, "READY", t.p, o) /\ t.p.links \subseteq Pads(elem) /\ r \in CallHook("close", t.p)
  BY <1>1, <1>3 DEF To, Grown
<1>5. Calls(Pads(elem), "close", "READY", t.p, "none", o) /\ "close" \in Hooks
  BY <1>4 DEF Calls, Hooks
<1>6. Fits(elem, To("close", "READY", r.ret), r.p, o) /\ Grown(elem, t.p, r.p) /\ r.ret = "ok"
  BY <1>4, <1>5, CallHookFits
<1> QED
  BY <1>3, <1>6, GrownTrans DEF To

LEMMA DownFits ==
    ASSUME Sound(elem), NEW s \in {"NULL", "READY", "PAUSED", "PLAYING"}, NEW q, NEW o,
           Fits(elem, s, q, o), q.links \subseteq Pads(elem), NEW r \in Down(q, s)
    PROVE  Fits(elem, "NULL", r.p, o) /\ Grown(elem, q, r.p)
<1>1. CASE s = "PLAYING"
  <2>1. PICK t \in CallHook("stop", q) : r \in (IF t.ret = "ok" THEN DownFromPaused(t.p) ELSE {t})
    BY <1>1 DEF Down, Then
  <2>2. Calls(Pads(elem), "stop", "PLAYING", q, "none", o) /\ "stop" \in Hooks
    BY DEF Calls, Hooks
  <2>3. Fits(elem, To("stop", "PLAYING", t.ret), t.p, o) /\ Grown(elem, q, t.p) /\ t.ret = "ok"
    BY <1>1, <2>1, <2>2, CallHookFits
  <2>4. Fits(elem, "PAUSED", t.p, o) /\ t.p.links \subseteq Pads(elem) /\ r \in DownFromPaused(t.p)
    BY <2>1, <2>3 DEF To, Grown
  <2>5. Fits(elem, "NULL", r.p, o) /\ Grown(elem, t.p, r.p)
    BY <2>4, DownFromPausedFits
  <2> QED
    BY <2>3, <2>5, GrownTrans
<1>2. CASE s = "PAUSED"
  <2>1. r \in DownFromPaused(q)
    BY <1>2 DEF Down
  <2> QED
    BY <1>2, <2>1, DownFromPausedFits
<1>3. CASE s = "READY"
  <2>1. Calls(Pads(elem), "close", "READY", q, "none", o) /\ "close" \in Hooks
    BY DEF Calls, Hooks
  <2>2. Fits(elem, To("close", "READY", r.ret), r.p, o) /\ Grown(elem, q, r.p) /\ r.ret = "ok"
    BY <1>3, <2>1, CallHookFits DEF Down
  <2> QED
    BY <2>2 DEF To
<1>4. CASE s = "NULL"
  <2>1. r.p = q
    BY <1>4 DEF Down, Ok, Outcome
  <2> QED
    BY <1>4, <2>1, GrownSame
<1> QED
  BY <1>1, <1>2, <1>3, <1>4

\* default_sink_pad_push: process(), and the push of what it returned.
LEMMA DefaultSinkPadPushFits ==
    ASSUME Sound(elem), NEW s \in {"PAUSED", "PLAYING"}, NEW q, NEW o, NEW v, o \subseteq v,
           Fits(elem, s, q, o), q.links \subseteq Pads(elem), s = "PAUSED" => v # {},
           NEW kind \in {"data", "eos"}, NEW r \in DefaultSinkPadPush(q, kind)
    PROVE  Fits(elem, s, r.p, v) /\ Grown(elem, q, r.p)
<1>1. CASE kind = "eos"
  <2>1. r.p = Send(q, <<"eos">>) \/ r \in Push(q, "eos")
    BY <1>1 DEF DefaultSinkPadPush, Ok, Outcome
  <2>2. Nearly(q, r.p)
    BY <2>1, SendNearly
  <2> QED
    BY <2>2, NearlyFits
<1>2. CASE kind = "data"
  <2>1. \/ r.p = Shed(q)
        \/ \E t \in (IF Ops(elem, "process", q, kind) = NoHook THEN Ok(q)
                     ELSE Ops(elem, "process", q, kind)) :
               r \in Push(t.p, t.out) \/ r = t
    BY <1>2 DEF DefaultSinkPadPush, Ok, Outcome
  <2>2. CASE r.p = Shed(q)
    <3>1. Nearly(q, r.p)
      BY <2>2, SendNearly
    <3> QED
      BY <3>1, NearlyFits
  <2>3. ASSUME NEW t \in (IF Ops(elem, "process", q, kind) = NoHook THEN Ok(q)
                          ELSE Ops(elem, "process", q, kind)),
               r \in Push(t.p, t.out) \/ r = t
        PROVE  Fits(elem, s, r.p, v) /\ Grown(elem, q, r.p)
    <3>1. Fits(elem, s, t.p, v) /\ Grown(elem, q, t.p)
      <4>1. CASE Ops(elem, "process", q, kind) = NoHook
        <5>1. t.p = q
          BY <4>1, <2>3 DEF Ok, Outcome
        <5>2. Nearly(q, t.p)
          BY <5>1, SendNearly
        <5> QED
          BY <5>2, NearlyFits
      <4>2. CASE Ops(elem, "process", q, kind) # NoHook
        <5>1. t \in Ops(elem, "process", q, kind)
          BY <4>2, <2>3
        <5>2. Calls(Pads(elem), "process", s, q, kind, v)
          BY DEF Calls
        <5>3. Fits(elem, To("process", s, t.ret), t.p, v) /\ Grown(elem, q, t.p)
          BY <5>1, <5>2, OutcomeFits
        <5> QED
          BY <5>3 DEF To
      <4> QED
        BY <4>1, <4>2
    <3>2. CASE r = t
      BY <3>1, <3>2
    <3>3. CASE r \in Push(t.p, t.out)
      <4>1. Nearly(t.p, r.p)
        BY <3>1, <3>3, SendNearly
      <4>2. Fits(elem, s, r.p, v) /\ Grown(elem, t.p, r.p)
        BY <3>1, <4>1, NearlyFits
      <4> QED
        BY <3>1, <4>2, GrownTrans
    <3> QED
      BY <2>3, <3>2, <3>3
  <2> QED
    BY <2>1, <2>2, <2>3
<1> QED
  BY <1>1, <1>2

\* A push into a sink pad, with a push function of its own or the default one.
LEMMA SinkPadPushFits ==
    ASSUME Sound(elem), NEW s \in {"PAUSED", "PLAYING"}, NEW q, NEW o, NEW v, o \subseteq v,
           Fits(elem, s, q, o), q.links \subseteq Pads(elem), s = "PAUSED" => v # {},
           NEW m \in q.links, NEW kind \in {"data", "eos"}, NEW r \in SinkPadPush(q, m, kind)
    PROVE  Fits(elem, s, r.p, v) /\ Grown(elem, q, r.p)
<1> DEFINE in == IF Pads(elem) = {"sink"} THEN kind ELSE [pad |-> m, kind |-> kind]
<1>1. Pads(elem) # {"sink"} => in.pad \in q.links
  OBVIOUS
<1>2. \/ r \in Ops(elem, "push", q, in)
      \/ r \in DefaultSinkPadPush(q, kind)
  BY DEF SinkPadPush
<1> HIDE DEF in
<1>3. CASE r \in Ops(elem, "push", q, in)
  <2>1. Calls(Pads(elem), "push", s, q, in, v)
    BY <1>1 DEF Calls
  <2>2. Fits(elem, To("push", s, r.ret), r.p, v) /\ Grown(elem, q, r.p)
    BY <1>3, <2>1, OutcomeFits
  <2> QED
    BY <2>2 DEF To
<1>4. CASE r \in DefaultSinkPadPush(q, kind)
  BY <1>4, DefaultSinkPadPushFits
<1> QED
  BY <1>2, <1>3, <1>4

\* A step that leaves the settings alone keeps the invariant if the new structure
\* fits.
LEMMA InvFrom ==
    ASSUME ElementInv, elem' = elem, state' \in {"NULL", "READY", "PAUSED", "PLAYING", "GONE"},
           asked' = asked, Fits(elem, At(state'), p', odd'), Grown(elem, p, p')
    PROVE  ElementInv'
<1>1. /\ elem \in Elements /\ p.links \subseteq Pads(elem) /\ asked \subseteq Settings(elem)
      /\ asked \ p.on \subseteq Forgotten(elem)
  BY DEF ElementInv
<1>2. p'.links \subseteq Pads(elem) /\ asked \ p'.on \subseteq Forgotten(elem)
  BY <1>1 DEF Grown
<1>3. (ElementInv)' <=>
        /\ elem' \in Elements
        /\ state' \in {"NULL", "READY", "PAUSED", "PLAYING", "GONE"}
        /\ Fits(elem', At(state'), p', odd')
        /\ p'.links \subseteq Pads(elem')
        /\ asked' \subseteq Settings(elem')
        /\ asked' \ p'.on \subseteq Forgotten(elem')
  BY DEF ElementInv
<1> QED
  BY <1>1, <1>2, <1>3

\* A new element has the links it was created with.
LEMMA CreateLinks == \A e, L : Create(e, L).links = L
  BY DEF Create, MixerCreate, CompCreate, Calloc, Compositors

\* Every step keeps the invariant: one step below for each action.
LEMMA ElementNext == ElementInv /\ [Next]_vars => ElementInv'
<1> SUFFICES ASSUME ElementInv, [Next]_vars PROVE ElementInv'
  OBVIOUS
<1>1. /\ Sound(elem) /\ Fits(elem, At(state), p, odd) /\ p.links \subseteq Pads(elem)
      /\ state \in {"NULL", "READY", "PAUSED", "PLAYING", "GONE"}
  BY AllSound, ElementsAssumption DEF ElementInv
<1>2. ASSUME NEW h \in {"start", "stop", "unpreroll", "close"}, NEW from, NEW to,
             Step(h, from, to), Calls(Pads(elem), h, from, p, "none", odd),
             from \in {"READY", "PAUSED", "PLAYING"}, to \in {"NULL", "READY", "PAUSED", "PLAYING"},
             To(h, from, "ok") = to
      PROVE  ElementInv'
  <2>1. PICK r \in CallHook(h, p) : p' = r.p /\ state' = IF r.ret = "ok" THEN to ELSE from
    BY <1>2 DEF Step
  <2>2. state = from /\ elem' = elem /\ asked' = asked /\ odd' = odd /\ h \in Hooks
        /\ Fits(elem, from, p, odd)
    BY <1>1, <1>2 DEF Step, Hooks, At
  <2>3. Fits(elem, To(h, from, r.ret), r.p, odd) /\ Grown(elem, p, r.p)
    BY <1>1, <1>2, <2>1, <2>2, CallHookFits
  <2>4. To(h, from, r.ret) = state'
    BY <1>2, <2>1 DEF To
  <2>5. At(state') = state' /\ state' \in {"NULL", "READY", "PAUSED", "PLAYING", "GONE"}
    BY <1>2, <2>1 DEF At
  <2> QED
    BY <2>1, <2>2, <2>3, <2>4, <2>5, InvFrom
<1>3. CASE Start
  <2>1. Calls(Pads(elem), "start", "PAUSED", p, "none", odd) /\ To("start", "PAUSED", "ok") = "PLAYING"
    BY <1>1 DEF Calls, To
  <2> QED
    BY <1>2, <1>3, <2>1 DEF Start
<1>4. CASE Stop
  <2>1. Calls(Pads(elem), "stop", "PLAYING", p, "none", odd) /\ To("stop", "PLAYING", "ok") = "PAUSED"
    BY <1>1 DEF Calls, To
  <2> QED
    BY <1>2, <1>4, <2>1 DEF Stop
<1>5. CASE Unpreroll
  <2>1. Calls(Pads(elem), "unpreroll", "PAUSED", p, "none", odd) /\ To("unpreroll", "PAUSED", "ok") = "READY"
    BY <1>1 DEF Calls, To
  <2> QED
    BY <1>2, <1>5, <2>1 DEF Unpreroll
<1>6. CASE Close
  <2>1. Calls(Pads(elem), "close", "READY", p, "none", odd) /\ To("close", "READY", "ok") = "NULL"
    BY <1>1 DEF Calls, To
  <2> QED
    BY <1>2, <1>6, <2>1 DEF Close
<1>7. CASE Open
  <2> DEFINE q == [p EXCEPT !.sent = "none", !.shed = FALSE]
  <2>1. PICK r \in CallHook("open", q) : p' = r.p /\ state' = IF r.ret = "ok" THEN "READY" ELSE "NULL"
    BY <1>7 DEF Open
  <2>2. state = "NULL" /\ elem' = elem /\ asked' = asked /\ odd' = odd /\ Fits(elem, "NULL", p, odd)
    BY <1>1, <1>7 DEF Open, At
  <2>3. Nearly(p, q)
    BY <1>1, SendNearly
  <2> HIDE DEF q
  <2>4. Fits(elem, "NULL", q, odd) /\ Grown(elem, p, q)
    BY <1>1, <2>2, <2>3, NearlyFits
  <2>5. Calls(Pads(elem), "open", "NULL", q, "none", odd) /\ "open" \in Hooks
    BY <1>1, <2>4 DEF Calls, Hooks, Grown
  <2>6. Fits(elem, To("open", "NULL", r.ret), r.p, odd) /\ Grown(elem, q, r.p)
    BY <1>1, <2>1, <2>4, <2>5, CallHookFits
  <2>7. Grown(elem, p, p')
    BY <2>1, <2>4, <2>6, GrownTrans
  <2>8. At(state') = To("open", "NULL", r.ret) /\ state' \in {"READY", "NULL"}
    BY <2>1 DEF To, At
  <2> QED
    BY <2>1, <2>2, <2>6, <2>7, <2>8, InvFrom
<1>8. CASE Preroll
  <2> DEFINE q == [p EXCEPT !.sent = "none"]
  <2>1. PICK r \in CallHook("preroll", q) : p' = r.p /\ state' = IF r.ret = "ok" THEN "PAUSED" ELSE "READY"
    BY <1>8 DEF Preroll
  <2>2. state = "READY" /\ elem' = elem /\ asked' = asked /\ odd' = odd /\ Fits(elem, "READY", p, odd)
    BY <1>1, <1>8 DEF Preroll, At
  <2>3. Nearly(p, q)
    BY <1>1, SendNearly
  <2> HIDE DEF q
  <2>4. Fits(elem, "READY", q, odd) /\ Grown(elem, p, q)
    BY <1>1, <2>2, <2>3, NearlyFits
  <2>5. Calls(Pads(elem), "preroll", "READY", q, "none", odd) /\ "preroll" \in Hooks
    BY <1>1, <2>4 DEF Calls, Hooks, Grown
  <2>6. Fits(elem, To("preroll", "READY", r.ret), r.p, odd) /\ Grown(elem, q, r.p)
    BY <1>1, <2>1, <2>4, <2>5, CallHookFits
  <2>7. Grown(elem, p, p')
    BY <2>1, <2>4, <2>6, GrownTrans
  <2>8. At(state') = To("preroll", "READY", r.ret) /\ state' \in {"READY", "PAUSED"}
    BY <2>1 DEF To, At
  <2> QED
    BY <2>1, <2>2, <2>6, <2>7, <2>8, InvFrom
<1>9. CASE Destroy
  <2>1. PICK r \in Down(p, state) : p' = r.p
    BY <1>9 DEF Destroy
  <2>2. /\ state \in {"NULL", "READY", "PAUSED", "PLAYING"} /\ At(state) = state
        /\ state' = "GONE" /\ At("GONE") = "NULL" /\ elem' = elem /\ asked' = asked /\ odd' = odd
    BY <1>1, <1>9 DEF Destroy, At
  <2>3. Fits(elem, "NULL", r.p, odd) /\ Grown(elem, p, r.p)
    BY <1>1, <2>1, <2>2, DownFits
  <2> QED
    BY <2>1, <2>2, <2>3, InvFrom
<1>10. ASSUME NEW kind \in {"data", "eos"}, UpstreamPush(kind) PROVE ElementInv'
  <2>1. PICK m \in p.links : \E r \in SinkPadPush(p, m, kind) :
            p' = IF kind = "eos" /\ r.ret = "err" THEN Shed(r.p) ELSE r.p
    BY <1>10 DEF UpstreamPush
  <2>2. PICK r \in SinkPadPush(p, m, kind) : p' = Shed(r.p) \/ p' = r.p
    BY <2>1
  <2>3. /\ state \in {"PAUSED", "PLAYING"} /\ At(state) = state /\ state' = state
        /\ elem' = elem /\ asked' = asked /\ odd \subseteq odd' /\ (state = "PAUSED" => odd' # {})
    BY <1>10 DEF UpstreamPush, At
  <2>4. Fits(elem, state, r.p, odd') /\ Grown(elem, p, r.p)
    BY <1>1, <2>1, <2>2, <2>3, <1>10, SinkPadPushFits
  <2>5. Nearly(r.p, p')
    BY <1>1, <2>2, <2>4, SendNearly
  <2>6. Fits(elem, state, p', odd') /\ Grown(elem, r.p, p')
    BY <1>1, <2>4, <2>5, NearlyFits
  <2>7. Grown(elem, p, p')
    BY <2>4, <2>6, GrownTrans
  <2> QED
    BY <2>3, <2>6, <2>7, InvFrom
<1>11. CASE ExecuteTask
  <2>1. PICK r \in Ops(elem, "process", p, "none") :
            \/ r.ret = "eof" /\ state' = "READY" /\ \E q \in Push(r.p, "eos") : p' = q.p
            \/ state' = state /\ ((\E q \in Push(r.p, r.out) : p' = q.p) \/ p' = r.p)
    BY <1>11 DEF ExecuteTask, Ok, Outcome
  <2>2. /\ state = "PLAYING" /\ At(state) = state /\ p.links = {}
        /\ elem' = elem /\ asked' = asked /\ odd' = odd
    BY <1>11 DEF ExecuteTask, At
  <2>3. Calls(Pads(elem), "process", "PLAYING", p, "none", odd)
    BY <2>2 DEF Calls
  <2>4. /\ Fits(elem, To("process", "PLAYING", r.ret), r.p, odd) /\ Grown(elem, p, r.p)
        /\ r.ret = "eof" => Fits(elem, "READY", r.p, odd)
    BY <1>1, <2>1, <2>2, <2>3, OutcomeFits
  <2>5. Fits(elem, "PLAYING", r.p, odd)
    BY <2>4 DEF To
  <2>6. /\ state' = "READY" \/ state' = "PLAYING" 
        /\ Fits(elem, state', r.p, odd)
        /\ p' = r.p \/ \E x : \E q \in Push(r.p, x) : p' = q.p
    BY <2>1, <2>2, <2>4, <2>5
  <2>7. Nearly(r.p, p')
    <3>1. Nearly(r.p, r.p) /\ \A x : \A q \in Push(r.p, x) : Nearly(r.p, q.p)
      BY <1>1, <2>5, SendNearly
    <3> QED
      BY <2>6, <3>1
  <2>8. Fits(elem, state', p', odd) /\ Grown(elem, r.p, p')
    BY <1>1, <2>6, <2>7, NearlyFits
  <2>9. Grown(elem, p, p') /\ At(state') = state'
    BY <2>4, <2>6, <2>8, GrownTrans DEF At
  <2> QED
    BY <2>2, <2>6, <2>8, <2>9, InvFrom
<1>12. ASSUME NEW h \in {"thread", "event", "release_pad"}, state # "GONE",
              h = "event" => state \in {"PAUSED", "PLAYING"},
              \E r \in Hook(h, p) : p' = r.p, UNCHANGED <<elem, state, up, ended, asked, odd>>
       PROVE  ElementInv'
  <2>1. PICK r \in Ops(elem, h, p, "none") : p' = r.p
    BY <1>12 DEF Hook
  <2>2. Calls(Pads(elem), h, state, p, "none", odd) /\ At(state) = state
    BY <1>1, <1>12 DEF Calls, At
  <2>3. Fits(elem, To(h, state, r.ret), r.p, odd) /\ Grown(elem, p, r.p)
    BY <1>1, <1>12, <2>1, <2>2, OutcomeFits
  <2>4. To(h, state, r.ret) = state
    BY <1>12 DEF To
  <2> QED
    BY <1>1, <1>12, <2>1, <2>2, <2>3, <2>4, InvFrom
<1>13. CASE SetProperty
  <2>1. PICK r \in Ops(elem, "set_property", p, "none") :
            /\ p' = r.p
            /\ asked' = IF r.ret = "ok" THEN asked \cup ((r.p.on \ p.on) \ Derived) ELSE asked
            /\ odd' = IF r.p # p /\ state # "NULL" THEN odd \cup {"reset"} ELSE odd
    BY <1>13 DEF SetProperty, Hook
  <2>2. /\ elem' = elem /\ state' = state /\ At(state) = state
        /\ state \in {"NULL", "READY", "PAUSED", "PLAYING"}
        /\ odd \subseteq odd' /\ (state # "NULL" /\ r.p # p => odd' # {})
    BY <1>1, <1>13, <2>1 DEF SetProperty, At
  <2>3. Calls(Pads(elem), "set_property", state, p, "none", odd')
    BY <1>1, <2>2 DEF Calls
  <2>4. /\ Fits(elem, To("set_property", state, r.ret), r.p, odd') /\ Grown(elem, p, r.p)
        /\ r.p.on \ p.on \subseteq Settings(elem) \cup Derived
    BY <1>1, <2>1, <2>2, <2>3, OutcomeFits
  <2>5. Fits(elem, state, p', odd')
    BY <2>1, <2>4 DEF To
  <2>6. elem \in Elements /\ asked \subseteq Settings(elem) /\ asked \ p.on \subseteq Forgotten(elem)
    BY DEF ElementInv
  <2>7. asked' \subseteq Settings(elem) /\ asked' \ p'.on \subseteq asked \ r.p.on
    BY <2>1, <2>4, <2>6
  <2>8. p'.links \subseteq Pads(elem) /\ asked' \ p'.on \subseteq Forgotten(elem)
    BY <1>1, <2>1, <2>4, <2>6, <2>7 DEF Grown
  <2> QED
    BY <1>1, <2>2, <2>5, <2>6, <2>7, <2>8 DEF ElementInv
<1>14. CASE UNCHANGED vars
  <2>1. At(state') = At(state) /\ p' = p /\ odd' = odd /\ elem' = elem /\ asked' = asked
        /\ state' = state
    BY <1>14 DEF vars
  <2> QED
    BY <1>1, <2>1, GrownSame, InvFrom
<1> QED
  BY <1>3, <1>4, <1>5, <1>6, <1>7, <1>8, <1>9, <1>10, <1>11, <1>12, <1>13, <1>14
     DEF Next, PushData, PushEos, ThreadTurn, Event, ReleasePad

\* A new element has the invariant.
LEMMA ElementInit == Init => ElementInv
<1> SUFFICES ASSUME Init PROVE ElementInv
  OBVIOUS
<1>1. PICK L \in SUBSET Pads(elem) : p = Create(elem, L)
  BY DEF Init
<1>2. elem \in Elements /\ state = "NULL" /\ asked = {} /\ odd = {} /\ Sound(elem)
  BY AllSound, ElementsAssumption DEF Init
<1>3. Fits(elem, "NULL", p, odd)
  BY <1>1, <1>2 DEF Sound, Born
<1>4. p.links \subseteq Pads(elem)
  BY <1>1, CreateLinks
<1> QED
  BY <1>2, <1>3, <1>4 DEF ElementInv, At

\* In every reachable state the private structure of the element is the one its
\* state and its flags say, whatever failed on the way (zst_element_set_state and
\* the hooks of every element).
THEOREM ElementInvariance == Spec => []ElementInv
<1>1. Init => ElementInv
  BY ElementInit
<1>2. ElementInv /\ [Next]_vars => ElementInv'
  BY ElementNext
<1> QED
  BY <1>1, <1>2, PTL DEF Spec

\* What the invariant says of ownership.
LEMMA InvSafe ==
    ASSUME ElementInv
    PROVE  /\ p.lost \subseteq KnownLeaks(elem, odd) /\ p.stray \subseteq KnownStrays(elem, odd)
           /\ state \in {"NULL", "GONE"} => p.held \subseteq KnownLeaks(elem, odd)
<1>1. Sound(elem) /\ Fits(elem, At(state), p, odd)
  BY AllSound, ElementsAssumption DEF ElementInv
<1>2. state \in {"NULL", "GONE"} => At(state) = "NULL"
  BY DEF At
<1> QED
  BY <1>1, <1>2 DEF Sound, Safe

\* No element of any kind overwrites what it owns, and none keeps anything once it
\* is closed or destroyed, in any state and after any failure, except what the
\* table KnownLeaks names (the close() and the retried init of each element).
THEOREM NothingLeaks == Spec => []Released
<1>1. ElementInv => Released
  BY InvSafe DEF Released, ElementInv
<1> QED
  BY <1>1, ElementInvariance, PTL

\* No hook of any element uses what it does not own at that moment, after a failed
\* init, a failed start or a close, except what the table KnownStrays names.
THEOREM NothingStray == Spec => []NeverStray
<1>1. ElementInv => NeverStray
  BY InvSafe DEF NeverStray
<1> QED
  BY <1>1, ElementInvariance, PTL

\* A setting that set_property accepted survives every open, close, start, stop,
\* failure and buffer, except those open() is known to put back (Forgotten).
THEOREM SettingsSurvive == Spec => []SettingsKept
<1>1. ElementInv => SettingsKept
  BY DEF ElementInv, SettingsKept
<1> QED
  BY <1>1, ElementInvariance, PTL
=============================================================================
