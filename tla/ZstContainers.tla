--------------------------- MODULE ZstContainers ---------------------------
(***************************************************************************)
(* The hooks of the muxers and demuxers of MP4 and MPEG-TS, in the         *)
(* vocabulary of ZstHooks.  n counts the packets in a muxer's interleaver  *)
(* and the buffers in a demuxer's queue (up to MaxInside).  file and avio  *)
(* are the two kinds of I/O context a format context has: one that opened  *)
(* the location, and one with the element's own callback.                  *)
(***************************************************************************)
EXTENDS ZstFilters

IoContexts == {"file", "avio"}

(* The kind that the setting location asks for now. *)
IoKind(p) == IF Is(p, "direct_file") THEN "file" ELSE "avio"

(* stop() takes the I/O context for the kind asked for now. *)
IoFreed(p) == IF IoContexts \cap p.held = {} THEN p
              ELSE Free(Use(p, {IoKind(p)}), {IoKind(p)})

MuxPads == {"video", "audio"}

(* What reaches the source pad; the peer's answer is not looked at. *)
MuxEmit(p) == IF Has(p, "avio") THEN {Send(p, <<"data">>), Shed(p)} ELSE {p}

(* av_write_trailer also writes what the interleaver holds. *)
MuxTrailer(p) ==
    IF Has(p, "fc") /\ Is(p, "header_written")
    THEN {Inside(q, 0) : q \in MuxEmit(p)} ELSE {p}

(* A new format context replaces the old one, whatever state that is in. *)
MuxWriteHeader(p) ==
    LET q == Get(p, {"fc", IoKind(p)})
    IN  Fail(Null(p, {"fc"})) \cup Fail(q) \cup
        UNION {Ok(On(Off(Inside(r, 0), PadFlags(MuxPads, "linked") \cup PadFlags(MuxPads, "eos")),
                     {"header_written"} \cup PadFlags(p.links, "linked"))) : r \in MuxEmit(q)}

MuxWrite(p) ==
    IF ~Is(p, "header_written") THEN Fail(p)
    ELSE LET q == IF IoContexts \cap p.held = {} THEN Use(p, {"pb"}) ELSE p
         IN  Fail(Shed(q)) \cup (IF CanTake(q) THEN Ok(Taken(q)) ELSE {}) \cup
             UNION {Ok(r) : r \in MuxEmit(q)}

MuxCheckEos(p) ==
    IF \A m \in MuxPads : Is(p, PadFlag(m, "linked")) => Is(p, PadFlag(m, "eos"))
    THEN UNION {Ok(Send(Off(q, {"header_written"}), <<"eos">>)) : q \in MuxTrailer(p)}
    ELSE Ok(p)

MuxStart(p) ==
    Ok(On(Off(p, {"header_written"} \cup PadFlags(MuxPads, "linked")
                                    \cup PadFlags(MuxPads, "eos")),
          PadFlags(p.links, "linked")))

MuxStop(p) ==
    UNION {Ok(Off(Inside(IF Has(q, "fc") THEN Free(IoFreed(q), {"fc"}) ELSE q, 0),
                  {"header_written"})) : q \in MuxTrailer(p)}

----------------------------------------------------------------------------
(* mp4_muxer.c *)

(* A key frame begins the next file when location is a pattern. *)
Mp4MuxSplit(p) ==
    Ok(p) \cup
    (IF Is(p, "split_at_keyframe") /\ Is(p, "direct_file") /\ Has(p, "fc")
     THEN Fail(Free(Inside(p, 0), IoContexts)) \cup
          Ok(Get(Free(Inside(p, 0), IoContexts), {"file"}))
     ELSE {})

Mp4MuxVideoPush(p, kind) ==
    IF kind = "eos" THEN MuxCheckEos(On(p, {"video_eos"}))
    ELSE Then(IF Is(p, "header_written") THEN Mp4MuxSplit(p)
              ELSE Fail(p) \cup MuxWriteHeader(Get(Free(p, {"video_extradata"}),
                                                   {"video_extradata"})),
              MuxWrite)

Mp4MuxAudioPush(p, kind) ==
    IF kind = "eos" THEN MuxCheckEos(On(p, {"audio_eos"}))
    ELSE IF Is(p, "header_written") THEN MuxWrite(p)
    ELSE IF Is(p, "video_linked") /\ ~Has(p, "video_extradata") THEN Ok(p)
    ELSE Then(MuxWriteHeader(p), MuxWrite)

Mp4MuxStart(p) == MuxStart(p)
Mp4MuxStop(p)  == Regardless(MuxStop(p), LAMBDA q : Ok(Free(q, {"video_extradata"})))

Mp4MuxSetProperty(p) ==
    Fail(p) \cup UNION {Ok(On(p, {f})) : f \in {"direct_file", "split_at_keyframe"}}

----------------------------------------------------------------------------
(* mpegts_muxer.c *)

TsMuxVideoPush(p, kind) ==
    IF kind = "eos" THEN MuxCheckEos(On(p, {"video_eos"}))
    ELSE Then(IF Is(p, "header_written") THEN Ok(p) ELSE MuxWriteHeader(p), MuxWrite)

TsMuxAudioPush(p, kind) ==
    IF kind = "eos" THEN MuxCheckEos(On(p, {"audio_eos"}))
    ELSE IF Is(p, "header_written") THEN MuxWrite(p)
    ELSE IF Is(p, "video_linked") THEN Ok(p)
    ELSE Then(MuxWriteHeader(p), MuxWrite)

TsMuxStart(p) == MuxStart(p)
TsMuxStop(p)  == MuxStop(p)

TsMuxSetProperty(p) == Fail(p) \cup Ok(On(p, {"direct_file"}))

----------------------------------------------------------------------------
(* The demuxers.  With a location they read it by themselves; without one  *)
(* they queue what is pushed to them until it can be probed.  start()      *)
(* forgets a context or a queue that pushes before it have made.           *)

DemuxOpen(p)  == Ok(Get(p, {"lock"}))
DemuxClose(p) == Ok(Free(p, {"lock"}))

DemuxFresh(p) ==
    Off(Free(Null(Lose(Inside(p, 0), IF p.n > 0 THEN {"queue"} ELSE {}),
                  {"fc", "file", "avio"}), {"pads"}),
        {"eos_received", "eos_sent", "file_opened"})

DemuxStop(p) ==
    Ok(Off(Free(Inside(IF Has(p, "fc")
                       THEN Free(IF Is(p, "direct_file") THEN Free(p, {"file"}) ELSE IoFreed(p),
                                 {"fc"})
                       ELSE p, 0), {"pads"}),
           {"eos_received", "eos_sent"}))

(* A location is given only where the sink pad is not used. *)
DemuxSetProperty(p) ==
    Fail(p) \cup (IF p.links = {} THEN Ok(On(p, {"direct_file"})) ELSE {})

(* One buffer is queued; EOS is only noted. *)
DemuxEnqueue(p, in) ==
    LET q == Use(p, {"lock"})
    IN  IF in = "eos" THEN On(q, {"eos_received"})
        ELSE IF q.n < MaxInside THEN Taken(q) ELSE q

(* EOS goes to every linked source pad, once, and to the bus. *)
DemuxSendEos(p) ==
    IF Is(p, "eos_sent") THEN p ELSE On(Send(p, <<"eos">>), {"eos_sent"})

(* Frames read from the context, pushed whatever the peers say; after the  *)
(* end there are none.                                                     *)
DemuxRead(p) ==
    LET q == Inside(p, 0)
    IN  IF Is(p, "eos_sent") THEN {q} ELSE {q, Shed(q), Send(q, <<"data">>)}

(* Source pads are made for the streams that were found. *)
DemuxFound(p, io) == Get(Free(p, {"pads"}), {"fc", io, "pads"})

----------------------------------------------------------------------------
(* mp4_demuxer.c *)

Mp4DemuxStart(p) ==
    LET q == DemuxFresh(p)
    IN  IF Is(p, "direct_file") THEN Fail(q) \cup Ok(DemuxFound(q, "file")) ELSE Ok(q)

Mp4DemuxTryInit(p) ==
    IF Has(p, "fc") THEN Ok(p)
    ELSE Ok(p) \cup Fail(p) \cup
         (IF p.n > 0 THEN Ok(DemuxFound(Inside(p, 0), "avio")) ELSE {})

(* With a location it reads one frame, else all that is queued. *)
Mp4DemuxProcess(p) ==
    UNION {Fail(q) \cup
           (IF Is(p, "direct_file") THEN Ok(q) ELSE {}) \cup
           (IF Has(p, "file") \/ Is(p, "eos_received") THEN Eof(DemuxSendEos(q))
            ELSE Again(q)) : q \in DemuxRead(p)}

Mp4DemuxSinkPush(p, in) ==
    Then(Mp4DemuxTryInit(DemuxEnqueue(p, in)),
         LAMBDA q : IF Has(q, "fc") THEN Mp4DemuxProcess(q)
                    ELSE IF Is(q, "eos_received")
                    THEN Ok(DemuxSendEos(IF q.n > 0 THEN Shed(q) ELSE q))
                    ELSE Ok(q))

Mp4DemuxProcessOp(p) ==
    IF Has(p, "fc") /\ Is(p, "direct_file") THEN Mp4DemuxProcess(p) ELSE Ok(p)

----------------------------------------------------------------------------
(* mpegts_demuxer.c.  avformat_open_input frees the context it fails on,   *)
(* and the code then frees it again; a failing avformat_find_stream_info   *)
(* leaves the I/O context.                                                 *)

TsDemuxStart(p) ==
    LET q == DemuxFresh(p)
    IN  IF Is(p, "direct_file")
        THEN Fail(q) \cup Ok(On(DemuxFound(q, "file"), {"file_opened"})) ELSE Ok(q)

TsDemuxTryInit(p) ==
    IF Has(p, "fc") THEN Ok(p)
    ELSE (IF Is(p, "eos_received") THEN {} ELSE Ok(p)) \cup Fail(p) \cup
         Ok(Use(p, {"temp_fc"})) \cup
         (IF p.n > 0 THEN Ok(DemuxFound(Inside(p, 0), "avio")) \cup
                          Ok(Lose(p, {"temporary_avio"}))
          ELSE {})

(* It reads to the end of the file or of the queue, and always says ZST_OK. *)
TsDemuxProcess(p) ==
    UNION {(IF Has(p, "file") \/ ~Is(p, "eos_received") THEN Ok(q) ELSE {}) \cup
           (IF Has(p, "file") \/ Is(p, "eos_received") THEN Ok(DemuxSendEos(q)) ELSE {}) :
           q \in DemuxRead(p)}

TsDemuxSinkPush(p, in) ==
    Then(TsDemuxTryInit(DemuxEnqueue(p, in)),
         LAMBDA q : IF Has(q, "fc") THEN TsDemuxProcess(q)
                    ELSE IF Is(q, "eos_received")
                    THEN Ok(DemuxSendEos(IF q.n > 0 THEN Shed(q) ELSE q))
                    ELSE Ok(q))

TsDemuxProcessOp(p) ==
    IF Has(p, "fc") /\ {"direct_file", "file_opened"} \subseteq p.on
    THEN TsDemuxProcess(p) ELSE Ok(p)

----------------------------------------------------------------------------
(* The ops tables *)

Mp4MuxOps(h, p, in) ==
    CASE h = "start" -> Mp4MuxStart(p) [] h = "stop" -> Mp4MuxStop(p)
      [] h = "push" -> IF in.pad = "video" THEN Mp4MuxVideoPush(p, in.kind)
                       ELSE Mp4MuxAudioPush(p, in.kind)
      [] h = "set_property" -> Mp4MuxSetProperty(p) [] OTHER -> NoHook

TsMuxOps(h, p, in) ==
    CASE h = "start" -> TsMuxStart(p) [] h = "stop" -> TsMuxStop(p)
      [] h = "push" -> IF in.pad = "video" THEN TsMuxVideoPush(p, in.kind)
                       ELSE TsMuxAudioPush(p, in.kind)
      [] h = "set_property" -> TsMuxSetProperty(p) [] OTHER -> NoHook

Mp4DemuxOps(h, p, in) ==
    CASE h = "open" -> DemuxOpen(p) [] h = "close" -> DemuxClose(p)
      [] h = "start" -> Mp4DemuxStart(p) [] h = "stop" -> DemuxStop(p)
      [] h = "push" -> Mp4DemuxSinkPush(p, in) [] h = "process" -> Mp4DemuxProcessOp(p)
      [] h = "set_property" -> DemuxSetProperty(p) [] OTHER -> NoHook

TsDemuxOps(h, p, in) ==
    CASE h = "open" -> DemuxOpen(p) [] h = "close" -> DemuxClose(p)
      [] h = "start" -> TsDemuxStart(p) [] h = "stop" -> DemuxStop(p)
      [] h = "push" -> TsDemuxSinkPush(p, in) [] h = "process" -> TsDemuxProcessOp(p)
      [] h = "set_property" -> DemuxSetProperty(p) [] OTHER -> NoHook
=============================================================================
