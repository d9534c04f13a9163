----------------------------- MODULE ZstCodecs -----------------------------
(***************************************************************************)
(* The hooks of the software codecs.  The libraries (FFmpeg, x264,         *)
(* x265) are external: a library takes frames, keeps back as many as it    *)
(* likes, and gives all of them out once it has been told of the end;      *)
(* then it takes nothing more until it is flushed or closed.               *)
(***************************************************************************)
EXTENDS ZstHooks

----------------------------------------------------------------------------
(* aac_encoder.c.  One call of process hands out at most one packet. *)

AacEncOpen(p) ==
    Ok(Off(Null(p, {"ctx", "frame", "pool"}),
           {"initialized", "flushing", "flush_done", "bitrate"}))

AacEncClose(p) == Ok(Off(FreeCodec(p, {"pool", "ctx", "frame"}), {"initialized"}))

AacInitEncoder(p) ==
    Then(AllOrNothing(p, {"ctx", "frame", "pool"}),
         LAMBDA q : Ok(On(Off(q, {"flushing", "flush_done"}), {"initialized"})))

AacMakeEos(p) == Out(p, "eos") \cup Fail(p)

(* avcodec_receive_packet, and a buffer of the pool for the packet *)
AacReceivePacket(p) ==
    LET q == Use(p, {"ctx"}) IN
    Fail(q) \cup
    (IF q.n > 0 THEN LET got == Inside(q, q.n - 1)
                     IN  Out(got, "data") \cup Fail(Shed(got)) ELSE {}) \cup
    (IF Is(q, "flushing") THEN IF q.n = 0 THEN Eof(q) ELSE {} ELSE Again(q))

AacProcess(p, in) ==
    IF in = "eos"
    THEN IF ~Is(p, "initialized") \/ Is(p, "flush_done") THEN AacMakeEos(p)
         ELSE Fail(p) \cup
              UNION {IF r.ret = "again" THEN Ok(r.p)
                     ELSE IF r.ret = "eof" THEN AacMakeEos(On(r.p, {"flush_done"}))
                     ELSE {r} : r \in AacReceivePacket(End(On(p, {"flushing"})))}
    ELSE Fail(p) \cup
         Then(IF Is(p, "initialized") THEN Ok(p) ELSE AacInitEncoder(p),
              LAMBDA q : LET u == Use(q, {"ctx", "frame"}) IN
                  IF CanTake(u)
                  THEN Fail(u) \cup
                       {IF r.ret = "again" THEN Outcome("ok", r.p, r.out) ELSE r :
                            r \in AacReceivePacket(Taken(u))}
                  ELSE {IF r.ret = "ok" THEN r ELSE Outcome("again", r.p, r.out) :
                            r \in AacReceivePacket(Shed(u))})

AacSetProperty(p) == IF Is(p, "initialized") THEN Fail(p) ELSE Ok(On(p, {"bitrate"}))

(* opus_encoder.c has the same control *)
OpusEncOpen(p)         == AacEncOpen(p)
OpusEncClose(p)        == AacEncClose(p)
OpusInitEncoder(p)     == AacInitEncoder(p)
OpusReceivePacket(p)   == AacReceivePacket(p)
OpusProcess(p, in)     == AacProcess(p, in)
OpusSetProperty(p)     == AacSetProperty(p)

----------------------------------------------------------------------------
(* x264_encoder.c.  Finished packets wait in a list; process hands out the *)
(* head of a list that is not empty before it looks at its input.          *)

PendingClear(p) == Listed(p, <<>>)

(* A list node that cannot be made: the caller decides about the buffer. *)
PendingPush(p, o) == Ok(Listed(p, Append(p.pend, o))) \cup Fail(p)

PendingPop(p) ==
    IF p.pend = <<>> THEN Ok(p)
    ELSE Out(Listed(p, Tail(p.pend)), Head(p.pend))

X264Open(p) ==
    Ok(PendingClear(Off(Null(p, {"x264", "pool"}), {"initialized", "bframes"})))

X264Close(p) ==
    Ok(Off(FreeCodec(PendingClear(p), {"pool", "x264"}), {"initialized"}))

X264InitEncoder(p) ==
    Then(AllOrNothing(p, {"x264", "pool"}),
         LAMBDA q : Ok(On(q, {"initialized", "force_keyframe"})))

(* The packets of one encoded frame go to the list, one per NAL unit or one *)
(* for all.  Without a pool buffer the frame is given up; without a list    *)
(* node the buffer is in nobody's hands.                                    *)
X264Queue(p, packets) ==
    LET kept == Listed(p, p.pend \o packets)
    IN  Ok(kept) \cup Fail(Shed(p)) \cup Ok(Lose(Shed(p), {"packet"}))

Nals == {<<"data">>, <<"data", "data">>}

X264Process(p, in) ==
    IF p.pend # <<>> THEN PendingPop(p)
    ELSE IF in = "eos"
    THEN Fail(p) \cup Then(PendingPush(p, "eos"), PendingPop)
    ELSE Fail(p) \cup
         Then(IF Is(p, "initialized") THEN Ok(p) ELSE X264InitEncoder(p),
              LAMBDA q : LET u == Off(Use(q, {"x264"}), {"force_keyframe"}) IN
                  Fail(Shed(u)) \cup
                  (IF CanTake(u) THEN Ok(Taken(u)) ELSE {}) \cup
                  UNION {Then(X264Queue(u, s), PendingPop) :
                             s \in IF Is(u, "output_nal_units") THEN Nals
                                   ELSE {<<"data">>}})

(* x264_is_config_property: what an encoder that is running cannot change *)
X264IsConfigProperty(name) == name = "bframes"

X264SetProperty(p) ==
    UNION {IF Is(p, "initialized") /\ X264IsConfigProperty(name) THEN Fail(p)
           ELSE Ok(On(p, {name})) : name \in {"bframes", "output_nal_units"}}

X264Event(p) == Ok(On(p, {"force_keyframe"}))

X264SinkPush(p, in) == PushList(X264Process(p, in))

----------------------------------------------------------------------------
(* x265_encoder.c *)

X265Open(p) ==
    Ok(PendingClear(Get(Off(Null(p, {"x265", "pool"}),
                            {"initialized", "draining", "bframes"}),
                        {"param", "pic_in", "pic_out"})))

X265Close(p) ==
    Ok(Off(FreeCodec(PendingClear(p), {"pool", "x265", "param", "pic_in", "pic_out"}),
           {"initialized", "draining"}))

X265InitEncoder(p) ==
    Then(AllOrNothing(Use(p, {"param", "pic_in", "pic_out"}), {"x265", "pool"}),
         LAMBDA q : Ok(On(Off(q, {"draining"}), {"initialized"})))

(* At EOS every frame the library kept is fetched; a packet that finds the *)
(* pool empty is passed over.                                              *)
X265Drain(p) ==
    LET drained(k) == Listed(Inside(End(p), 0), [i \in 1 .. k |-> "data"])
    IN  UNION {Ok(IF k = p.n THEN drained(k) ELSE Shed(drained(k))) : k \in 0 .. p.n}

X265Process(p, in) ==
    IF p.pend # <<>> THEN PendingPop(p)
    ELSE IF in = "eos"
    THEN Then(IF Is(p, "initialized") /\ Has(p, "x265") /\ ~Is(p, "draining")
              THEN X265Drain(On(p, {"draining"})) ELSE Ok(p),
              LAMBDA q : Fail(q) \cup Then(PendingPush(q, "eos"), PendingPop))
    ELSE Fail(p) \cup
         Then(IF Is(p, "initialized") THEN Ok(p) ELSE X265InitEncoder(p),
              LAMBDA q : LET u == Off(Use(q, {"x265", "pic_in", "pic_out"}),
                                      {"force_keyframe"}) IN
                  Fail(Shed(u)) \cup
                  (IF CanTake(u) THEN Ok(Taken(u)) ELSE {}) \cup
                  (IF Is(u, "ended") THEN {}
                   ELSE IF Is(u, "output_nal_units")
                   THEN UNION {Then(X264Queue(u, s), PendingPop) : s \in Nals}
                   ELSE Out(u, "data")))

X265SetProperty(p) ==
    IF Is(p, "initialized") THEN Fail(p)
    ELSE Ok(On(p, {"bframes"})) \cup Ok(On(p, {"output_nal_units"}))

X265Event(p) == Ok(On(p, {"force_keyframe"}))

X265SinkPush(p, in) == PushList(X265Process(p, in))

----------------------------------------------------------------------------
(* h265_encoder.c: the FFmpeg HEVC encoder with the same list *)

H265EncOpen(p) ==
    Ok(PendingClear(Off(Null(p, {"ctx", "frame", "pool"}),
                        {"initialized", "draining"})))

H265EncClose(p) ==
    Ok(Off(FreeCodec(PendingClear(p), {"pool", "ctx", "frame"}),
           {"initialized", "draining"}))

H265InitEncoder(p) ==
    Then(AllOrNothing(p, {"ctx", "frame", "pool"}),
         LAMBDA q : Ok(On(Off(q, {"draining"}), {"initialized"})))

(* h265_queue_av_packet: without a pool buffer, or in one too small, or    *)
(* without a list node, the packet is dropped and the caller told.         *)
H265QueuePacket(p) ==
    LET got == Inside(p, p.n - 1)
    IN  Ok(Listed(got, Append(got.pend, "data"))) \cup Fail(Shed(got))

(* h265_receive_packets: k packets are ready; all of them while draining *)
H265ReceivePackets(p) ==
    LET u == Use(p, {"ctx", "pool"})
        after(k) == Listed(Inside(u, u.n - k), u.pend \o [i \in 1 .. k |-> "data"])
        ready == IF Is(u, "draining") THEN {u.n} ELSE 0 .. u.n
    IN  Fail(Shed(u)) \cup (UNION {Ok(after(k)) : k \in ready}) \cup
        UNION {{r \in H265QueuePacket(after(k)) : r.ret = "err"} : k \in 0 .. u.n - 1}

H265QueueEos(p) == Fail(p) \cup PendingPush(p, "eos")

H265EncProcess(p, in) ==
    IF p.pend # <<>> THEN PendingPop(p)
    ELSE IF in = "eos"
    THEN Then(IF Is(p, "initialized") /\ ~Is(p, "draining")
              THEN Fail(Shed(On(p, {"draining"})))
                   \cup H265ReceivePackets(End(On(p, {"draining"})))
              ELSE Ok(p),
              LAMBDA q : Then(H265QueueEos(q), PendingPop))
    ELSE Fail(p) \cup
         Then(IF Is(p, "initialized") THEN Ok(p) ELSE H265InitEncoder(p),
              LAMBDA q : LET u == Use(q, {"ctx", "frame"}) IN
                  Fail(u) \cup
                  (IF CanTake(u) THEN Then(H265ReceivePackets(Taken(u)), PendingPop)
                   ELSE Fail(Shed(u))))

H265EncSetProperty(p) ==
    IF Is(p, "initialized") THEN Fail(p) ELSE Ok(On(p, {"crf"}))

H265EncSinkPush(p, in) == PushList(H265EncProcess(p, in))

----------------------------------------------------------------------------
(* h264_decoder.c.  A decoded frame is pushed from inside process. *)

H264Open(p) ==
    Ok(Off(Null(p, {"ctx", "parser", "frame", "pool"}), {"initialized", "threads"}))

H264Close(p) ==
    Ok(Off(FreeCodec(p, {"pool", "parser", "ctx", "frame"}), {"initialized"}))

H264InitDecoder(p) ==
    Then(AllOrNothing(p, {"parser", "ctx", "frame"}),
         LAMBDA q : Ok(On(q, {"initialized"})))

(* Kept when the format is unchanged, otherwise destroyed and made again. *)
H264UpdatePool(p) ==
    (IF Has(p, "pool") THEN Ok(p) ELSE {}) \cup AllOrNothing(Free(p, {"pool"}), {"pool"})

(* h264_emit_frame and h264_emit_buffer: a frame that came out of the      *)
(* library is copied into a pool buffer and pushed.                        *)
H264EmitFrame(p) ==
    LET got == Inside(p, p.n - 1)
    IN  UNION {IF r.ret = "ok" THEN Push(r.p, "data") \cup Fail(Shed(r.p))
               ELSE Fail(Shed(r.p)) : r \in H264UpdatePool(got)}

(* The receive loop of h264_decode_packet: the library gives out some of   *)
(* its frames, all of them once it was told of the end.  The frames before *)
(* the last leave the pool and the peer as one emission does.              *)
H264Receive(p, ready) ==
    Fail(Flushed(p)) \cup Again(Flushed(p)) \cup
    (UNION {IF k = 0 THEN Ok(p)
            ELSE H264EmitFrame(Inside(p, p.n - k + 1)) : k \in ready}) \cup
    (UNION {{r \in H264EmitFrame(Inside(p, p.n - k + 1)) : r.ret = "err"} :
                k \in 1 .. p.n})

(* A full library is emptied and the packet sent again.  AVERROR_EOF, the  *)
(* answer of a library that was told of the end, is not taken as an error. *)
H264DecodePacket(p, pkt) ==
    LET u == Use(p, {"ctx", "frame"})
    IN  IF pkt = "flush" THEN H264Receive(End(u), {u.n})
        ELSE IF Is(u, "ended") THEN Ok(Shed(u))
        ELSE Fail(Flushed(u)) \cup Again(Flushed(u)) \cup
             Then(IF CanTake(u) THEN Ok(u)
                  ELSE H264Receive(u, {u.n}),
                  LAMBDA q : H264Receive(Taken(q), 0 .. q.n + 1))

(* Mutant of the next: EOS instead of the frames that are still inside. *)
H264DecProcess_NoDrain(p, in) ==
    Then(IF Is(p, "initialized") THEN Ok(p) ELSE H264InitDecoder(p),
         LAMBDA q : IF in = "eos" THEN Push(q, "eos") ELSE H264DecodePacket(q, "data"))

H264DecProcess(p, in) ==
    Then(IF Is(p, "initialized") THEN Ok(p) ELSE H264InitDecoder(p),
         LAMBDA q : LET u == Use(q, {"parser", "ctx"}) IN
             IF in = "eos"
             THEN Regardless(Ok(u) \cup H264DecodePacket(u, "tail"),
                      LAMBDA r : Regardless(H264DecodePacket(r, "flush"),
                          LAMBDA t : Fail(t) \cup Push(t, "eos")))
             ELSE Fail(u) \cup Ok(u) \cup H264DecodePacket(u, "data"))

H264SinkPush(p, in) == PushOut(H264DecProcess(p, in))

H264DecSetProperty(p) == Ok(On(p, {"threads"}))

(* h265_decoder.c has the same control; a change of the input's format in  *)
(* mid-stream also flushes the library.                                    *)
H265DecOpen(p)           == H264Open(p)
H265DecClose(p)          == H264Close(p)
H265InitDecoder(p)       == H264InitDecoder(p)
H265UpdatePool(p)        == H264UpdatePool(p)
H265EmitFrame(p)         == H264EmitFrame(p)
H265DecodePacket(p, pkt) == H264DecodePacket(p, pkt)
H265DecProcess(p, in)    == H264DecProcess(p, in)
H265DecSinkPush(p, in)   == H264SinkPush(p, in)
H265DecSetProperty(p)    == H264DecSetProperty(p)

----------------------------------------------------------------------------
(* aac_decoder.c.  A frame that cannot be emitted ends the call, at EOS too. *)

AacDecOpen(p) ==
    Ok(Off(Null(p, {"ctx", "frame", "pool"}), {"initialized", "threads"}))

AacDecClose(p) ==
    Ok(Off(FreeCodec(p, {"pool", "ctx", "frame"}), {"initialized"}))

AacInitDecoder(p) ==
    Then(AllOrNothing(p, {"ctx", "frame"}), LAMBDA q : Ok(On(q, {"initialized"})))

AacUpdatePool(p) == H264UpdatePool(p) \cup Fail(p)

AacEmitFrame(p) == H264EmitFrame(p)

AacDecProcess(p, in) ==
    Then(IF Is(p, "initialized") THEN Ok(p) ELSE AacInitDecoder(p),
         LAMBDA q : LET u == Use(q, {"ctx", "frame"}) IN
             IF in = "eos"
             THEN Then(H264Receive(End(u), {u.n}), LAMBDA r : Fail(r) \cup Push(r, "eos"))
             ELSE IF Is(u, "ended") THEN Fail(u) \cup Ok(Shed(u))
             ELSE Fail(u) \cup Again(Flushed(u)) \cup
                  (IF CanTake(u) THEN H264Receive(Taken(u), 0 .. u.n + 1)
                   ELSE Fail(Flushed(u))))

AacDecSinkPush(p, in) == PushOut(AacDecProcess(p, in))
AacDecSetProperty(p)  ==
    Ok(On(p, {"threads"})) \cup
    (IF Is(p, "initialized") THEN Fail(p) ELSE Ok(On(p, {"fixed_point"})))

(* opus_decoder.c has the same control *)
OpusDecOpen(p)         == AacDecOpen(p)
OpusDecClose(p)        == AacDecClose(p)
OpusInitDecoder(p)     == AacInitDecoder(p)
OpusUpdatePool(p)      == AacUpdatePool(p)
OpusEmitFrame(p)       == AacEmitFrame(p)
OpusDecProcess(p, in)  == AacDecProcess(p, in)
OpusDecSinkPush(p, in) == AacDecSinkPush(p, in)
OpusDecSetProperty(p)  == Ok(On(p, {"threads"}))

----------------------------------------------------------------------------
(* vp8_encoder.c.  The picture's size comes from properties; a buffer of   *)
(* another size is handed on as it is.  av_frame_alloc makes a frame       *)
(* without the buffers its planes should point to.                         *)

Vp8EncOpen(p) == Ok(Off(Null(p, {"ctx", "frame"}), {"initialized"}))

Vp8EncClose(p) == Ok(Off(FreeCodec(p, {"ctx", "frame"}), {"initialized"}))

Vp8InitEncoder(p) ==
    Then(AllOrNothing(p, {"ctx", "frame"}), LAMBDA q : Ok(On(q, {"initialized"})))

(* One packet at most is fetched for one frame sent. *)
Vp8EncodeFrame(p) ==
    Then(IF Is(p, "initialized") THEN Ok(p) ELSE Vp8InitEncoder(p),
         LAMBDA q : LET u == Use(q, {"frame", "frame_buffers", "ctx"}) IN
             Fail(u) \cup
             (IF CanTake(u) THEN Ok(Taken(u)) ELSE {}) \cup Out(u, "data")
             \cup Fail(Shed(u)))

Vp8EncProcess(p, in) ==
    IF ~Is(p, "size") THEN Ok(p)
    ELSE Ok(p) \cup Out(p, "data") \cup Vp8EncodeFrame(p)

Vp8EncSetProperty(p) == Ok(On(p, {"size"})) \cup Ok(On(p, {"threads"}))

(* vp8_decoder.c: a packet the library refuses is dropped without a word. *)
Vp8DecOpen(p) == Ok(Off(Null(p, {"ctx", "frame"}), {"initialized", "threads"}))

Vp8DecClose(p) == Ok(Off(FreeCodec(p, {"ctx", "frame"}), {"initialized"}))

Vp8InitDecoder(p) ==
    Then(AllOrNothing(p, {"ctx", "frame"}), LAMBDA q : Ok(On(q, {"initialized"})))

Vp8DecProcess(p, in) ==
    Ok(p) \cup
    Then(IF Is(p, "initialized") THEN Ok(p) ELSE Vp8InitDecoder(p),
         LAMBDA q : LET u == Use(q, {"frame", "ctx"}) IN
             Fail(u) \cup Ok(Shed(u)) \cup
             (IF CanTake(u) THEN Ok(Taken(u)) ELSE {}) \cup Out(u, "data")
             \cup Fail(Shed(u)))

Vp8DecSetProperty(p) == Ok(On(p, {"threads"}))

(* vp9_encoder.c and vp9_decoder.c repeat the two files for VP9 *)
Vp9EncOpen(p)        == Vp8EncOpen(p)
Vp9EncClose(p)       == Vp8EncClose(p)
Vp9InitEncoder(p)    == Vp8InitEncoder(p)
Vp9EncodeFrame(p)    == Vp8EncodeFrame(p)
Vp9EncProcess(p, in) == Vp8EncProcess(p, in)
Vp9EncSetProperty(p) == Vp8EncSetProperty(p)

Vp9DecOpen(p)        == Vp8DecOpen(p)
Vp9DecClose(p)       == Vp8DecClose(p)
Vp9InitDecoder(p)    == Vp8InitDecoder(p)
Vp9DecProcess(p, in) == Vp8DecProcess(p, in)
Vp9DecSetProperty(p) == Vp8DecSetProperty(p)

----------------------------------------------------------------------------
(* The ops tables.  The own push function of a sink pad, which is not in  *)
(* the table, goes by the name "push".                                     *)

AacEncOps(h, p, in) ==
    CASE h = "open" -> AacEncOpen(p) [] h = "close" -> AacEncClose(p)
      [] h = "process" -> AacProcess(p, in)
      [] h = "set_property" -> AacSetProperty(p) [] OTHER -> NoHook

OpusEncOps(h, p, in) ==
    CASE h = "open" -> OpusEncOpen(p) [] h = "close" -> OpusEncClose(p)
      [] h = "process" -> OpusProcess(p, in)
      [] h = "set_property" -> OpusSetProperty(p) [] OTHER -> NoHook

X264Ops(h, p, in) ==
    CASE h = "open" -> X264Open(p) [] h = "close" -> X264Close(p)
      [] h = "push" -> X264SinkPush(p, in)
      [] h = "set_property" -> X264SetProperty(p)
      [] h = "event" -> X264Event(p) [] OTHER -> NoHook

X265Ops(h, p, in) ==
    CASE h = "open" -> X265Open(p) [] h = "close" -> X265Close(p)
      [] h = "push" -> X265SinkPush(p, in)
      [] h = "set_property" -> X265SetProperty(p)
      [] h = "event" -> X265Event(p) [] OTHER -> NoHook

H265EncOps(h, p, in) ==
    CASE h = "open" -> H265EncOpen(p) [] h = "close" -> H265EncClose(p)
      [] h = "push" -> H265EncSinkPush(p, in)
      [] h = "set_property" -> H265EncSetProperty(p) [] OTHER -> NoHook

H264DecOps(h, p, in) ==
    CASE h = "open" -> H264Open(p) [] h = "close" -> H264Close(p)
      [] h = "push" -> H264SinkPush(p, in)
      [] h = "set_property" -> H264DecSetProperty(p) [] OTHER -> NoHook

H265DecOps(h, p, in) ==
    CASE h = "open" -> H265DecOpen(p) [] h = "close" -> H265DecClose(p)
      [] h = "push" -> H265DecSinkPush(p, in)
      [] h = "set_property" -> H265DecSetProperty(p) [] OTHER -> NoHook

AacDecOps(h, p, in) ==
    CASE h = "open" -> AacDecOpen(p) [] h = "close" -> AacDecClose(p)
      [] h = "push" -> AacDecSinkPush(p, in)
      [] h = "set_property" -> AacDecSetProperty(p) [] OTHER -> NoHook

OpusDecOps(h, p, in) ==
    CASE h = "open" -> OpusDecOpen(p) [] h = "close" -> OpusDecClose(p)
      [] h = "push" -> OpusDecSinkPush(p, in)
      [] h = "set_property" -> OpusDecSetProperty(p) [] OTHER -> NoHook

Vp8EncOps(h, p, in) ==
    CASE h = "open" -> Vp8EncOpen(p) [] h = "close" -> Vp8EncClose(p)
      [] h = "process" -> Vp8EncProcess(p, in)
      [] h = "set_property" -> Vp8EncSetProperty(p) [] OTHER -> NoHook

Vp8DecOps(h, p, in) ==
    CASE h = "open" -> Vp8DecOpen(p) [] h = "close" -> Vp8DecClose(p)
      [] h = "process" -> Vp8DecProcess(p, in)
      [] h = "set_property" -> Vp8DecSetProperty(p) [] OTHER -> NoHook

Vp9EncOps(h, p, in) ==
    CASE h = "open" -> Vp9EncOpen(p) [] h = "close" -> Vp9EncClose(p)
      [] h = "process" -> Vp9EncProcess(p, in)
      [] h = "set_property" -> Vp9EncSetProperty(p) [] OTHER -> NoHook

Vp9DecOps(h, p, in) ==
    CASE h = "open" -> Vp9DecOpen(p) [] h = "close" -> Vp9DecClose(p)
      [] h = "process" -> Vp9DecProcess(p, in)
      [] h = "set_property" -> Vp9DecSetProperty(p) [] OTHER -> NoHook
=============================================================================
