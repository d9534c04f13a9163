------------------------------- MODULE ZstRtp -------------------------------
(***************************************************************************)
(* The hooks of the elements that turn streams into RTP packets and back:  *)
(* the RTP and ST 2110 payloaders and depayloaders, the ST 2110 redundancy *)
(* and FEC elements, and the SDP muxer and demuxer.  What the depayloaders *)
(* make of packets that were lost or reordered is in ZstReceiver; here is  *)
(* what they own, and what they do with EOS.                               *)
(***************************************************************************)
EXTENDS ZstContainers

(* zst_pad_push whose result nobody looks at *)
PushBlind(p) == {Send(p, <<"data">>), Shed(p)}

(* An out buffer whose memory.release is free and whose memory.priv was    *)
(* never set: its data is not freed with it.                               *)
Unfreed(p) == Lose(p, {"packet_data"})

(* process() drops the reference that its caller still holds. *)
UnrefsInput(p) == Use(p, {"callers_buffer"})

----------------------------------------------------------------------------
(* rtp_payloader.c: EOS is answered ZST_OK and goes no further. *)

RtpPayOpen(p)  == Ok(p) \cup (IF Has(p, "pool") THEN {} ELSE Ok(Get(p, {"pool"})))
RtpPayClose(p) == Ok(Free(p, {"pool"}))

(* Every packet of a frame is tried; the last error is returned. *)
RtpPayPush(p, in) ==
    IF in = "eos" THEN Ok(p)
    ELSE Ok(p) \cup Ok(Send(p, <<"data">>)) \cup Fail(Shed(p)) \cup
         Fail(Shed(Send(p, <<"data">>)))

RtpPaySetProperty(p) ==
    Fail(p) \cup UNION {Ok(On(p, {f})) : f \in {"codec", "mtu", "seq"}}

(* rtp_depayloader.c: EOS pushes the access unit at hand, and nothing else *)

RtpDepayResetAu(p) == Free(p, {"au_data"})

RtpDepayPushAu(p) ==
    IF Has(p, "au_data") THEN Push(RtpDepayResetAu(p), "data") ELSE Ok(p)

RtpDepayPush(p, in) ==
    IF in = "eos" THEN RtpDepayPushAu(p)
    ELSE Ok(p) \cup Ok(Shed(RtpDepayResetAu(p))) \cup Fail(Shed(RtpDepayResetAu(p))) \cup
         Ok(Get(RtpDepayResetAu(p), {"au_data"})) \cup
         RtpDepayPushAu(Get(RtpDepayResetAu(p), {"au_data"}))

RtpDepayOpen(p)  == Ok(RtpDepayResetAu(p))
RtpDepayClose(p) == Ok(RtpDepayResetAu(p))

RtpDepaySetProperty(p) == Fail(p) \cup UNION {Ok(On(p, {f})) : f \in {"codec", "ssrc"}}

----------------------------------------------------------------------------
(* st2110_20_payloader.c *)
Pay20Push(p, in) ==
    IF in = "eos" THEN Ok(Send(p, <<"eos">>))
    ELSE UNION {Ok(q) \cup Fail(Shed(q)) : q \in PushBlind(p)}

(* st2110_20_depayloader.c: a packet with another timestamp pushes the     *)
(* frame at hand as it is, one with the marker bit completes it.           *)
Depay20Frame(p) == Inside(Get(p, {"current_frame"}), 1)
Depay20Gone(p)  == Inside(Free(p, {"current_frame"}), 0)

Depay20Packet(p) ==
    {Depay20Frame(Depay20Gone(p))} \cup {Depay20Gone(q) : q \in PushBlind(Depay20Frame(Depay20Gone(p)))}

Depay20Push(p, in) ==
    IF in = "eos" THEN Ok(Send(p, <<"eos">>))
    ELSE Fail(p) \cup Fail(Shed(Depay20Gone(p))) \cup
         (UNION {Ok(q) : q \in Depay20Packet(p)}) \cup
         (IF Has(p, "current_frame")
          THEN UNION {UNION {Ok(r) : r \in Depay20Packet(Depay20Gone(q))} : q \in PushBlind(p)}
          ELSE {})

(* st2110_21_payloader.c *)
Pay21Start(p)   == Ok(Get(p, {"pacer"}))
Pay21Stop(p)    == Ok(Free(p, {"pacer"}))
Pay21Process(p, in) == UNION {Ok(Unfreed(q)) : q \in PushBlind(p)}

(* st2110_21_depayloader.c: units are appended until a marker bit. *)
Depay21Append(p) == Inside(Get(Free(p, {"au_data"}), {"au_data"}), 1)

Depay21PushAu(p) == {Inside(q, 0) : q \in {Unfreed(r) : r \in PushBlind(p)}}

Depay21Process(p, in) ==
    Ok(p) \cup Ok(Depay21Append(p)) \cup
    UNION {Ok(q) : q \in Depay21PushAu(Depay21Append(p))}

Depay21Stop(p) == Ok(Inside(Free(p, {"au_data"}), 0))

(* st2110_22_payloader.c: the encoder writes into the buffer of the frame  *)
(* it was given, which is unreferenced when the packet is not ready yet.   *)
Pay22Start(p) == AllOrNothing(p, {"encoder"})
Pay22Stop(p)  == Ok(FreeCodec(p, {"encoder"}))

Pay22Process(p, in) ==
    IF ~Has(p, "encoder") THEN Fail(p)
    ELSE LET q == IF p.n > 0 THEN Use(p, {"bitstream"}) ELSE p
         IN  Fail(Shed(q)) \cup Ok(q) \cup Out(q, "data") \cup
             (IF CanTake(q) THEN Ok(Taken(q)) ELSE {})

(* st2110_22_depayloader.c: the configuration found by the first init      *)
(* stays when the decoder is closed, and a restarted one is not inited.    *)
Depay22Start(p) == AllOrNothing(p, {"decoder"})
Depay22Stop(p)  == Ok(FreeCodec(p, {"decoder", "decoder_instance"}))

Depay22Decode(p) ==
    LET q == Use(p, {"decoder_instance"})
    IN  Fail(Shed(Unfreed(q))) \cup Ok(Unfreed(q)) \cup Out(q, "data")

Depay22Process(p, in) ==
    IF ~Has(p, "decoder") THEN Fail(p)
    ELSE IF Is(p, "config") THEN Depay22Decode(p)
    ELSE Fail(p) \cup Depay22Decode(On(Get(p, {"decoder_instance"}), {"config"}))

(* st2110_30_payloader.c: all packets but the last are pushed here, and    *)
(* keep the reference they were made with.                                 *)
Pay30Process(p, in) ==
    LET q == UnrefsInput(p)
    IN  Fail(q) \cup Out(q, "data") \cup
        UNION {Out(Lose(r, {"packet"}), "data") : r \in PushBlind(q)}

(* st2110_30_depayloader.c and st2110_40_depayloader.c *)
Depay30Process(p, in) == LET q == UnrefsInput(p) IN Ok(q) \cup Fail(q) \cup Out(q, "data")
Depay40Process(p, in) == LET q == UnrefsInput(p) IN Ok(q) \cup Fail(q) \cup Out(q, "data")

(* st2110_40_payloader.c: aux_data_type is made by create; close frees it  *)
(* and leaves the pointer.                                                 *)
Pay40Process(p, in) == LET q == UnrefsInput(p) IN Fail(q) \cup Out(q, "data")

Pay40FreeAux(p) == IF Is(p, "aux_freed") THEN Use(p, {"aux_data_type"}) ELSE p

Pay40Close(p) == Ok(On(Pay40FreeAux(p), {"aux_freed"}))

Pay40SetProperty(p) == Fail(p) \cup Ok(Off(Pay40FreeAux(p), {"aux_freed"}))

(* st2110_fec.c: both directions hand on what they get. *)
FecEncoderProcess(p, in) == Out(p, "data")
FecDecoderProcess(p, in) == Out(p, "data")
FecSetProperty(p) == Fail(p) \cup UNION {Ok(On(p, {f})) : f \in {"L", "D"}}

(* st2110_redundancy_mux.c and st2110_redundancy_demux.c: close frees the  *)
(* private structure, and the settings in it are gone.                     *)
RedMuxPush_EosDropped(p, in) ==                              \* mutant of the next
    IF Is(p, "priv_freed") THEN Fail(p)
    ELSE IF in = "eos" THEN Ok(p) ELSE UNION {Ok(q) : q \in PushBlind(p)}

RedMuxPush(p, in) ==
    IF Is(p, "priv_freed") THEN Fail(p)
    ELSE IF in = "eos" THEN Ok(Send(p, <<"eos">>)) ELSE UNION {Ok(q) : q \in PushBlind(p)}

RedClose(p)  == Ok(On(Off(p, {"fec_enabled", "failover_detection_ms"}), {"priv_freed"}))
RedMuxOpen(p) == Ok(p)

RedMuxSetProperty(p) ==
    Fail(p) \cup (IF Is(p, "priv_freed") THEN {} ELSE Ok(On(p, {"fec_enabled"})))

RedPads == {"sink_primary", "sink_backup"}

(* EOS of either path is handed on; a packet seen before is dropped. *)
RedDemuxPush(p, kind) ==
    IF Is(p, "priv_freed") THEN Fail(p)
    ELSE IF kind = "eos" THEN Ok(Send(p, <<"eos">>))
    ELSE Ok(p) \cup UNION {Ok(q) : q \in PushBlind(p)}

RedDemuxOpen(p) == IF Is(p, "priv_freed") THEN Fail(p) ELSE Ok(p)

RedDemuxSetProperty(p) ==
    Fail(p) \cup (IF Is(p, "priv_freed") THEN {} ELSE Ok(On(p, {"failover_detection_ms"})))

----------------------------------------------------------------------------
(* sdp_muxer.c *)

SdpPads == {"video", "audio"}

SdpMuxGenerate(p) == MayFail(On(p, {"sdp_valid"}))

(* The description goes out with the first frame of either stream. *)
SdpMuxEmit(p) ==
    IF Is(p, "emitted") /\ ~Is(p, "emit_always") THEN Ok(p)
    ELSE Then(IF Is(p, "sdp_valid") THEN Ok(p) ELSE SdpMuxGenerate(p),
              LAMBDA q : Fail(q) \cup UNION {Ok(On(r, {"emitted"})) : r \in PushBlind(q)})

(* EOS of either stream is pushed. *)
SdpMuxSinkPush(p, kind) ==
    IF kind = "eos" THEN Ok(Send(p, <<"eos">>)) ELSE SdpMuxEmit(Off(p, {"sdp_valid"}))

SdpMuxOpen(p)  == SdpMuxGenerate(Off(p, {"emitted"}))
SdpMuxStart(p) == IF Is(p, "sdp_valid") THEN Ok(p) ELSE SdpMuxGenerate(p)
SdpMuxStop(p)  == Ok(Off(p, {"emitted"}))
SdpMuxClose(p) == SdpMuxStop(p)

SdpMuxSetProperty(p) ==
    Fail(p) \cup UNION {SdpMuxGenerate(On(p, F)) : F \in {{}, {"emit_always"}}}

----------------------------------------------------------------------------
(* sdp_demuxer.c *)

(* The tracks of the description; an SDP with source pads is not reparsed, *)
(* and one may describe no track that is supported.                        *)
SdpParse(p) ==
    IF Has(p, "pads") THEN {p}
    ELSE LET q == On(Free(p, {"tracks"}), {"sdp_parsed"}) IN {q, Get(q, {"tracks"})}

SdpDemuxSetProperty(p) ==
    LET q == Off(On(p, {"sdp"}), {"sdp_parsed"})
    IN  Fail(p) \cup Ok(On(p, {"reorder_capacity"})) \cup
        (IF Has(p, "pads") THEN Fail(q) \cup Fail(On(p, {"sdp"}))
         ELSE UNION {Ok(r) : r \in SdpParse(q)})

SdpDemuxOpen(p) ==
    IF Is(p, "opened") THEN Ok(p)
    ELSE IF Is(p, "sdp") /\ ~Is(p, "sdp_parsed")
    THEN UNION {IF Has(r, "tracks") THEN Ok(On(Get(r, {"pads"}), {"opened"})) ELSE Fail(r) :
                    r \in SdpParse(p)}
    ELSE Ok(On(IF Has(p, "tracks") THEN Get(p, {"pads"}) ELSE p, {"opened"}))

SdpDemuxClose(p) ==
    Ok(Off(Inside(Free(p, {"tracks", "pads"}), 0), {"sdp_parsed", "opened"}))

SdpDemuxStart(p) == IF Has(p, "tracks") /\ Is(p, "sdp_parsed") THEN Ok(p) ELSE Fail(p)

(* Packets wait in the reorder buffers for the one before them; EOS is     *)
(* sent past those that wait.                                              *)
SdpDemuxSinkPush(p, in) ==
    IF ~Has(p, "pads") THEN Ok(p)
    ELSE IF in = "eos" THEN Ok(Send(p, <<"eos">>))
    ELSE UNION {Ok(q) : q \in UNION {{r, Shed(r), Send(r, <<"data">>)} : r \in
                    {Inside(p, k) : k \in {j \in 0 .. p.n + 1 : j <= MaxInside}}}}

----------------------------------------------------------------------------
(* The ops tables *)
RtpPayOps(h, p, in) ==
    CASE h = "open" -> RtpPayOpen(p) [] h = "close" -> RtpPayClose(p)
      [] h = "push" -> RtpPayPush(p, in)
      [] h = "set_property" -> RtpPaySetProperty(p) [] OTHER -> NoHook

RtpDepayOps(h, p, in) ==
    CASE h = "open" -> RtpDepayOpen(p) [] h = "close" -> RtpDepayClose(p)
      [] h = "push" -> RtpDepayPush(p, in)
      [] h = "set_property" -> RtpDepaySetProperty(p) [] OTHER -> NoHook

Pay20Ops(h, p, in) ==
    CASE h = "push" -> Pay20Push(p, in) [] OTHER -> NoHook

Depay20Ops(h, p, in) ==
    CASE h = "push" -> Depay20Push(p, in) [] OTHER -> NoHook

Pay21Ops(h, p, in) ==
    CASE h = "start" -> Pay21Start(p) [] h = "stop" -> Pay21Stop(p)
      [] h = "process" -> Pay21Process(p, in) [] OTHER -> NoHook

Depay21Ops(h, p, in) ==
    CASE h = "stop" -> Depay21Stop(p) [] h = "process" -> Depay21Process(p, in)
      [] OTHER -> NoHook

Pay22Ops(h, p, in) ==
    CASE h = "start" -> Pay22Start(p) [] h = "stop" -> Pay22Stop(p)
      [] h = "process" -> Pay22Process(p, in) [] OTHER -> NoHook

Depay22Ops(h, p, in) ==
    CASE h = "start" -> Depay22Start(p) [] h = "stop" -> Depay22Stop(p)
      [] h = "process" -> Depay22Process(p, in) [] OTHER -> NoHook

Pay30Ops(h, p, in) ==
    CASE h = "process" -> Pay30Process(p, in) [] OTHER -> NoHook

Depay30Ops(h, p, in) ==
    CASE h = "process" -> Depay30Process(p, in) [] OTHER -> NoHook

Pay40Ops(h, p, in) ==
    CASE h = "close" -> Pay40Close(p) [] h = "process" -> Pay40Process(p, in)
      [] h = "set_property" -> Pay40SetProperty(p) [] OTHER -> NoHook

Depay40Ops(h, p, in) ==
    CASE h = "process" -> Depay40Process(p, in) [] OTHER -> NoHook

FecEncoderOps(h, p, in) ==
    CASE h = "process" -> FecEncoderProcess(p, in)
      [] h = "set_property" -> FecSetProperty(p) [] OTHER -> NoHook

FecDecoderOps(h, p, in) ==
    CASE h = "process" -> FecDecoderProcess(p, in)
      [] h = "set_property" -> FecSetProperty(p) [] OTHER -> NoHook

RedMuxOps(h, p, in) ==
    CASE h = "open" -> RedMuxOpen(p) [] h = "close" -> RedClose(p)
      [] h = "push" -> RedMuxPush(p, in)
      [] h = "set_property" -> RedMuxSetProperty(p) [] OTHER -> NoHook

RedDemuxOps(h, p, in) ==
    CASE h = "open" -> RedDemuxOpen(p) [] h = "close" -> RedClose(p)
      [] h = "push" -> RedDemuxPush(p, in.kind)
      [] h = "set_property" -> RedDemuxSetProperty(p) [] OTHER -> NoHook

SdpMuxOps(h, p, in) ==
    CASE h = "open" -> SdpMuxOpen(p) [] h = "close" -> SdpMuxClose(p)
      [] h = "start" -> SdpMuxStart(p) [] h = "stop" -> SdpMuxStop(p)
      [] h = "push" -> SdpMuxSinkPush(p, in.kind)
      [] h = "set_property" -> SdpMuxSetProperty(p) [] OTHER -> NoHook

SdpDemuxOps(h, p, in) ==
    CASE h = "open" -> SdpDemuxOpen(p) [] h = "close" -> SdpDemuxClose(p)
      [] h = "start" -> SdpDemuxStart(p)
      [] h = "push" -> SdpDemuxSinkPush(p, in)
      [] h = "set_property" -> SdpDemuxSetProperty(p) [] OTHER -> NoHook
=============================================================================
