----------------------------- MODULE ZstFilters -----------------------------
(***************************************************************************)
(* The hooks of the filters: video scaler, audio resampler, text overlay   *)
(* and the parsers of H.264/H.265, AAC and SubRip files, in the vocabulary *)
(* of ZstHooks.                                                            *)
(***************************************************************************)
EXTENDS ZstNetwork

(* A conversion context or a pool is kept while it fits, and else freed    *)
(* and made again for the new format.                                      *)
Refit(p, x) ==
    (IF Has(p, x) THEN Ok(p) ELSE {}) \cup AllOrNothing(Free(p, {x}), {x})

----------------------------------------------------------------------------
(* video_scaler.c.  Without a context it scales by itself. *)

ScalerOpen(p)  == Ok(Null(p, {"sws_ctx"}))
ScalerClose(p) == Ok(Free(p, {"sws_ctx", "pool"}))

ScalerProcess(p, in) ==
    Out(p, "data") \cup Fail(p) \cup
    Regardless(Refit(p, "sws_ctx"),
        LAMBDA q : Then(Refit(q, "pool"), LAMBDA r : Out(r, "data") \cup Fail(r)))

ScalerSetProperty(p) == Fail(p) \cup Ok(On(p, {"target"}))

----------------------------------------------------------------------------
(* audio_resampler.c.  rate is the exact rate rate-numer / rate-denom, for *)
(* which a new context computes the compensation every conversion applies. *)

ResamplerOpen(p)  == Ok(Null(p, {"swr_ctx"}))
ResamplerClose(p) == Ok(Free(p, {"swr_ctx", "pool"}))

(* Only a context made for an exact rate writes the compensation, and a    *)
(* context made for a plain rate leaves the old one.                       *)
ResamplerContext(p) ==
    (IF Has(p, "swr_ctx") THEN {p} ELSE {}) \cup
    LET q == Free(p, {"swr_ctx"})
    IN  UNION {{r, Get(r, {"swr_ctx"})} :
                   r \in IF Is(q, "rate") THEN {Off(q, {"comp"}), On(q, {"comp"})} ELSE {q}}

(* The compensation of an exact rate that is no longer asked for. *)
ResamplerConvert(p) ==
    IF Has(p, "swr_ctx") /\ Is(p, "comp") /\ ~Is(p, "rate")
    THEN Use(p, {"compensation"}) ELSE p

(* A block longer than block-samples is cut: all but the last piece are    *)
(* pushed here, whatever the peer says.                                    *)
ResamplerChunks(p) ==
    Out(p, "data") \cup
    (IF Is(p, "block_samples")
     THEN LET q == Send(p, <<"data">>)
          IN  Out(q, "data") \cup Out(Shed(p), "data") \cup Fail(Shed(p)) \cup Fail(Shed(q))
     ELSE {})

ResamplerProcess(p, in) ==
    Fail(p) \cup
    (IF {"asrc", "rate"} \cap p.on = {} THEN Out(p, "data") ELSE {}) \cup
    UNION {Then(Refit(q, "pool"),
                LAMBDA r : Fail(r) \cup ResamplerChunks(ResamplerConvert(r))) :
               q \in ResamplerContext(p)}

(* A plain rate takes back the exact one. *)
ResamplerSetProperty(p) ==
    Fail(p) \cup Ok(On(Off(p, {"rate"}), {"sample_rate"})) \cup
    UNION {Ok(On(p, {f})) : f \in {"rate", "asrc", "block_samples"}}

----------------------------------------------------------------------------
(* text_overlay.c.  The second sink pad takes the text to draw. *)

OverlayPads == {"sink", "text"}

OverlayOpen(p)  == AllOrNothing(p, {"ft", "face", "text_lock"})
OverlayClose(p) == Ok(Free(p, {"ft", "face", "text_lock"}))

(* The push function gives back the buffer, which is its caller's. *)
OverlayTextPush(p, kind) ==
    LET q == Use(p, {"callers_buffer"})
    IN  Ok(q) \cup Ok(On(Use(q, {"text_lock"}), {"subtitle"}))

OverlayProcess(p, in) ==
    Out(p, "data") \cup
    LET q == Use(p, {"face", "text_lock"}) IN Out(q, "data") \cup Out(Off(q, {"subtitle"}), "data")

OverlaySetProperty(p) ==
    Fail(p) \cup UNION {Ok(On(p, {f})) : f \in {"text", "timecode", "font_path"}}

----------------------------------------------------------------------------
(* h26x_parser.c.  n counts the units in the adapter and in the access     *)
(* unit that is being put together.                                        *)

H26xClear(p) == Off(Inside(p, 0), {"malformed", "au_eos"})

H26xOpen(p)  == Ok(Free(H26xClear(p), {"au"}))
H26xClose(p) == Ok(Free(Off(Inside(p, 0), {"au_eos"}), {"adapter", "au", "ps"}))

(* k units leave the parser.  With aggregate-au the first access unit is   *)
(* marked as the end if an earlier EOS found nothing to mark.              *)
H26xEmitted(p, k) ==
    IF Is(p, "aggregate") /\ Is(p, "au_eos")
    THEN Off(Send(p, <<"eos">> \o [i \in 1 .. k - 1 |-> "data"]), {"au_eos"})
    ELSE Send(p, [i \in 1 .. k |-> "data"])

(* parse_adapter: the adapter is cut back only when every unit in it was   *)
(* taken; a malformed unit stays at its front.                             *)
H26xParseAdapter(p) ==
    IF Is(p, "malformed") THEN Fail(p)
    ELSE Fail(On(p, {"malformed"})) \cup Ok(p) \cup
         (IF p.n > 0 THEN Fail(Shed(p)) ELSE {}) \cup
         UNION {Ok(Inside(H26xEmitted(p, k), p.n - k)) : k \in 1 .. p.n}

(* The end of the stream: the mark is put on the last of what is left,     *)
(* unless that is an incomplete unit, which is dropped.                    *)
H26xFlushAu(p) ==
    LET q    == Inside(p, 0)
        mark == IF Is(p, "aggregate") THEN Off(q, {"au_eos"}) ELSE On(q, {"au_eos"})
    IN  IF p.n = 0 THEN Ok(On(p, {"au_eos"}))
        ELSE Fail(Shed(q)) \cup Ok(Shed(On(q, {"au_eos"}))) \cup
             Ok(Send(mark, [i \in 1 .. p.n - 1 |-> "data"] \o <<"eos">>))

H26xSinkPush(p, in) ==
    LET q == Get(Free(p, {"adapter"}), {"adapter"})
    IN  IF in = "eos" THEN Then(H26xParseAdapter(q), H26xFlushAu)
        ELSE Fail(p) \cup
             UNION {H26xParseAdapter(Inside(Get(Free(q, ps), ps), m)) :
                        m \in {p.n + 1} \cap 0 .. MaxInside, ps \in {{}, {"au", "ps"}}}

(* FLUSH_START, DISCONT and STREAM_START; other events are passed on *)
H26xEvent(p) == Ok(p) \cup Ok(Shed(Free(H26xClear(p), {"au"}))) \cup
                Ok(Shed(Free(H26xClear(p), {"au", "ps"})))

H26xSetProperty(p) ==
    Fail(p) \cup UNION {Ok(On(p, {f})) : 
                        f \in {"codec", "input_format", "policy", "aggregate"}}

----------------------------------------------------------------------------
(* aac_parser.c.  Every buffer must have data; one that only says that the *)
(* stream has ended has none.                                              *)

AacParserSinkPush(p, in) ==
    IF in = "eos" THEN Fail(p)
    ELSE Fail(p) \cup Push(On(p, {"config"}), "data")

AacParserSetProperty(p) == Fail(p) \cup Ok(On(p, {"config"}))

----------------------------------------------------------------------------
(* srt_parser.c.  The thread pushes the entries at their times and ends    *)
(* without saying so.                                                      *)

SubRipOpen(p)  == AllOrNothing(p, {"entries"})
SubRipClose(p) == Ok(Free(p, {"entries"}))
SubRipStart(p) == Ok(On(Get(p, {"thread"}), {"running"})) \cup Fail(p)
SubRipStop(p)  == Ok(Off(Free(p, {"thread"}), {"running"}))

SubRipThread(p) ==
    IF ~Is(p, "running") THEN NoHook
    ELSE Regardless(Push(Use(p, {"entries"}), "data"), Ok) \cup Ok(Off(p, {"running"}))

----------------------------------------------------------------------------
(* The ops tables *)

ScalerOps(h, p, in) ==
    CASE h = "open" -> ScalerOpen(p) [] h = "close" -> ScalerClose(p)
      [] h = "process" -> ScalerProcess(p, in)
      [] h = "set_property" -> ScalerSetProperty(p) [] OTHER -> NoHook

ResamplerOps(h, p, in) ==
    CASE h = "open" -> ResamplerOpen(p) [] h = "close" -> ResamplerClose(p)
      [] h = "process" -> ResamplerProcess(p, in)
      [] h = "set_property" -> ResamplerSetProperty(p) [] OTHER -> NoHook

OverlayOps(h, p, in) ==
    CASE h = "open" -> OverlayOpen(p) [] h = "close" -> OverlayClose(p)
      [] h = "set_property" -> OverlaySetProperty(p)
      [] h = "process" -> OverlayProcess(p, in)
      [] h = "push" /\ in.pad = "text" -> OverlayTextPush(p, in.kind)
      [] OTHER -> NoHook

H26xOps(h, p, in) ==
    CASE h = "open" -> H26xOpen(p) [] h = "close" -> H26xClose(p)
      [] h = "push" -> H26xSinkPush(p, in) [] h = "event" -> H26xEvent(p)
      [] h = "set_property" -> H26xSetProperty(p) [] OTHER -> NoHook

AacParserOps(h, p, in) ==
    CASE h = "push" -> AacParserSinkPush(p, in)
      [] h = "set_property" -> AacParserSetProperty(p) [] OTHER -> NoHook

SubRipOps(h, p, in) ==
    CASE h = "open" -> SubRipOpen(p) [] h = "close" -> SubRipClose(p)
      [] h = "start" -> SubRipStart(p) [] h = "stop" -> SubRipStop(p)
      [] h = "thread" -> SubRipThread(p) [] OTHER -> NoHook
=============================================================================
