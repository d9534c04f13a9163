---------------------------- MODULE ZstNetwork ----------------------------
(***************************************************************************)
(* The hooks of the elements in front of sockets and of the streaming      *)
(* protocols of libavformat and libsrt.  ZST_TIMEOUT, "not_now", is the    *)
(* outcome again; how long a reconnection backs off is left open.          *)
(***************************************************************************)
EXTENDS ZstDevices

----------------------------------------------------------------------------
(* net_source.c.  The property protocol is two settings here: server       *)
(* (listen rather than connect) and udp; the default is a TCP client.      *)

NetSrcCloseConnection(p) == Free(p, {"conn_fd"})
NetSrcCloseListen(p)     == Free(p, {"listen_fd"})

NetSrcCreateListenSocket(p) == AllOrNothing(NetSrcCloseListen(p), {"listen_fd"})

NetSrcCreateUdpListenerSocket(p) == AllOrNothing(NetSrcCloseConnection(p), {"conn_fd"})

NetSrcConnectSocket(p) ==
    LET q == NetSrcCloseConnection(p) IN Fail(q) \cup Again(q) \cup Ok(Get(q, {"conn_fd"}))

NetSrcAcceptConnection(p) ==
    IF ~Has(p, "listen_fd") THEN Fail(p)
    ELSE IF Has(p, "conn_fd") THEN Ok(p)
    ELSE Fail(p) \cup Again(p) \cup Ok(Get(p, {"conn_fd"}))

(* A client that failed to connect waits for next_reconnect_time_ms. *)
NetSrcEnsureConnection(p) ==
    IF Has(p, "conn_fd") THEN Ok(p)
    ELSE IF Is(p, "server")
         THEN IF Is(p, "udp") THEN NetSrcCreateUdpListenerSocket(p)
              ELSE NetSrcAcceptConnection(p)
    ELSE Again(p) \cup NetSrcConnectSocket(p)

(* A socket that cannot be made leaves the pool behind. *)
NetSrcOpen(p) ==
    Then(AllOrNothing(Null(p, {"conn_fd", "listen_fd"}), {"pool"}),
         LAMBDA q : IF ~Is(q, "server") THEN Ok(q)
                    ELSE IF Is(q, "udp") THEN NetSrcCreateUdpListenerSocket(q)
                    ELSE NetSrcCreateListenSocket(q))

NetSrcClose(p) == Ok(Free(NetSrcCloseListen(NetSrcCloseConnection(p)), {"pool"}))
NetSrcStart(p) == Ok(p)
NetSrcStop(p)  == Ok(NetSrcCloseConnection(p))

(* Only the end of a stream socket is the end of the stream. *)
NetSrcProcess(p, in) ==
    Then(NetSrcEnsureConnection(p),
         LAMBDA q : LET r == Use(q, {"conn_fd", "pool"})
                        c == NetSrcCloseConnection(r)
                    IN  IF ~Has(q, "conn_fd") THEN Fail(q) ELSE
                        Fail(r) \cup Again(r) \cup Again(c) \cup Out(r, "data") \cup
                        (IF Is(p, "udp") THEN {} ELSE Eof(c)))

NetSrcSetProperty(p) == Fail(p) \cup Ok(On(p, {"server"})) \cup Ok(On(p, {"udp"}))

----------------------------------------------------------------------------
(* net_sink.c *)

NetSinkCloseConnection(p) == Free(p, {"conn_fd"})
NetSinkCloseListen(p)     == Free(p, {"listen_fd"})

NetSinkCreateListenSocket(p) == AllOrNothing(NetSinkCloseListen(p), {"listen_fd"})

NetSinkConnectSocket(p) ==
    LET q == NetSinkCloseConnection(p) IN Fail(q) \cup Again(q) \cup Ok(Get(q, {"conn_fd"}))

NetSinkAcceptConnection(p) ==
    IF ~Has(p, "listen_fd") THEN Fail(p)
    ELSE IF Has(p, "conn_fd") THEN Ok(p)
    ELSE Fail(p) \cup Again(p) \cup Ok(Get(p, {"conn_fd"}))

NetSinkEnsureConnection(p) ==
    IF Has(p, "conn_fd") THEN Ok(p)
    ELSE IF Is(p, "server") THEN NetSinkAcceptConnection(p)
    ELSE Again(p) \cup NetSinkConnectSocket(p)

(* The pacer is made with the first datagram; a late one is dropped. *)
NetSinkPaceUdpBuffer(p) ==
    IF ~Is(p, "timestamp_pacing") THEN Ok(p)
    ELSE LET q == IF Has(p, "pacer") THEN p ELSE Get(p, {"pacer"})
         IN  Ok(q) \cup Again(q) \cup Fail(q)

(* Mutant of the next: open() puts back the defaults. *)
NetSinkOpen_Defaults(p) == Ok(Off(Null(p, {"conn_fd", "listen_fd"}), {"udp", "server"}))

NetSinkOpen(p) ==
    LET q == Off(Null(p, {"conn_fd", "listen_fd"}), {"client_registered"})
    IN  IF Is(q, "udp") THEN AllOrNothing(q, {"conn_fd"})
        ELSE IF Is(q, "server") THEN NetSinkCreateListenSocket(q)
        ELSE Ok(q)

NetSinkClose(p) ==
    Ok(Free(NetSinkCloseListen(NetSinkCloseConnection(p)), {"pacer"}))
NetSinkStart(p) == Ok(Off(p, {"client_registered"}))
NetSinkStop(p)  == Ok(NetSinkCloseConnection(p))

(* The server of datagrams sends to whoever wrote to it first.  stop()     *)
(* closes its socket, and only open() makes it again.                      *)
NetSinkUdpServer(p) ==
    IF ~Has(p, "conn_fd") THEN Fail(p)
    ELSE (IF Is(p, "client_registered") THEN {} ELSE Again(p)) \cup
         UNION {IF r.ret = "again" THEN Ok(r.p)
                ELSE IF r.ret # "ok" THEN {r}
                ELSE Ok(r.p) \cup Again(r.p) \cup Again(Off(r.p, {"client_registered"})) :
                    r \in NetSinkPaceUdpBuffer(On(p, {"client_registered"}))}

(* Mutant of the next: every datagram is sent from a socket of its own. *)
NetSinkUdpClient_NewSocket(p) ==
    Fail(p) \cup
    UNION {IF r.ret = "again" THEN Ok(r.p)
           ELSE IF r.ret # "ok" THEN {r} ELSE Ok(r.p) \cup Again(r.p) :
               r \in NetSinkPaceUdpBuffer(Get(p, {"conn_fd"}))}

NetSinkUdpClient(p) ==
    Fail(p) \cup
    UNION {IF r.ret = "again" THEN Ok(r.p)
           ELSE IF r.ret # "ok" THEN {r} ELSE Ok(r.p) \cup Again(r.p) :
               r \in NetSinkPaceUdpBuffer(IF Has(p, "conn_fd") THEN p
                                          ELSE Get(p, {"conn_fd"}))}

(* A write that is cut short is not completed: the rest is lost. *)
NetSinkProcess(p, in) ==
    Ok(NetSinkCloseConnection(p)) \cup
    (IF Is(p, "udp")
     THEN IF Is(p, "server") THEN NetSinkUdpServer(p) ELSE NetSinkUdpClient(p)
     ELSE Then(NetSinkEnsureConnection(p),
               LAMBDA q : LET r == Use(q, {"conn_fd"})
                              c == NetSinkCloseConnection(r)
                          IN  IF ~Has(q, "conn_fd") THEN Fail(q) ELSE
                              Ok(r) \cup Again(r) \cup Again(c) \cup Fail(c)))

NetSinkSetProperty(p) ==
    Fail(p) \cup UNION {Ok(On(p, {f})) : f \in {"server", "udp", "timestamp_pacing"}}

----------------------------------------------------------------------------
(* srt_source.c.  In the mode listener a peer is accepted; otherwise a     *)
(* connection is begun, and connecting says that it is not there yet.      *)

SrtSrcOpen(p) ==
    LET q == Off(Null(p, {"listen_sock", "conn_sock"}), {"connecting"})
    IN  AllOrNothing(q, {"srt", "pool"} \cup
                        (IF Is(p, "listener") THEN {"listen_sock"} ELSE {}))

SrtSrcClose(p) == Ok(Free(p, {"conn_sock", "listen_sock", "pool", "srt"}))
SrtSrcStart(p) == Ok(Off(p, {"connecting"}))
SrtSrcStop(p)  == Ok(Off(Free(p, {"conn_sock"}), {"connecting"}))

(* Mutant of the next: a connection that broke while it was made is closed *)
(* and still counts as one being made.                                     *)
SrtSrcEnsureConnection_StaysConnecting(p) ==
    IF Has(p, "conn_sock") /\ ~Is(p, "connecting") THEN Ok(p)
    ELSE IF Is(p, "listener")
         THEN Fail(p) \cup Again(p) \cup
              (IF Has(p, "listen_sock") THEN Ok(Get(p, {"conn_sock"})) ELSE {})
    ELSE IF ~Is(p, "connecting")
         THEN Fail(p) \cup Again(p) \cup Again(On(Get(p, {"conn_sock"}), {"connecting"}))
    ELSE LET q == Use(p, {"conn_sock"})
         IN  Ok(Off(q, {"connecting"})) \cup Again(q) \cup Again(Free(q, {"conn_sock"}))

SrtSrcEnsureConnection(p) ==
    IF Has(p, "conn_sock") /\ ~Is(p, "connecting") THEN Ok(p)
    ELSE IF Is(p, "listener")
         THEN Fail(p) \cup Again(p) \cup
              (IF Has(p, "listen_sock") THEN Ok(Get(p, {"conn_sock"})) ELSE {})
    ELSE IF ~Is(p, "connecting")
         THEN Fail(p) \cup Again(p) \cup Again(On(Get(p, {"conn_sock"}), {"connecting"}))
    ELSE LET q == Use(p, {"conn_sock"})
         IN  Ok(Off(q, {"connecting"})) \cup Again(q) \cup
             Again(Off(Free(q, {"conn_sock"}), {"connecting"}))

SrtSrcProcess(p, in) ==
    Then(SrtSrcEnsureConnection(p),
         LAMBDA q : LET r == Use(q, {"conn_sock", "pool"})
                        c == Free(r, {"conn_sock"})
                    IN  Fail(r) \cup Again(r) \cup Again(c) \cup Eof(c) \cup Out(r, "data"))

SrtSrcSetProperty(p) == Fail(p) \cup Ok(On(p, {"listener"}))

(* srt_sink.c: the same connection.  A buffer without data closes it and   *)
(* leaves connecting as it was.                                            *)
SrtSinkOpen(p) ==
    LET q == Off(Null(p, {"listen_sock", "conn_sock"}), {"connecting"})
    IN  AllOrNothing(q, {"srt"} \cup
                        (IF Is(p, "listener") THEN {"listen_sock"} ELSE {}))

SrtSinkClose(p) == Ok(Free(p, {"conn_sock", "listen_sock", "srt"}))
SrtSinkStart(p) == Ok(Off(p, {"connecting"}))
SrtSinkStop(p)  == Ok(Off(Free(p, {"conn_sock"}), {"connecting"}))

SrtSinkEnsureConnection(p) ==
    IF Has(p, "conn_sock") /\ ~Is(p, "connecting") THEN Ok(p)
    ELSE IF Is(p, "listener")
         THEN Fail(p) \cup Again(p) \cup
              (IF Has(p, "listen_sock") THEN Ok(Get(p, {"conn_sock"})) ELSE {})
    ELSE IF ~Is(p, "connecting")
         THEN Fail(p) \cup Again(p) \cup Again(On(Get(p, {"conn_sock"}), {"connecting"}))
    ELSE LET q == Use(p, {"conn_sock"})
         IN  Ok(Off(q, {"connecting"})) \cup Again(q) \cup
             Again(Off(Free(q, {"conn_sock"}), {"connecting"}))

SrtSinkProcess(p, in) ==
    Ok(Free(p, {"conn_sock"})) \cup
    Then(SrtSinkEnsureConnection(p),
         LAMBDA q : LET r == Use(q, {"conn_sock"})
                    IN  Ok(r) \cup Again(r) \cup Again(Free(r, {"conn_sock"})))

SrtSinkSetProperty(p) == Fail(p) \cup Ok(On(p, {"listener"}))

----------------------------------------------------------------------------
(* http_source.c *)

HttpConnect(p) ==
    IF ~Is(p, "url") THEN Fail(p)
    ELSE AllOrNothing(Free(p, {"pb"}), {"pb"})

HttpOpen(p) ==
    Then(HttpConnect(p),
         LAMBDA q : Ok(Get(q, {"pool"})) \cup Fail(Free(q, {"pb"})))

HttpClose(p) == Ok(Free(p, {"pb", "pool"}))

(* A read that fails is tried again on a new connection, from bytes_read   *)
(* on; a connection that cannot be made again ends the source.             *)
HttpProcess(p, in) ==
    IF ~Has(p, "pb") THEN Fail(p)
    ELSE LET q == Use(p, {"pool"})
         IN  Eof(q) \cup Fail(q) \cup Out(q, "data") \cup
             (IF Is(q, "reconnect")
              THEN Then(HttpConnect(q), LAMBDA r : Out(r, "data") \cup Eof(r) \cup Fail(r))
              ELSE {})

HttpSetProperty(p) == Fail(p) \cup Ok(On(p, {"url"})) \cup Ok(On(p, {"reconnect"}))

----------------------------------------------------------------------------
(* rtmp_source.c.  A thread reads packets and pushes them.  When it ends   *)
(* by itself running is cleared, and stop() then does not join it.         *)

RtmpSrcCloseInput(p) == Free(p, {"fc"})

RtmpSrcConnect(p) ==
    IF ~Is(p, "url") THEN Fail(p) ELSE AllOrNothing(RtmpSrcCloseInput(p), {"fc"})

RtmpSrcEnded(p) ==
    Regardless(Push(p, "eos"), LAMBDA q : Ok(Off(q, {"running"})))

RtmpSrcRead(p) ==
    LET c == RtmpSrcCloseInput(p)
    IN  Regardless(Push(p, "data"), Ok) \cup
        (IF Is(p, "reconnect") THEN Ok(c) ELSE RtmpSrcEnded(c))

RtmpSrcThread(p) ==
    IF ~Has(p, "thread") \/ ~Is(p, "running") THEN NoHook
    ELSE IF Has(p, "fc") THEN RtmpSrcRead(p)
    ELSE RtmpSrcEnded(p) \cup
         (IF Is(p, "reconnect")
          THEN UNION {IF r.ret = "ok" THEN RtmpSrcRead(r.p) ELSE Ok(r.p) :
                          r \in RtmpSrcConnect(p)}
          ELSE {})

RtmpSrcOpen(p) ==
    IF ~Is(p, "url") THEN Fail(p)
    ELSE LET q == IF Has(p, "lock") THEN p ELSE Get(p, {"lock"})
         IN  UNION {IF r.ret = "ok" \/ Is(p, "reconnect") THEN Ok(r.p)
                    ELSE Fail(Free(r.p, {"lock"})) : r \in RtmpSrcConnect(q)}

RtmpSrcClose(p) == Ok(Free(RtmpSrcCloseInput(p), {"lock"}))

(* The result of pthread_create is not looked at. *)
RtmpSrcStart(p) == LET q == On(p, {"running"}) IN Ok(Get(q, {"thread"})) \cup Ok(q)

RtmpSrcStop(p) ==
    IF ~Is(p, "running") THEN Ok(p)
    ELSE Regardless(RtmpSrcEnded(p), LAMBDA q : Ok(Free(Use(q, {"thread"}), {"thread"})))

RtmpSrcSetProperty(p) == Fail(p) \cup Ok(On(p, {"url"})) \cup Ok(On(p, {"reconnect"}))

----------------------------------------------------------------------------
(* rtmp_sink.c.  The header is written when the connection is made, and    *)
(* again after each reconnection, which also forgets the ends of streams   *)
(* seen so far.                                                            *)

RtmpPads == {"video", "audio"}

RtmpSinkConnectAndWriteHeader(p) ==
    LET q == Off(Free(p, {"fc"}), {"header_written"})
    IN  Fail(q) \cup
        Ok(On(Off(Get(q, {"fc"}), PadFlags(RtmpPads, "eos")), {"header_written"}))

RtmpSinkEnsureConnected(p) ==
    IF Is(p, "header_written") THEN Ok(p)
    ELSE IF ~Is(p, "running") THEN Fail(p)
    ELSE RtmpSinkConnectAndWriteHeader(p)

RtmpSinkWriteLocked(p) ==
    LET lost(q) == Off(Free(q, {"fc"}), {"header_written"})
    IN  IF ~Is(p, "running") THEN Fail(p)
        ELSE Then(RtmpSinkEnsureConnected(p),
                  LAMBDA q : Ok(Use(q, {"fc"})) \cup Fail(q) \cup Fail(lost(q)) \cup
                             (IF Is(q, "reconnect")
                              THEN RtmpSinkEnsureConnected(lost(q)) ELSE {}))

RtmpSinkCheckEos(p) ==
    IF \A m \in RtmpPads : Is(p, PadFlag(m, "linked")) => Is(p, PadFlag(m, "eos"))
    THEN Send(Off(p, {"header_written"}), <<"eos">>) ELSE p

RtmpSinkVideoPush(p, kind) ==
    IF kind = "eos" THEN Ok(RtmpSinkCheckEos(On(p, {"video_eos"})))
    ELSE UNION {Then(RtmpSinkEnsureConnected(q), RtmpSinkWriteLocked) :
                    q \in IF Is(p, "header_written") \/ Has(p, "video_extradata") THEN {p}
                          ELSE {p, Get(p, {"video_extradata"})}}

RtmpSinkAudioPush(p, kind) ==
    IF kind = "eos" THEN Ok(RtmpSinkCheckEos(On(p, {"audio_eos"})))
    ELSE IF ~Is(p, "header_written") /\ Is(p, "video_linked") /\ ~Has(p, "video_extradata")
         THEN Ok(p)
    ELSE Then(RtmpSinkEnsureConnected(p), RtmpSinkWriteLocked)

RtmpSinkOpen(p)  == Ok(Get(p, {"lock"}))
RtmpSinkClose(p) == Ok(Free(p, {"lock"}))

RtmpSinkStart(p) ==
    IF ~Is(p, "url") THEN Fail(p)
    ELSE Ok(On(Off(p, {"header_written"} \cup PadFlags(RtmpPads, "eos") \cup
                      PadFlags(RtmpPads, "linked")),
               {"running"} \cup PadFlags(p.links, "linked")))

RtmpSinkStop(p) ==
    Ok(Off(Free(Use(p, {"lock"}), {"fc", "video_extradata"}),
           {"running", "header_written"}))

RtmpSinkSetProperty(p) == Fail(p) \cup Ok(On(p, {"url"})) \cup Ok(On(p, {"reconnect"}))

----------------------------------------------------------------------------
(* The ops tables *)

NetSrcOps(h, p, in) ==
    CASE h = "open" -> NetSrcOpen(p) [] h = "close" -> NetSrcClose(p)
      [] h = "start" -> NetSrcStart(p) [] h = "stop" -> NetSrcStop(p)
      [] h = "process" -> NetSrcProcess(p, in)
      [] h = "set_property" -> NetSrcSetProperty(p) [] OTHER -> NoHook

NetSinkOps(h, p, in) ==
    CASE h = "open" -> NetSinkOpen(p) [] h = "close" -> NetSinkClose(p)
      [] h = "start" -> NetSinkStart(p) [] h = "stop" -> NetSinkStop(p)
      [] h = "process" -> NetSinkProcess(p, in)
      [] h = "set_property" -> NetSinkSetProperty(p) [] OTHER -> NoHook

SrtSrcOps(h, p, in) ==
    CASE h = "open" -> SrtSrcOpen(p) [] h = "close" -> SrtSrcClose(p)
      [] h = "start" -> SrtSrcStart(p) [] h = "stop" -> SrtSrcStop(p)
      [] h = "process" -> SrtSrcProcess(p, in)
      [] h = "set_property" -> SrtSrcSetProperty(p) [] OTHER -> NoHook

SrtSinkOps(h, p, in) ==
    CASE h = "open" -> SrtSinkOpen(p) [] h = "close" -> SrtSinkClose(p)
      [] h = "start" -> SrtSinkStart(p) [] h = "stop" -> SrtSinkStop(p)
      [] h = "process" -> SrtSinkProcess(p, in)
      [] h = "set_property" -> SrtSinkSetProperty(p) [] OTHER -> NoHook

HttpOps(h, p, in) ==
    CASE h = "open" -> HttpOpen(p) [] h = "close" -> HttpClose(p)
      [] h = "process" -> HttpProcess(p, in)
      [] h = "set_property" -> HttpSetProperty(p) [] OTHER -> NoHook

RtmpSrcOps(h, p, in) ==
    CASE h = "open" -> RtmpSrcOpen(p) [] h = "close" -> RtmpSrcClose(p)
      [] h = "start" -> RtmpSrcStart(p) [] h = "stop" -> RtmpSrcStop(p)
      [] h = "thread" -> RtmpSrcThread(p)
      [] h = "set_property" -> RtmpSrcSetProperty(p) [] OTHER -> NoHook

RtmpSinkOps(h, p, in) ==
    CASE h = "open" -> RtmpSinkOpen(p) [] h = "close" -> RtmpSinkClose(p)
      [] h = "start" -> RtmpSinkStart(p) [] h = "stop" -> RtmpSinkStop(p)
      [] h = "push" -> IF in.pad = "video" THEN RtmpSinkVideoPush(p, in.kind)
                     ELSE RtmpSinkAudioPush(p, in.kind)
      [] h = "set_property" -> RtmpSinkSetProperty(p) [] OTHER -> NoHook
===========================================================================
