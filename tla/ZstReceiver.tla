----------------------------- MODULE ZstReceiver -----------------------------
(***************************************************************************)
(* What the receiving elements make of RTP packets that the network loses, *)
(* repeats and reorders.  rtp_payloader.c cuts access units into packets;  *)
(* one of three receivers takes them off the wire: rtp_depayloader.c,      *)
(* which puts access units together again, st2110_redundancy_demux.c,      *)
(* which merges two links that carry the same packets, and the reorder     *)
(* buffer of sdp_demuxer.c.  What these elements own is in ZstRtp.         *)
(*                                                                         *)
(* Sequence numbers have Modulus values, 2^16 in the code; a packet is     *)
(* known by its place in the stream, its payload by the same number.       *)
(***************************************************************************)
EXTENDS Integers, Sequences, FiniteSets, SequencesExt

CONSTANTS
    Roles,      \* receivers to consider: a codec of rtpdepay, "redundancy", "sdp"
    Streams,    \* each one's streams: access units, each its NAL units' packets
    Modulus,    \* number of sequence numbers
    FirstSeq,   \* rtp_payloader's first sequence number
    History,    \* entries of seen_history, 4096 in the code
    Capacity,   \* slots of the reorder buffer
    Lateness,   \* max_lateness_ms, which reorder_insert takes as a packet count
    MaxCopies   \* for each, how many extra copies of packets the network makes

Codecs == {"h264", "h265", "aac", "pcm"}

ASSUME ReceiverConstants ==
    /\ Roles \subseteq Codecs \cup {"redundancy", "sdp"}
    /\ Modulus \in Nat /\ History \in Nat /\ Capacity \in Nat \ {0}
    /\ 4 * History <= Modulus /\ History >= 2 /\ 2 * Capacity <= Modulus
    /\ Modulus % History = 0 /\ Modulus % Capacity = 0   \* all powers of two
    /\ FirstSeq \in 0 .. Modulus - 1 /\ Lateness \in Nat /\ MaxCopies \in [Roles -> Nat]
    /\ \A r \in Roles : \A s \in Streams[r] : s \in Seq(Seq(Nat))

VARIABLES
    role,      \* which receiver is looked at
    packets,   \* what rtp_payloader made of the stream
    wire,      \* the packets a link can still deliver; a lost one just stays
    copies,    \* extra copies made so far
    depay,     \* rtp_depayloader_t
    demux,     \* st2110_redundancy_demux_t, and the pushes after its unlock
    reorder    \* rtp_reorder_t of one track

vars == <<role, packets, wire, copies, depay, demux, reorder>>

Primary == 1
Backup  == 2
Links   == {Primary, Backup}
None    == 0

Seqno(n) == (FirstSeq + n - 1) % Modulus

\* (int16_t)(a - b)
Diff(a, b) ==
    LET d == (a - b) % Modulus IN IF 2 * d >= Modulus THEN d - Modulus ELSE d

----------------------------------------------------------------------------
(* rtp_payloader.c                                                         *)

\* Access unit number a: a NAL unit is sent whole or in fragments, the last
\* packet of the last NAL unit carries the marker.  A NAL unit that is empty
\* once its trailing zeros are gone makes no packet: when it is the last one,
\* no packet has the marker.
Packetize(a, nals) ==
    FlattenSeq([j \in DOMAIN nals |->
        [i \in 1 .. nals[j] |->
            [au |-> a, ts |-> 10 * a, start |-> i = 1,
             marker |-> j = Len(nals) /\ i = nals[j]]]])

\* A PCM buffer is cut without regard to NAL units, and every packet has the
\* timestamp of its own first sample.
PacketizePcm(a, nals) ==
    LET whole == Packetize(a, nals)
    IN  [i \in DOMAIN whole |->
            [whole[i] EXCEPT !.ts = 10 * a + i, !.start = TRUE, !.marker = i = Len(whole)]]

\* An AAC buffer that does not fit one packet is refused.
PacketizeAac(a, nals) == <<[au |-> a, ts |-> 10 * a, start |-> TRUE, marker |-> TRUE]>>

PacketsOf(stream, codec) ==
    FlattenSeq([a \in DOMAIN stream |->
        IF codec = "pcm" THEN PacketizePcm(a, stream[a])
        ELSE IF codec = "aac" THEN PacketizeAac(a, stream[a])
        ELSE Packetize(a, stream[a])])

----------------------------------------------------------------------------
(* rtp_depayloader.c: one access unit at a time is put together in au_data *)
(* .out is the last buffer pushed.  .last and .first, a history, are the   *)
(* last packet that came and the one the receiver joined in with: the      *)
(* first that came, or a later one for whose data there was no memory.     *)

Nothing == [data |-> <<>>, flagged |-> FALSE, eos |-> FALSE]

DepayOpen ==
    [have |-> FALSE, next |-> 0, pending |-> FALSE, active |-> FALSE, ts |-> 0,
     data |-> <<>>, out |-> Nothing, first |-> None, last |-> None, ended |-> FALSE]

ResetAu(d) == [d EXCEPT !.active = FALSE, !.ts = 0, !.data = <<>>]

BeginAu(d, ts) ==
    IF d.active /\ d.ts = ts THEN d
    ELSE [ResetAu(d) EXCEPT !.active = TRUE, !.ts = ts]

Append1(d, n) == [d EXCEPT !.data = Append(@, n)]

\* H.264 alone remembers a gap, until the next access unit went out.
PushAu(d, eos) ==
    IF ~d.active \/ d.data = <<>> THEN ResetAu(d)
    ELSE [d EXCEPT !.active = FALSE, !.data = <<>>,
                   !.out = [data |-> d.data, eos |-> eos,
                            flagged |-> role = "h264" /\ d.pending],
                   !.pending = IF role = "h264" THEN FALSE ELSE @]

AtMarker(d, p) == IF p.marker THEN PushAu(d, FALSE) ELSE d

\* A single NAL unit, an aggregate and the first fragment begin an access
\* unit; another fragment needs one of its own timestamp.
DepayNal(d, n) ==
    LET p == packets[n] IN
    IF p.start THEN AtMarker(Append1(BeginAu(d, p.ts), n), p)
    ELSE IF d.active /\ d.ts = p.ts THEN AtMarker(Append1(d, n), p)
    ELSE d

DepayPcm(d, n) == AtMarker(Append1(BeginAu(d, packets[n].ts), n), packets[n])

DepayAac(d, n) == [d EXCEPT !.out = [Nothing EXCEPT !.data = <<n>>]]

SeqChecked_ForgetsGap(d, n) ==
    LET e == IF d.have /\ Seqno(n) # d.next THEN ResetAu(d) ELSE d
    IN  [e EXCEPT !.have = TRUE, !.next = (Seqno(n) + 1) % Modulus,
                  !.first = IF d.have THEN @ ELSE n, !.last = n]

SeqChecked_KeepsAu(d, n) ==
    [d EXCEPT !.have = TRUE, !.next = (Seqno(n) + 1) % Modulus,
              !.pending = @ \/ (d.have /\ Seqno(n) # d.next /\ role = "h264"),
              !.first = IF d.have THEN @ ELSE n, !.last = n]

\* A sequence number that is not the expected one, ahead or behind, throws
\* the access unit at hand away; the packet itself is used.
SeqChecked(d, n) ==
    LET gap == d.have /\ Seqno(n) # d.next
        e == IF gap THEN ResetAu(d) ELSE d
    IN  [e EXCEPT !.have = TRUE, !.next = (Seqno(n) + 1) % Modulus,
                  !.pending = @ \/ (gap /\ role = "h264"),
                  !.first = IF d.have THEN @ ELSE n, !.last = n]

DepayPush(d, n) ==
    CASE role \in {"h264", "h265"} -> DepayNal(SeqChecked(d, n), n)
      [] role = "aac" -> DepayAac(SeqChecked(d, n), n)
      [] role = "pcm" -> DepayPcm(SeqChecked(d, n), n)

\* au_data cannot grow: the access unit is thrown away, and no flag will tell.
Appends(d, n) ==
    role \in {"h264", "h265"} => packets[n].start \/ (d.active /\ d.ts = packets[n].ts)

NoData(d, n) == [ResetAu(d) EXCEPT !.first = n, !.out = Nothing]

\* zst_buffer_create fails: what was to be pushed is lost.
NoBuffer(d) == [d EXCEPT !.out = Nothing]

----------------------------------------------------------------------------
(* st2110_redundancy_demux.c.  .handing are the packets a link's thread    *)
(* has accepted and, the lock released, is about to push; .passed counts   *)
(* the pushes, .refused holds the packets taken for duplicates, and .top,  *)
(* a history, is the packet of highest_seq.                                *)

DemuxOpen ==
    [initialized |-> FALSE, highest |-> 0, top |-> None, seen |-> {}, current |-> Primary,
     quiet |-> FALSE, event |-> "none", handing |-> [l \in Links |-> None],
     passed |-> [n \in DOMAIN packets |-> 0], refused |-> {}]

Entry(seq) == seq % History

\* highest_seq + 1 up to, not including, seq
Skipped(m, seq) == {Entry((m.highest + i) % Modulus) : i \in 1 .. Diff(seq, m.highest) - 1}

Advance_KeepsEntries(m, n) ==
    [m EXCEPT !.highest = Seqno(n), !.top = n, !.seen = @ \cup {Entry(Seqno(n))}]

Advance(m, n) ==
    [m EXCEPT !.highest = Seqno(n), !.top = n,
              !.seen = {Entry(Seqno(n))} \cup
                       IF Diff(Seqno(n), m.highest) >= History THEN {}
                       ELSE @ \ Skipped(m, Seqno(n))]

\* The primary link is taken to have failed when no packet of it was accepted
\* for failover_detection_ms, and to be back with the next one accepted.
LinkSwitch(m, l) ==
    IF l = Primary
    THEN [m EXCEPT !.quiet = FALSE, !.current = Primary,
                   !.event = IF m.current # Primary THEN "recovery" ELSE @]
    ELSE IF m.current = Primary /\ m.quiet
         THEN [m EXCEPT !.current = Backup, !.event = "failover"]
         ELSE m

Accept(m, l, n) == [LinkSwitch(m, l) EXCEPT !.handing[l] = n]

DemuxPush(m, l, n) ==
    LET seq == Seqno(n)
        diff == Diff(seq, m.highest)
    IN  IF ~m.initialized
        THEN Accept([m EXCEPT !.initialized = TRUE, !.highest = seq, !.top = n,
                              !.seen = {Entry(seq)}], l, n)
        ELSE IF diff > 0 THEN Accept(Advance(m, n), l, n)
        ELSE IF 2 * diff <= -History THEN m
        ELSE IF Entry(seq) \in m.seen THEN [m EXCEPT !.refused = @ \cup {n}]
        ELSE Accept([m EXCEPT !.seen = @ \cup {Entry(seq)}], l, n)

----------------------------------------------------------------------------
(* The reorder buffer of sdp_demuxer.c.  .passed counts what was handed to *)
(* the depacketizer, .arrived what was inserted.                           *)

Empty == None

ReorderInit ==
    [slots |-> [i \in 0 .. Capacity - 1 |-> Empty], next |-> 0, count |-> 0,
     linked |-> FALSE, passed |-> [n \in DOMAIN packets |-> 0],
     arrived |-> [n \in DOMAIN packets |-> 0]]

Slot(seq) == seq % Capacity

\* What becomes of a packet that finds its slot taken by another one: it has
\* the same payload and passes for a duplicate, or replaces it, unless there is
\* no memory: then the slot is empty.
Insertions == {"equal", "copied", "no_memory"}

Store_CountsTwice(r, n, how) ==
    LET i == Slot(Seqno(n)) IN
    IF r.slots[i] = n THEN r ELSE [r EXCEPT !.slots[i] = n, !.count = @ + 1]

Store(r, n, how) ==
    LET old  == r.slots[Slot(Seqno(n))]
        left == IF old = Empty THEN r.count ELSE r.count - 1
    IN  IF old = n \/ (old # Empty /\ how = "equal") THEN r
        ELSE IF how = "no_memory"
             THEN [r EXCEPT !.slots[Slot(Seqno(n))] = Empty, !.count = left]
        ELSE [r EXCEPT !.slots[Slot(Seqno(n))] = n, !.count = left + 1]

\* An empty buffer starts again at whatever packet comes.
ReorderInsert(r, n, how) ==
    LET next == IF r.count = 0 THEN Seqno(n) ELSE r.next
        diff == Diff(Seqno(n), next)
        here == [r EXCEPT !.next = next, !.arrived[n] = @ + 1]
    IN  IF diff < -Lateness \/ diff > Capacity - 1 THEN here ELSE Store(here, n, how)

Run(r, k) == [i \in 1 .. k |-> r.slots[Slot(r.next + i - 1)]]

\* sdp_demuxer_process_track: the contiguous packets from next_seq on, a gap
\* ends it; nothing as long as the track's source pad has no peer.
ReorderDrain(r) ==
    IF ~r.linked THEN r
    ELSE LET filled == {k \in 0 .. Capacity : Empty \notin Range(Run(r, k))}
             k == CHOOSE j \in filled : \A i \in filled : i <= j
             gone == Range(Run(r, k))
         IN  [r EXCEPT !.slots = [i \in DOMAIN @ |-> IF @[i] \in gone THEN Empty ELSE @[i]],
                       !.count = @ - k, !.next = (@ + k) % Modulus,
                       !.passed = [n \in DOMAIN @ |-> @[n] + IF n \in gone THEN 1 ELSE 0]]

----------------------------------------------------------------------------
Init ==
    /\ role \in Roles
    /\ \E s \in Streams[role] : packets = PacketsOf(s, role)
    /\ wire = [l \in Links |->
                  IF l = Primary \/ role = "redundancy" THEN DOMAIN packets ELSE {}]
    /\ copies = 0
    /\ depay = DepayOpen /\ demux = DemuxOpen /\ reorder = ReorderInit

\* The network delivers in any order, may deliver again, and need not deliver.
Deliver(l, n) ==
    /\ n \in wire[l]
    /\ \/ wire' = [wire EXCEPT ![l] = @ \ {n}] /\ UNCHANGED copies
       \/ copies < MaxCopies[role] /\ copies' = copies + 1 /\ UNCHANGED wire
    /\ UNCHANGED <<role, packets>>

DepayReceive(n) ==
    /\ role \in Codecs /\ ~depay.ended
    /\ Deliver(Primary, n)
    /\ depay' = DepayPush(depay, n)
    /\ UNCHANGED <<demux, reorder>>

DepayNoData(n) ==
    /\ role \in Codecs /\ ~depay.ended
    /\ Deliver(Primary, n)
    /\ Appends(SeqChecked(depay, n), n)
    /\ depay' = NoData(SeqChecked(depay, n), n)
    /\ UNCHANGED <<demux, reorder>>

DepayNoBuffer(n) ==
    /\ role \in Codecs /\ ~depay.ended
    /\ Deliver(Primary, n)
    /\ DepayPush(depay, n).out # depay.out
    /\ depay' = NoBuffer(DepayPush(depay, n))
    /\ UNCHANGED <<demux, reorder>>

DepayTakes(n) == DepayReceive(n) \/ DepayNoData(n) \/ DepayNoBuffer(n)

\* The access unit at hand goes out as it is.
DepayEos ==
    /\ role \in Codecs /\ ~depay.ended
    /\ \E d \in {PushAu(depay, TRUE), NoBuffer(PushAu(depay, TRUE))} :
          depay' = [d EXCEPT !.ended = TRUE]
    /\ UNCHANGED <<role, packets, wire, copies, demux, reorder>>

DemuxReceive(l, n) ==
    /\ role = "redundancy" /\ demux.handing[l] = None
    /\ Deliver(l, n)
    /\ demux' = DemuxPush(demux, l, n)
    /\ UNCHANGED <<depay, reorder>>

\* zst_pad_push, after the unlock: the other link's thread may come first.
DemuxHandOn(l) ==
    /\ demux.handing[l] # None
    /\ demux' = [demux EXCEPT !.handing[l] = None, !.passed[demux.handing[l]] = @ + 1]
    /\ UNCHANGED <<role, packets, wire, copies, depay, reorder>>

FailoverDetectionElapses ==
    /\ role = "redundancy" /\ ~demux.quiet
    /\ demux' = [demux EXCEPT !.quiet = TRUE]
    /\ UNCHANGED <<role, packets, wire, copies, depay, reorder>>

\* sdp_sink_push of one datagram
SdpReceive(n) ==
    /\ role = "sdp"
    /\ Deliver(Primary, n)
    /\ \E how \in Insertions : reorder' = ReorderDrain(ReorderInsert(reorder, n, how))
    /\ UNCHANGED <<depay, demux>>

\* sdp_sink_push of a buffer into which upstream put two packets
SdpReceiveBatch(m, n) ==
    /\ role = "sdp" /\ {m, n} \subseteq wire[Primary] /\ m # n
    /\ wire' = [wire EXCEPT ![Primary] = @ \ {m, n}]
    /\ \E a, b \in Insertions :
          reorder' = ReorderDrain(ReorderInsert(ReorderInsert(reorder, m, a), n, b))
    /\ UNCHANGED <<role, packets, copies, depay, demux>>

\* The application links the source pad it learnt of.
SdpPadLinked ==
    /\ role = "sdp" /\ ~reorder.linked
    /\ reorder' = [reorder EXCEPT !.linked = TRUE]
    /\ UNCHANGED <<role, packets, wire, copies, depay, demux>>

Next ==
    \/ DepayEos
    \/ FailoverDetectionElapses
    \/ SdpPadLinked
    \/ \E l \in Links : DemuxHandOn(l)
    \/ \E n \in DOMAIN packets :
          \/ DepayTakes(n)
          \/ SdpReceive(n)
          \/ \E l \in Links : DemuxReceive(l, n)
          \/ \E m \in DOMAIN packets : SdpReceiveBatch(m, n)

Spec == Init /\ [][Next]_vars

----------------------------------------------------------------------------
(* Properties                                                              *)

Packet == [au : Nat, ts : Nat, start : BOOLEAN, marker : BOOLEAN]
Chunk  == [data : Seq(DOMAIN packets), flagged : BOOLEAN, eos : BOOLEAN]

\* Every field keeps the type of its C declaration, and an access unit in
\* progress has at least one packet.
TypeOK ==
    /\ role \in Roles /\ packets \in Seq(Packet)
    /\ wire \in [Links -> SUBSET DOMAIN packets] /\ copies \in 0 .. MaxCopies[role]
    /\ depay.next \in 0 .. Modulus - 1 /\ depay.out \in Chunk
    /\ depay.data \in Seq(DOMAIN packets) /\ (depay.active <=> depay.data # <<>>)
    /\ demux.highest \in 0 .. Modulus - 1 /\ demux.seen \subseteq 0 .. History - 1
    /\ demux.current \in Links /\ demux.event \in {"none", "failover", "recovery"}
    /\ reorder.next \in 0 .. Modulus - 1 /\ reorder.count \in 0 .. Capacity

Handing(n) == Cardinality({l \in Links : demux.handing[l] = n})

\* The redundancy demuxer never hands a packet on twice, in whatever order the
\* two links and their threads bring its copies, across the wrap of the
\* sequence number and of the history (st2110_redundancy_demux.c:77-99).
PassedOnce == \A n \in DOMAIN packets : demux.passed[n] + Handing(n) <= 1

\* A packet is refused as a duplicate only when a copy of it went through: an
\* entry of the history that an older packet left behind never stands for a
\* packet that was not seen (st2110_redundancy_demux.c:80-86).
RefusedWasPassed == \A n \in demux.refused : demux.passed[n] + Handing(n) = 1

\* The packets of one access unit
UnitOf(n) == {i \in DOMAIN packets : packets[i].au = packets[n].au}

\* The buffer holds the packets of ps, each once and in the stream's order.
HoldsExactly(data, ps) ==
    ToSet(data) = ps /\ \A i \in DOMAIN data : data[i] = data[1] + i - 1

\* An H.264 access unit that leaves the depayloader without the DROP flag is
\* whole, whatever the network did: a decoder may rely on the flag.  Three are
\* not: the one the receiver joined in, one it joined in again because there
\* had been no memory for a packet (nothing marks that, rtp_depayloader.c:316,
\* 350, 358), and the one cut off by EOS (rtp_depayloader.c:260-264, 567-574).
UnflaggedWhole ==
    LET out  == depay.out
        unit == UnitOf(out.data[1])
    IN  role = "h264" /\ out.data # <<>> /\ ~out.flagged =>
            \/ HoldsExactly(out.data, unit)
            \/ /\ depay.first \in unit
               /\ HoldsExactly(out.data, {i \in unit : i >= out.data[1]})
            \/ out.eos

\* A buffer never holds packets of two access units, nor a packet twice, nor
\* packets out of order, whatever was lost or repeated between them
\* (rtp_depayloader.c:131-140, 352-355).
NeverMixed ==
    \A i \in DOMAIN depay.out.data :
        i > 1 => /\ depay.out.data[i] = depay.out.data[i - 1] + 1
                 /\ packets[depay.out.data[i]].au = packets[depay.out.data[1]].au

Stored(n) == Cardinality({i \in DOMAIN reorder.slots : reorder.slots[i] = n})

\* The reorder buffer's count, on which the restart of next_seq and the end of
\* the drain depend, is the number of its occupied slots through late packets,
\* duplicates and collisions, and a packet is handed on at most as often as it
\* arrived (sdp_demuxer.c:229-254, 271-273).
ReorderOwns ==
    /\ reorder.count = Cardinality({i \in DOMAIN reorder.slots : reorder.slots[i] # Empty})
    /\ \A n \in DOMAIN packets : reorder.passed[n] + Stored(n) <= reorder.arrived[n]

\* Of the copies of a packet that come in time, exactly one goes through, on
\* two links, in any order, across both wraps: PassedOnce and
\* RefusedWasPassed, with the types (st2110_redundancy_demux.c:69-136).
Deduplicated == TypeOK /\ PassedOnce /\ RefusedWasPassed

\* What RTP presumes of a network: a packet is less than half a cycle of
\* sequence numbers away from the newest one (for the depayloader, which keeps
\* no highest, from the one before).  Beyond that the difference of two
\* sequence numbers no longer tells which packet is meant.
Near(n, m) == 2 * (n - m) < Modulus /\ 2 * (m - n) < Modulus

InTime ==
    \A n \in DOMAIN packets :
        /\ DepayTakes(n) /\ depay.have => Near(n, depay.last)
        /\ \A l \in Links : DemuxReceive(l, n) /\ demux.initialized => Near(n, demux.top)

Timely == [][InTime]_vars
=============================================================================
