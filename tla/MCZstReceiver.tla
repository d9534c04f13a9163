--------------------------- MODULE MCZstReceiver ---------------------------
(* Small instances of ZstReceiver for TLC. *)
EXTENDS ZstReceiver

\* Parameter sets and a fragmented slice; NAL units in pieces; an access unit
\* whose last NAL unit is empty, so that it has no marker.
Video == {<< <<1, 2>>, <<2, 1>>, <<1>> >>, << <<3>>, <<1, 0>>, <<2>> >>}

\* The demuxers do not look into a packet: only the number matters.  With six
\* a gap can clear the history and leave a packet of the gap to come late; it
\* also wraps the reorder buffer.
Six == {<< <<6>> >>}

StreamsOf == [r \in Roles |-> IF r \in Codecs THEN Video ELSE Six]

\* The copies the redundancy demuxer meets are those of its second link.
CopiesOf == [r \in Roles |-> IF r = "redundancy" THEN 0 ELSE 1]
=============================================================================
