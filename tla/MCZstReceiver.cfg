SPECIFICATION Spec
CONSTANTS
    Roles = {"h264", "h265", "aac", "pcm", "redundancy", "sdp"}
    Streams <- StreamsOf
    Modulus = 16
    FirstSeq = 13
    History = 4
    Capacity = 4
    Lateness = 2
    MaxCopies <- CopiesOf
INVARIANT Deduplicated
INVARIANT UnflaggedWhole
INVARIANT NeverMixed
INVARIANT ReorderOwns
CHECK_DEADLOCK FALSE
