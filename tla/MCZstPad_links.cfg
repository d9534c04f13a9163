SPECIFICATION Spec
CONSTANTS
    Src = {2}
    Sink = {1, 3}
    Threads = {"stream", "app", "other"}
    Calls <- StreamAndApp
    MaxQueued = 1
    Watched = {2}
    MaxEvents = 1
    MaxLinks = 2
    MaxSettings = 1
VIEW WithoutSeen
INVARIANT PeersExact
INVARIANT NoLostUnblock
INVARIANT NoLockCycle
CHECK_DEADLOCK FALSE
