CONSTANTS
    t1 = t1
    t2 = t2
    t3 = t3
    b1 = b1
    b2 = b2
    b3 = b3
    Threads = {t1, t2, t3}
    Acquirers = {t1, t2}
    Controllers = {t3}
    Buffers = {b1, b2, b3}
    InitialConfig <- Create12
    Configs <- Resizes
    QueueCounts = {}
    Waits = {"inf", "timed", "nonblock"}
    ControlOps = {"set", "prefill", "drain", "destroy"}
    AllocMayFail = TRUE
    DestroyRaces = TRUE
    Low = {0}
    High = {2}
    MaxRefs = 2
    MaxConfigs = 2
SPECIFICATION Spec
SYMMETRY Interchangeable
INVARIANT PoolAccounted
INVARIANT PoolOutlivesBuffers
CHECK_DEADLOCK FALSE
