CONSTANTS
    t1 = t1
    t2 = t2
    t3 = t3
    b1 = b1
    b2 = b2
    b3 = b3
    b4 = b4
    Threads = {t1, t2, t3}
    Acquirers = {t1}
    Controllers = {t3}
    Buffers = {b1, b2, b3, b4}
    InitialConfig <- Create13
    Configs <- Grows
    QueueCounts = {1}
    Waits = {"inf"}
    ControlOps = {"set", "size", "destroy"}
    AllocMayFail = FALSE
    DestroyRaces = FALSE
    Low = {}
    High = {}
    MaxRefs = 1
    MaxConfigs = 2
SPECIFICATION FairSpec
PROPERTY DestroyedPoolFreed
PROPERTY AcquireServed
CHECK_DEADLOCK FALSE
