SPECIFICATION FairSpec
CONSTANTS
    Rx = {"source"}
    Tx = {"sink"}
    Pipeline <- OnePipeline
    RingPeriods = 1
    QueuePeriods = 1
    MaxPeriod = 3
    MaxResets = 1
    MaxWorkers = 2
INVARIANT WorkerShared
INVARIANT InOrder
PROPERTY JoinsReturn
PROPERTY Reconnected
CHECK_DEADLOCK FALSE
