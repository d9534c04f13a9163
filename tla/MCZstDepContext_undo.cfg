CONSTANTS
    Rx = {"source"}
    Tx = {}
    Pipeline <- OnePipeline
    RingPeriods = 1
    QueuePeriods = 2
    MaxPeriod = 4
    MaxResets = 0
    MaxWorkers = 1
SPECIFICATION Spec
INVARIANT PeriodsInOrder
CHECK_DEADLOCK FALSE
