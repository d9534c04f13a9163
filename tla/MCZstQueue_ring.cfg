CONSTANTS
  Producers = {p1, p2}
  Consumers = {c1}
  Buffers <- BothSizes
  NoBuf = NoBuf
  NoThread = NoThread
  Async = FALSE
  MaxBuffers = 2
  MaxBytes = 2
  MaxDuration = 2
  Capacity = 2
  PushOps = {"inf"}
  PopOps = {"timed", "inf"}
  MaxPushes = 2
  MaxPops = 2
SPECIFICATION Spec
INVARIANT TypeOK
INVARIANT ExclusiveSlot
INVARIANT FirstInFirstOut
INVARIANT BytesExact
INVARIANT NeverStranded
PROPERTY ImplementsFifo
SYMMETRY SymThreads
CHECK_DEADLOCK FALSE
