CONSTANTS
  Producers = {p1, p2}
  Consumers = {c1}
  Buffers <- BothSizes
  NoBuf = NoBuf
  NoThread = NoThread
  Async = FALSE
  MaxBuffers = 2
  MaxBytes = 2
  MaxDuration = 0
  Capacity = 2
  PushOps = {"inf"}
  PopOps = {"inf"}
  MaxPushes = 2
  MaxPops = 1
SPECIFICATION Spec
INVARIANT NoStuckPush
SYMMETRY SymThreads
CHECK_DEADLOCK FALSE
