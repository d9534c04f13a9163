CONSTANTS
  Producers = {p1, p2}
  Consumers = {c1, c2}
  Buffers <- OneSize
  NoBuf = NoBuf
  NoThread = NoThread
  Async = FALSE
  MaxBuffers = 2
  MaxBytes = 0
  MaxDuration = 0
  Capacity = 2
  PushOps = {"inf"}
  PopOps = {"inf"}
  MaxPushes = 1
  MaxPops = 1
SPECIFICATION Spec
INVARIANT NoStuckPop
SYMMETRY SymThreads
CHECK_DEADLOCK FALSE
