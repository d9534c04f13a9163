CONSTANTS
  Producers = {p1, p2}
  Consumers = {c1}
  Buffers <- OneSize
  NoBuf = NoBuf
  NoThread = NoThread
  Async = FALSE
  MaxBuffers = 1
  MaxBytes = 0
  MaxDuration = 0
  Capacity = 2
  PushOps = {"timed", "inf"}
  PopOps = {"inf", "flush"}
  MaxPushes = 1
  MaxPops = 2
SPECIFICATION FairSpec
INVARIANT Bounded
INVARIANT NoLostWakeup
PROPERTY CallsServed
CHECK_DEADLOCK FALSE
