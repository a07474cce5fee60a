SPECIFICATION Spec
CONSTANTS
  Msgs = {"a", "b", "c"}
  Size <- Sizes
  BatchSize = 2
  MemoryLimits = {0, 2, 4}
  Timers = {"t1"}
  Partitions = {"p0", "p1"}
  MaxQueued = 2
  MaxMessageBytes = 2
  MaxFailures = 1
  Flush = "flush"
  Close = "close"
INVARIANTS NoDuplicates OneOwner BatchesBounded
PROPERTY BufferedIsSent
CHECK_DEADLOCK FALSE
