SPECIFICATION QueueingSpec
CONSTANTS
  Entries = {"a", "b", "c"}
  Priority <- MCPriority
  Arrived <- MCArrived
  Poppers = {p1, p2}
  Thresholds = {2}
  Promoters = {m1}
  Deadlines = {2}
  MaxPriority = 3
  LevelCap = 1
  None = None
  Consumers = {"c1", "c2"}
  Messages = {"m1", "m2", "m3"}
  PriorityOf <- MCPriorityOf
  LatencyOf <- MCLatencyOf
  NumLevels = 2
  MaxRewards = 2
  Producers = {"p1", "p2"}
  Partitions = {"q1"}
  Plan <- MCPlan
  Target = 2
  MaxFetch = 2
  failFastThreshold = 1
  MaxItems = 2
  MaxErrors = 1
INVARIANTS Conservation CountersExact LatencyOnce ResultAccounts
PROPERTIES  EmptyIsEmpty
