SPECIFICATION BrokerSpec
CHECK_DEADLOCK FALSE
CONSTANTS
  Entries = {e1, e2}
  None = None
  Caps = {0, 1, 3}
  MinGrow = 1
  MaxSize = 4
  Names = {"n1"}
  Calls = {"c1", "c2", "c3"}
  MaxQueuedRequests = 2
  PublishCalls = {"c1", "c2", "c3"}
  Sizes = {1, 2}
  BatchLen = 2
  Roles <- MCRoles
  Params = {"CompressionType", "NumIOGoroutines"}
  Levels = 2
  WarmupTicks = 1
  RollbackTicks = 2
  MaxOthers = 1
  MaxLog = 1
  StartConfigs <- MCStartConfigs
  OtherConfigs <- MCOtherConfigs
  EnterTicks = 2
  ExitTicks = 3
  ChannelCap = 1
  ReplayCap = 2
  MinReplay = 1
  TrainEvery = 2
  BatchSize = 2
  CrisisShare = 1
  SyncEvery = 2
  MaxGen = 4
  MaxTicks = 4
  Publishers = {"p1", "p2"}
  Keys = {"", "a", "b"}
  Watched = "b"
  EmptyKey = ""
  NumPartitions = 2
  HashOf <- MCHashOf
  MaxBindings = 2
  Metrics <- MCMetrics
  MaxBegun = 4
INVARIANTS
  RingOK FreeSlotsCleared
  NothingOrphaned RegisteredHasFiles StopStopsAll
  SettersKeepUpdates InflightExact
  SnapshotConsistent RollbackIsFinal BeliefMatchesConfig
   FallbackHysteresis
  BindingsIndexed
PROPERTY ImplementsQueue
