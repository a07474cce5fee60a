SPECIFICATION DeliverySpec
CONSTANTS
  Requests = {"a"}
  Batch <- OneRequest
  Compressed = {}
  Readers = {}
  Modes <- SyncedModes
  Cutoffs = {}
  ByteLimits = {}
  LevelCap = 2
  MaxFailures = 0
  MaxReopens = 1
  Groups = {"g1", "g2"}
  Workers = {"w1", "w2"}
  Assignments <- TwoWorkers
  MaxFetch <- FetchSizes
  MaxFaults = 1

PROPERTY ResumesAtPersisted
CHECK_DEADLOCK FALSE
