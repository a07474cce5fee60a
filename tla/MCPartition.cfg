SPECIFICATION Spec
CONSTANTS
  Requests = {"a", "b", "c"}
  Batch <- MixedBatches
  Compressed = {"a"}
  Readers = {r1}
  Modes <- AllModes
  Cutoffs = {2}
  ByteLimits = {2}
  LevelCap = 1
  MaxFailures = 1
  MaxReopens = 1
INVARIANTS ReadBack OneMessagePerOffset  
PROPERTY AcksAreDurable
CHECK_DEADLOCK FALSE
