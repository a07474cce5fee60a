SPECIFICATION TuningSpec
CHECK_DEADLOCK FALSE
CONSTANTS
  Params = {"CompressionType", "NumIOGoroutines"}
  Levels = 2
  WarmupTicks = 1
  RollbackTicks = 2
  StartConfigs <- Created
  OtherConfigs = {}
  MaxOthers = 0
  MaxLog = 1
INVARIANT ReadsBack
