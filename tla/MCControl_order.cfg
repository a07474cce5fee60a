SPECIFICATION Spec
CHECK_DEADLOCK FALSE
CONSTANTS
  Topics <- OneTopic
  Deletable = {}
  Window = 2
  MaxRecords = 1
  MaxPending = 1
INVARIANT ThrottledByOwnLoad
