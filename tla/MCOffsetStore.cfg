SPECIFICATION FairSpec
CONSTANTS
  Topics = {"t"}
  Groups = {"g1"}
  Committers = {"c1"}
  Serves <- One
  MaxCommits = 3
  MaxRestarts = 1
  MaxFailures = 1
  
PROPERTIES NeverBackwards CloseFlushes EventuallyPersisted
CHECK_DEADLOCK FALSE
