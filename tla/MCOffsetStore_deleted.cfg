SPECIFICATION Spec
CONSTANTS
  Topics = {"t"}
  Groups = {"g1"}
  Committers = {"c1"}
  Serves <- One
  MaxCommits = 2
  MaxRestarts = 1
  MaxFailures = 0
INVARIANT DeletedStaysDeleted
CHECK_DEADLOCK FALSE
