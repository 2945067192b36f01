SPECIFICATION FairSpec
CONSTANTS
  Node = {1, 2}
  Ttls = {0}
  MaxTime = 3
  MaxWrites = 2
  MaxRestarts = 1
  MaxInFlight = 1
PROPERTIES
  Convergence
CHECK_DEADLOCK FALSE
