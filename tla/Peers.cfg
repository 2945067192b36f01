CONSTANTS
  a = a
  b = b
  c = c
  Node = {a, b, c}
  Join <- MCJoin
  Watcher = {a}
  None = None
  failureThreshold = 2
  MaxStarts = 4
SPECIFICATION FairSpec
PROPERTIES HealthFollows GossipGetsThrough
CHECK_DEADLOCK FALSE
