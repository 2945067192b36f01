SPECIFICATION Spec
CONSTANTS
  Node = {1, 2}
  Suffix = {0}
  Priorities = {0}
  Retries = {1}
  Deadlines = {9}
  ProcessingTimeout = 9
  MaxAge = 9
  InitialBackoff = 1
  MaxBackoff = 2
  MaxSize = 9
  MaxJobs = 1
  MaxNow = 4
  MaxClaims = 9
  MaxReports = 2
  MaxSends = 3
  MaxInFlight = 1
INVARIANTS
  SnapshotIsCurrent
CHECK_DEADLOCK FALSE
