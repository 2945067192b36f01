SPECIFICATION Spec
CONSTANTS
  Node = {1}
  Suffix = {0}
  Priorities = {0, 1}
  Retries = {2}
  Deadlines = {1, 2}
  ProcessingTimeout = 1
  MaxAge = 1
  InitialBackoff = 1
  MaxBackoff = 2
  MaxSize = 9
  MaxJobs = 2
  MaxNow = 3
  MaxClaims = 9
  MaxReports = 3
  MaxSends = 0
  MaxInFlight = 1
INVARIANTS
  ProcessingIsTracked
CHECK_DEADLOCK FALSE
