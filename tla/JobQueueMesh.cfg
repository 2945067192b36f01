SPECIFICATION Spec
CONSTANTS
  Node = {1, 2}
  Suffix = {0}
  Priorities = {0}
  Retries = {1}
  Deadlines = {1}
  ProcessingTimeout = 0
  MaxAge = 0
  InitialBackoff = 1
  MaxBackoff = 2
  MaxSize = 2
  MaxJobs = 2
  MaxNow = 2
  MaxClaims = 2
  MaxReports = 1
  MaxSends = 2
  MaxInFlight = 1
INVARIANTS
  TypeOK
  PendingIsQueued
  FailedIsDeadLettered
  KnownIsGossiped
CHECK_DEADLOCK FALSE
