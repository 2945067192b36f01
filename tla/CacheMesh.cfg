SPECIFICATION Spec
CONSTANTS
  Node = {1, 2}
  Ttls = {0, 1}
  MaxTime = 3
  MaxWrites = 3
  MaxRestarts = 1
  MaxInFlight = 1
INVARIANTS
  TypeOK
  VersionNamesValue
  LastWriteKept
PROPERTIES
  RestartNeverOlder
CHECK_DEADLOCK FALSE
