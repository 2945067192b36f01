SPECIFICATION Spec
CONSTANTS
  auto = auto
  api = api
  Item = {i1}
  Limit = 2
  Snapshotter <- MCSnapshotter
  MaxWrites = 3
  MaxSnapshots = 2
  MaxCrashes = 1
  MaxFaults = 1
PROPERTIES
  RotationIsCleanup
CHECK_DEADLOCK FALSE
