SPECIFICATION Spec
CONSTANTS
  auto = auto
  api = api
  Item = {i1}
  Limit = 2
  Snapshotter <- MCSnapshotter
  MaxWrites = 3
  MaxSnapshots = 2
  MaxCrashes = 2
  MaxFaults = 1
SYMMETRY MCSymmetry
INVARIANTS
  TypeOK
  Durable
  NoDoubleApply
CHECK_DEADLOCK FALSE
