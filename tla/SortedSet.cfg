CONSTANTS
  MAX_LEVEL = 2
  Node <- MCNode
  Member <- MCMember
  Score <- MCScore
  Limit = {2}
  MaxEvents = 4
  Keeper <- MCKeeper
  MaxSends = 1
  MaxRestores = 1
SPECIFICATION Spec
INVARIANTS TypeOK QueriesAgree RanksArePositions TiesAreEqual LastWriteHolds
CHECK_DEADLOCK FALSE
