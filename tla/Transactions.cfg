SPECIFICATION Spec
CONSTANTS
  Node = {1, 2}
  Client = {c1, c2}
  Txn = {1}
  Key = {k1, k2}
  PerMilli = 2
  MaxTxns = 1
  Timeout = 0
  Skews = {0, 1}
  MaxTime = 3
  MaxCalls = 4
  MaxRestarts = 1
  MaxSends = 2
SYMMETRY MCSymmetry
INVARIANTS
  TypeOK
  CommittedIsApplied
  AllOrNothing
  OneOutcome
CHECK_DEADLOCK FALSE
