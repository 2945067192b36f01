CONSTANTS
  Node <- MCNode
  Keeper = {1}
  Grouped = {1}
  Consumer = {c1}
  Request = {r1, r2}
  Limit = {1, 2}
  MaxEntries = 2
  MaxAge = 1
  Skews = {0, 1}
  MaxTime = 1
  MaxAdds = 3
  MaxReads = 2
  MaxSends = 1
  MaxRestarts = 1
SPECIFICATION Spec
SYMMETRY MCSymmetry
INVARIANTS LogsAgree NothingSkipped NothingForgotten
CHECK_DEADLOCK FALSE
