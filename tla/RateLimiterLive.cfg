SPECIFICATION FairSpec
CONSTANTS
  n1 = n1
  n2 = n2
  n3 = n3
  Node <- MCNode2
  Item = {i1}
  Limits <- MCLimits
  MaxLimit = 2
  MaxInFlight = 2
  MaxRestarts = 1
PROPERTIES
  Convergence
