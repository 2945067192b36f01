CONSTANTS
  Thread = {c1, c2}
  Free = Free
  Topic = {t1}
  Sub = {s1}
  Matches <- MCMatches
  Capacity = 1
  maxHistory = 1
  maxDLQSize = 1
  Limit = 2
  PerMilli = 1
  PeerMessages <- MCPeerMessages
  MaxSubscribes = 2
  MaxPublishes = 2
SPECIFICATION FairSpec
INVARIANTS ClosedIsForgotten Pollable DeliveredInOrder HistoryKeepsNewest
PROPERTIES CallsReturn
CHECK_DEADLOCK FALSE
