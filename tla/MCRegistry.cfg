SPECIFICATION FairSpec
CONSTANTS
  Peers = {p1, p2, p3}
  Numbers = {4, 12}
  Listen = 8
  MAX_PENDING = 2
  MaxData = 1
  Faults = {"accept", "select"}
CHECK_DEADLOCK FALSE
INVARIANTS TypeOK NeverBlocks CountMatches TableHolds
PROPERTIES GoneIsForgotten WaitingIsAccepted
