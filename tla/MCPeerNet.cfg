SPECIFICATION FairSpec
CONSTANTS
  p1 = p1
  p2 = p2
  p3 = p3
  Peers <- MCPeers
  Knows <- MCKnows
  Nobody = Nobody
  Gone = Gone
  GoneAsked = GoneAsked
  Backlog = 2
  Silent = {p2}
INVARIANTS TypeOK Placed NoCircularWait
PROPERTIES WaitingIsServed
CHECK_DEADLOCK FALSE
