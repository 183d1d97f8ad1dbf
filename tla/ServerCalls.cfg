SPECIFICATION ServerSpec
CONSTANTS
  Peers = {p1, p2}
  NoPeer = NoPeer
  MaxSlots = 1
  InitCount = 1
  Calls = {"pause", "resume", "quit", "broadcast"}
SYMMETRY PeerSymmetry
CONSTRAINT OneCallAtATime
INVARIANTS
  AtMostOneLateJoin
CHECK_DEADLOCK FALSE
