SPECIFICATION ServerSpec
CONSTANTS
  Peers = {p1, p2}
  NoPeer = NoPeer
  MaxSlots = 2
  InitCount = 2
  Calls = {}
INVARIANTS
  ThreadsHaveOwnSlots
CHECK_DEADLOCK FALSE
