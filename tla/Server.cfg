SPECIFICATION ServerFairSpec
CONSTANTS
  Peers = {p1, p2}
  NoPeer = NoPeer
  MaxSlots = 2
  InitCount = 1
  Calls = {}
INVARIANTS
  ServerTypeOK
  ExclusiveUntilGivenBack
PROPERTIES
  LeakedForGood
  EveryJoinAnswered
CHECK_DEADLOCK FALSE
