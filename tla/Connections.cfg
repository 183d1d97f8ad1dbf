SPECIFICATION Spec
CONSTANTS
  Peers = {p1, p2}
  NoPeer = NoPeer
  MaxSlots = 4
INVARIANTS
  TypeOK
  InstanceIsIndex
  FreeIsErased
  GetAgreesWithReset
PROPERTIES
  RefusesOnlyWhenExhausted
  PoolImplemented
CHECK_DEADLOCK FALSE
