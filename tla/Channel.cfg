CONSTANTS
  Torn = Torn
  Unset = Unset
  MaxRequests = 2
  MaxFaults = 1

SPECIFICATION Spec
INVARIANTS TypeOK KeysAgreeAtRest
PROPERTIES StreamImplemented
CHECK_DEADLOCK FALSE
