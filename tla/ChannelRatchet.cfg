CONSTANTS
  Torn = Torn
  Unset = Unset
  MaxRequests = 2
  MaxFaults = 0

SPECIFICATION Spec
INVARIANT RatchetsSucceed
CHECK_DEADLOCK FALSE
