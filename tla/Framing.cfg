SPECIFICATION Spec
CONSTANTS
  MaxPackets = 5
  BodyLen = 3
INVARIANTS
  TypeOK
  DeliveredIsPrefix
PROPERTIES
  CalmPacketsArrive
CHECK_DEADLOCK FALSE
