SPECIFICATION Spec
CONSTANTS
  MaxRounds = 2
  MaxAnswers = 2
INVARIANTS
  TypeOK
  WhoMisuses
  GivenBack
  HonestPeerKept
PROPERTIES
  ClosedSessionEnds
  ReturnEndsSession
CHECK_DEADLOCK FALSE
