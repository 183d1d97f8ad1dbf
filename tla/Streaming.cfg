SPECIFICATION Spec
CONSTANTS
  Rate = 8
  Word = 2
  LenField = 2
  CodeLen = 3
  ReseedAt = 9
  MaxBytes = 20
  MaxOut = 20
  MaxSeeds = 2
INVARIANTS
  TypeOK
  CutsDoNotMatter
  PaddedAsDefined
  StreamInOrder
CHECK_DEADLOCK FALSE
