SPECIFICATION FairSpec
CONSTANTS
  k1 = k1
  k2 = k2
  v1 = v1
  v2 = v2
  c1 = c1
  c2 = c2
  Identities <- MCIdentities
  PublicKeys = {pk1, pk2}
  Secrets = {s1, s2}
  Garbled = Garbled
  NoPacket = NoPacket
  Erased = Erased
  MaxGarbled = 2
  ErrorEndsSession = TRUE
INVARIANTS
  TypeOK
  KeyAgreement
  OnlyTheServerAskedFor
  SequenceKept
PROPERTIES
  HandshakeImplemented
  ErrorsTearDownBoth
  EveryExchangeEnds
CHECK_DEADLOCK FALSE
