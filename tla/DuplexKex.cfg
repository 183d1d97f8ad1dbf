SPECIFICATION FairSpec
CONSTANTS
  k1 = k1
  k2 = k2
  v1 = v1
  v2 = v2
  c1 = c1
  c2 = c2
  Identities <- MCIdentities
  ClientKeys = {u1, u2}
  PublicKeys = {pk1, pk2}
  Secrets = {s1, s2}
  Garbled = Garbled
  NoPacket = NoPacket
  Erased = Erased
  MaxGarbled = 1
  ErrorEndsSession = FALSE
INVARIANTS
  TypeOK
  KeyAgreement
  MutualIdentity
PROPERTIES
  HandshakeImplemented
  ErrorsEndTheExchange
  EveryExchangeEnds
CHECK_DEADLOCK FALSE
