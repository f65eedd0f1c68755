SPECIFICATION Spec
CONSTANTS
  a1 = a1
  a2 = a2
  a3 = a3
  b1 = b1
  Sources <- AddrSet
  Family <- Families
  Flip <- Flipped
  Configured <- One
  Lists <- ListSet
  Datagrams <- PacketSet
  Keyrings <- Rings
  Messages <- MessageSet
  Traffics <- TrafficSet
  KeyIds = {1, 2}
  NonceLife = 2
  NonceMax = 2
  RateCount = 2
  PerSecond = 5
  MaxId = 2
  MaxStrat = 16
  MaxEvents = 3
  MaxNonce = 3
  MaxTime = 2
  MruRows = 2
INVARIANTS CountersBalance AssocIdFresh WritesAreAuthenticated NonceOnce
