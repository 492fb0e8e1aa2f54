SPECIFICATION Spec
CONSTANTS
  c1 = c1
  c2 = c2
  c3 = c3
  a = a
  b = b
  EU = EU
  OFAC_SDN = OFAC_SDN
  Clients = {c1, c2, c3}
  Lists = {OFAC_SDN, EU}
  Contents = {a, b}
  Script <- Concurrent
INVARIANTS
  TypeOK
  ToldIsStored
  ScreeningNotStale
CHECK_DEADLOCK FALSE
