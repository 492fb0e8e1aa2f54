SPECIFICATION Spec
CONSTANTS
  s1 = s1
  s2 = s2
  p1 = p1
  Sweeps = {s1, s2}
  Reports = {p1}
  Recorded = {"transaction_blocked", "human_override"}
  Histories <- Logs
  Period = 1
  Limit = 4
  BiasMinimum = 2
  MaxEntries = 5
  MaxClock = 2
  Requests = Requests
  NoEntry = NoEntry
SYMMETRY Symmetry
INVARIANTS
  TypeOK
  WindowComplete
  VerdictsAgree
  NextSweepVerifies
  SatisfiedMeansClean
CHECK_DEADLOCK FALSE
