SPECIFICATION FairSpec
CONSTANTS
  t1 = t1
  t2 = t2
  t3 = t3
  p1 = p1
  Threads = {t1, t2, t3}
  Processes = {p1}
  ProcOf <- ThreeThreads
  NoThread = NoThread
  External = External
  MaxRows = 5
INVARIANTS
  TypeOK
  SeqDense
  IntegrityOk
  ForkFree
  AckedDurable
PROPERTIES
  LockReleased
  ImplementsLedger
CHECK_DEADLOCK FALSE
