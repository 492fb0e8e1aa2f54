SPECIFICATION FairSpec
CONSTANTS
  s1 = s1
  s2 = s2
  s3 = s3
  i1 = i1
  i2 = i2
  i3 = i3
  q1 = q1
  c1 = c1
  c2 = c2
  u1 = u1
  u2 = u2
  Requests = {s1, s2, i1, i2, i3, q1}
  Workloads <- Mixed
  Contents = {c1, c2}
  ContentOf <- TwoPayloads
  Stamped = {c1}
  Users = {u1, u2}
  UserOf <- TwoUsers
  NoUser = NoUser
  Ingests = {i1, i2, i3}
  Inquiries = {q1}
  LlmForced = {}
  RuleOutcomes = {"flag"}
  Cascades <- Unsure
  QueryLimit = 4
  NoRequest = NoRequest
  NoLlm = NoLlm
INVARIANTS
  TypeOK
  EvidenceOrder
  ProcessedIsEvidenced
  SarGrounded
  DuplicateNamesOriginal
  ReplayIsDuplicate
PROPERTIES
  EveryRequestEnds
CHECK_DEADLOCK FALSE
