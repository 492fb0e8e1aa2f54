SPECIFICATION Spec
CONSTANTS
  s1 = s1
  s2 = s2
  s3 = s3
  i1 = i1
  i2 = i2
  i3 = i3
  q1 = q1
  c1 = c1
  c2 = c2
  u1 = u1
  u2 = u2
  Requests = {s1, s3}
  Workloads <- Retried
  Contents = {c1, c2}
  ContentOf <- TwoPayloads
  Stamped = {c1}
  Users = {u1, u2}
  UserOf <- TwoUsers
  NoUser = NoUser
  Ingests = {}
  Inquiries = {}
  LlmForced = {}
  RuleOutcomes = {"flag", "block"}
  Cascades <- Severe
  QueryLimit = 1000
  NoRequest = NoRequest
  NoLlm = NoLlm
INVARIANTS
  DuplicateWasProcessed
CHECK_DEADLOCK FALSE
