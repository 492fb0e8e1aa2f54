SPECIFICATION IssuanceSpec
CONSTANTS
  u1 = u1
  u2 = u2
  q1 = q1
  q2 = q2
  Users = {u1, u2}
  Requests = {q1, q2}
  UserOf <- OneUserEach
  MaxTier = 4
  NoTier = NoTier
INVARIANTS
  IssuedWasApproved
  RefusedForAReason
CHECK_DEADLOCK FALSE
