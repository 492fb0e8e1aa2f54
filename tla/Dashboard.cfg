SPECIFICATION Spec
CONSTANTS
  r1 = r1
  r2 = r2
  r3 = r3
  k1 = k1
  k2 = k2
  Requests = {r1, r2, r3}
  Inputs <- Messages
  Keys = {k1, k2}
  Like <- LikeKeys
  NoRequest = NoRequest
SYMMETRY Symmetry
INVARIANTS
  TypeOK
  BalanceBracket
  ReplayIsIdempotent
  OneActiveCard
  FreshOnce
PROPERTIES
  ImplementsDepositLedger
CHECK_DEADLOCK FALSE
