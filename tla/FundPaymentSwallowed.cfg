SPECIFICATION Spec
CONSTANTS
  l1 = l1
  p1 = p1
  w1 = w1
  w2 = w2
  Loads = {l1}
  Payments = {p1}
  Workers = {w1}
  MaxAttempts = 2
  MaxRestarts = 0
INVARIANTS
  PaymentSuccessIsConverted
CHECK_DEADLOCK FALSE
