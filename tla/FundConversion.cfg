SPECIFICATION Spec
CONSTANTS
  l1 = l1
  p1 = p1
  w1 = w1
  w2 = w2
  Loads = {l1}
  Payments = {p1}
  Workers = {w1, w2}
  MaxAttempts = 4
  MaxRestarts = 1
INVARIANTS
  TypeOK
  PaymentConversionsBounded
  LoadSuccessIsConverted
CHECK_DEADLOCK FALSE
