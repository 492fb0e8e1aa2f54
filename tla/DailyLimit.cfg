SPECIFICATION Spec
CONSTANTS
  t1 = t1
  t2 = t2
  t3 = t3
  t4 = t4
  t5 = t5
  u1 = u1
  u2 = u2
  EUR = EUR
  CH = CH
  RU = RU
  john = john
  johnson = johnson
  Txns = {t1, t2, t3, t4, t5}
  Workloads <- OneUserAndOthers
  Context <- Transactions
  Users = {u1, u2}
  Countries = {CH, RU}
  RESTRICTED_COUNTRIES = {RU}
  USD = USD
  Currencies = {USD, EUR}
  Names = {john, johnson}
  Inside <- Substrings
  NoValue = NoValue
  SINGLE_TXN_LIMIT_USD = 7
  DAILY_AGGREGATE_LIMIT_USD = 12
  STRUCTURING_THRESHOLD = 6
  VELOCITY_MAX_COUNT = 2
  MIN_KYC_TIER = 3
  Day = 2
  Hour = 1
  MaxClock = 3
  NoLlm = NoLlm
INVARIANTS
  TypeOK
  DailyTotalBounded
  VelocityBounded
CHECK_DEADLOCK FALSE
