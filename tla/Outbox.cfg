SPECIFICATION OutboxFairSpec
CONSTANTS
  ok = ok
  fail = fail
  k1 = k1
  Recipients = {ok, fail}
  Failing = {fail}
  RunKeys = {k1}
  NoKey = NoKey
  NoReport = NoReport
  Batch = 2
  MAX_ATTEMPTS = 4
  TickLength = 2
  MaxQuiet = 8
  MaxEmails = 3
  MaxRestarts = 1
INVARIANTS
  OutboxTypeOK
  KeyRunsOnce
PROPERTIES
  AttemptsOrderly
  SettlesWhileCalled
CHECK_DEADLOCK FALSE
