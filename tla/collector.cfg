CONSTANTS
  a = a
  b = b
  t1 = t1
  t2 = t2
  None = None
  Aircraft = {a, b}
  Times = {t1, t2}
  MaxPolls = 4
  Response <- Polled
  Authenticated = TRUE
  TokenLife = 14
  Margin = 6
  GetRetries = 1
  TokenTimeout = 2
  GetTimeout = 3
  SendTimeout = 3
  LogTimeout = 2
  PollInterval = 6
  RevocationBudget = 2
SPECIFICATION CollectorSpec
INVARIANTS
  CollectorTypeOK
  TokenOutlivesRequest
  EveryPollIsReported
PROPERTIES
  RefusalNeedsRevocation
CHECK_DEADLOCK FALSE
