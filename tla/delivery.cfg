CONSTANTS
  a = a
  b = b
  t1 = t1
  t2 = t2
  None = None
  Aircraft = {a, b}
  Times = {t1, t2}
  MaxPolls = 3
  Response <- Delivered
  Authenticated = FALSE
  TokenLife = 9
  Margin = 2
  GetRetries = 1
  TokenTimeout = 1
  GetTimeout = 0
  SendTimeout = 3
  LogTimeout = 2
  PollInterval = 5
  RevocationBudget = 0
  Backends = {1, 2}
  MaxRetries = 1
  ForwardTimeout = 3
  FaultBudget = 2
SPECIFICATION FairSpec
INVARIANTS
  TypeOK
  SuccessIsAccepted
  OneRowPerSighting
  NoSightingIsDropped
  LeftoversAreGone
PROPERTIES
  ImplementsProxy
  PollsAreWorkedOff
CHECK_DEADLOCK FALSE
