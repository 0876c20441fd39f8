CONSTANTS
  NumBackends = 3
  Faulty <- OneInTheMiddle
  Requests = {r1, r2, r3}
  Retryable = {r1, r2}
  MaxRetries = 1
  RecoveriesRequired = 2
  FaultBudget = 3
  NoRequest = NoRequest
  r1 = r1
  r2 = r2
  r3 = r3
SPECIFICATION FairSpec
INVARIANTS
  OneFailureIsMasked
  RotationIsFair
PROPERTIES
  EveryBackendReturns
CHECK_DEADLOCK FALSE
