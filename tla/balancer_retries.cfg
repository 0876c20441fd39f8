CONSTANTS
  NumBackends = 4
  Faulty <- EveryBackend
  Requests = {r1}
  Retryable = {r1}
  MaxRetries = 2
  RecoveriesRequired = 2
  FaultBudget = 4
  NoRequest = NoRequest
  r1 = r1
  r2 = r2
  r3 = r3
SPECIFICATION Spec
INVARIANTS
  TrustIsEarned
CHECK_DEADLOCK FALSE
