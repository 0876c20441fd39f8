CONSTANTS
  NumBackends = 2
  Faulty <- EveryBackend
  Requests = {r1, r2, r3}
  Retryable = {r1}
  MaxRetries = 1
  RecoveriesRequired = 2
  FaultBudget = 3
  NoRequest = NoRequest
  r1 = r1
  r2 = r2
  r3 = r3
SPECIFICATION Spec
SYMMETRY RequestSymmetry
INVARIANTS
  TypeOK
  NoUnsafeRepeat
  FaultsBoundErrors
PROPERTY ImplementsProxy
CHECK_DEADLOCK FALSE
