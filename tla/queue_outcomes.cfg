CONSTANTS
  j1 = j1
  j2 = j2
  j3 = j3
  r1 = r1
  r2 = r2
  r3 = r3
  Jobs = {j1, j2, j3}
  Ids = {r1, r2, r3}
  IdsOf <- WithRefused
  InvalidJobs = {j3}
  UnstorableJobs = {j2}
  ExtractionJobs = {j3}
  Workers = {w1, w2}
  MaxJobAttempts = 2
  MaxJobs = 2
  PoolSize = 1
  FaultKinds = {"crash", "shutdown", "dbdown", "timeout"}
  FaultBudget = 2
SPECIFICATION FairSpec
INVARIANTS
  TypeOK
  DeadLettersAreTruthful
  GivenUpOnlyWhenExhausted
PROPERTIES
  ImplementsSink
  EveryJobSettles
CHECK_DEADLOCK FALSE
