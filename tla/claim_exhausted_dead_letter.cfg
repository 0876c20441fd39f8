CONSTANTS
  j1 = j1
  j2 = j2
  j3 = j3
  r1 = r1
  r2 = r2
  r3 = r3
  Jobs = {j1}
  Ids = {r1, r2, r3}
  IdsOf <- WithRefused
  InvalidJobs = {}
  UnstorableJobs = {}
  ExtractionJobs = {}
  Workers = {w1, w2}
  MaxJobAttempts = 2
  MaxJobs = 1
  PoolSize = 1
  FaultKinds = {"transient"}
  FaultBudget = 2
SPECIFICATION Spec
INVARIANTS
  ExhaustedJobsAreDeadLettered
CHECK_DEADLOCK FALSE
