CONSTANTS
  j1 = j1
  j2 = j2
  j3 = j3
  r1 = r1
  r2 = r2
  r3 = r3
  Jobs = {j1, j2, j3}
  Ids = {r1, r2, r3}
  IdsOf <- Batches
  InvalidJobs = {}
  UnstorableJobs = {}
  ExtractionJobs = {}
  Workers = {w1, w2}
  MaxJobAttempts = 3
  MaxJobs = 2
  PoolSize = 2
  FaultKinds = {"crash", "shutdown", "transient"}
  FaultBudget = 2
SPECIFICATION FairSpec
INVARIANTS
  NoDoubleProcessing
  CompletedIsDurable
  CreditsNeverOvercount
  NothingForgotten
  PoolNeverExhausted
PROPERTIES
  RestartsLoseNoBatch
CHECK_DEADLOCK FALSE
