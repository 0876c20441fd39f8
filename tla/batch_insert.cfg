CONSTANTS
  t1 = t1
  t2 = t2
  t3 = t3
  t4 = t4
  Txns = {t1, t2, t3, t4}
  Ids = {1, 2, 3, 4}
  IdsOf <- Overlapping
  MaxAborts = 2
SPECIFICATION FairSpec
INVARIANTS
  TypeOK
  NoCircularWait
  CommittedIsComplete
PROPERTIES
  ImplementsAtomicCommit
  EveryBatchCommits
CHECK_DEADLOCK FALSE
