CONSTANTS
  i1 = i1
  i2 = i2
  r1 = r1
  r2 = r2
  r3 = r3
  r4 = r4
  r5 = r5
  k1 = k1
  k2 = k2
  NoKey = NoKey
  NoRequest = NoRequest
  Instances = {i1}
  Requests = {r1, r2, r3, r4, r5}
  Keys = {k1, k2}
  InstanceOf <- InstanceOfKinds
  KeyOf <- KeyOfKinds
  LogRequests = {r3, r4}
  Malformed = {r5}
  Invalid = {r4}
  Concurrency = 1
  CrashBudget = 1
  OutageBudget = 2
SPECIFICATION FairSpec
PROPERTIES
  EveryRequestIsAnswered
CHECK_DEADLOCK FALSE
