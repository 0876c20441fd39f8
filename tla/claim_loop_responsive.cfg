CONSTANTS
  i1 = i1
  i2 = i2
  r1 = r1
  r2 = r2
  r3 = r3
  r4 = r4
  r5 = r5
  k1 = k1
  k2 = k2
  NoKey = NoKey
  NoRequest = NoRequest
  Instances = {i1}
  Requests = {r1, r2}
  Keys = {k1}
  InstanceOf <- InstanceOfTwo
  KeyOf <- KeyOfTwo
  LogRequests = {}
  Malformed = {}
  Invalid = {}
  Concurrency = 2
  CrashBudget = 0
  OutageBudget = 0
SPECIFICATION FairSpec
PROPERTIES
  LoopKeepsTurning
CHECK_DEADLOCK FALSE
