CONSTANTS
  i1 = i1
  i2 = i2
  r1 = r1
  r2 = r2
  r3 = r3
  r4 = r4
  r5 = r5
  k1 = k1
  k2 = k2
  NoKey = NoKey
  NoRequest = NoRequest
  Instances = {i1, i2}
  Requests = {r1, r2, r3, r4, r5}
  Keys = {k1, k2}
  InstanceOf <- InstanceOfRetries
  KeyOf <- KeyOfRetries
  LogRequests = {}
  Malformed = {}
  Invalid = {r4}
  Concurrency = 3
  CrashBudget = 1
  OutageBudget = 1
SPECIFICATION Spec
INVARIANTS
  TypeOK
  AnswersAreTrue
  AnsweredKeyIsReplayed
  OnePoolPerInstance
CHECK_DEADLOCK FALSE
