SPECIFICATION Spec
CONSTANTS
  t1 = t1  t2 = t2  t3 = t3  c1 = c1  c2 = c2  c3 = c3
  NoRow = NoRow
  Task <- MCTasks
  Call <- MCCalls
  Request <- MCRequests
  Seed <- MCSeed
  Event <- MCEvents
  Casts <- MCCasts
  Faults <- AllFaults
  Limit = 1
  MinFetch = 0
  History = 1
  Recent_ = 1
  Trigger = 1
  Batch = 3
  MaxTime = 3
  Starter = {"w1", "w2"}
  MaxTrouble = 2
INVARIANTS MemoriesAgree ResetForgets UpgradesAreSafe
PROPERTIES ContextIsWhole OnboardedOnce ForgetIsScoped SearchFindsNearest
CHECK_DEADLOCK FALSE
