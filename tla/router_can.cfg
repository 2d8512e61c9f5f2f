SPECIFICATION FairSpec
CONSTANTS
  m1 = m1  m2 = m2  m3 = m3  m4 = m4  m5 = m5  tick = tick
  chat = chat  thread1 = thread1  sched = sched
  None = None
  Event <- PairOfTasks
  ID <- PairIds
  MessageID <- MCMessages
  Place <- MCPlaces
  Schedule <- MCSchedules
  MaxActive = 1
  RecentLimit = 2
  Threshold = 1
  MaxDeliveries = 2
PROPERTIES LedgerPromise
CHECK_DEADLOCK FALSE
