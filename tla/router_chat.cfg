SPECIFICATION FairSpec
CONSTANTS
  m1 = m1  m2 = m2  m3 = m3  m4 = m4  m5 = m5  tick = tick
  chat = chat  thread1 = thread1  sched = sched
  None = None
  Event <- ChatEvents
  ID <- ChatIds
  MessageID <- MCMessages
  Place <- MCPlaces
  Schedule <- MCSchedules
  MaxActive = 2
  RecentLimit = 4
  Threshold = 3
  MaxDeliveries = 4
INVARIANTS OwnersAreActive OpenerIsOwned
PROPERTIES LedgerSpec HandledOnce
CHECK_DEADLOCK FALSE
