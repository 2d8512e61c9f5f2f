SPECIFICATION Spec
CONSTANTS
  m1 = m1  m2 = m2  m3 = m3  m4 = m4  m5 = m5  tick = tick
  chat = chat  thread1 = thread1  sched = sched
  None = None
  Event <- ControlEvents
  ID <- ControlIds
  MessageID <- MCMessages
  Place <- MCPlaces
  Schedule <- MCSchedules
  MaxActive = 2
  RecentLimit = 1
  Threshold = 2
  MaxDeliveries = 5
INVARIANTS TypeOK RunningBounded OneTaskPerSchedule
CHECK_DEADLOCK FALSE
