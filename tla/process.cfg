SPECIFICATION FairSpec
CONSTANTS
  stop1 = stop1  stop2 = stop2  check1 = check1  check2 = check2
  Stopper <- TwoStops
  Checker <- TwoChecks
  Daemonizes = TRUE
  DiskFails = TRUE
  MayCrash = TRUE
INVARIANTS OverWhenRecorded FailedStartLeavesNothing WaitedIsRecorded
PROPERTIES NeverBackToRunning EndIsRecorded
CHECK_DEADLOCK FALSE
