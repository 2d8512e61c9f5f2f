SPECIFICATION Spec
CONSTANTS
  stop1 = stop1  stop2 = stop2  check1 = check1  check2 = check2
  Stopper <- OneStop
  Checker <- Nobody
  Daemonizes = TRUE
  DiskFails = FALSE
  MayCrash = FALSE
INVARIANTS StopMeansGone
CHECK_DEADLOCK FALSE
