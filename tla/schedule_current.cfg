SPECIFICATION Spec
CONSTANTS
  alice = alice  bob = bob  run1 = run1  run2 = run2
  None = None
  Operator <- MCOperators
  Run <- MCRuns
  Casts <- Operators
  Edits <- OneShot
  MaxVersion = 1
  Faults <- NoFaults
  KeepLast = 1
  MaxAttempts = 2
PROPERTIES CurrentIsScheduled
CHECK_DEADLOCK FALSE
