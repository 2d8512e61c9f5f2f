SPECIFICATION Spec
CONSTANTS
  alice = alice  bob = bob  run1 = run1  run2 = run2
  None = None
  Operator <- MCOperators
  Run <- MCRuns
  Casts <- Pairs
  Edits <- AllEdits
  MaxVersion = 1
  Faults <- AllFaults
  KeepLast = 1
  MaxAttempts = 2
SYMMETRY Alike
INVARIANTS RunsAreSound RecordIsTrue NoRunLeftRunning
PROPERTIES PausedUntilResumed
CHECK_DEADLOCK FALSE
