SPECIFICATION FairSpec
CONSTANTS
  server = server  app = app  None = None
  Signal <- AllSignals
  Process <- BothProcesses
  ProjectScoped <- ProjectProcesses
  Plans <- AllPlans
  MaxCycles = 2
  Faults <- FaultKind
INVARIANTS TypeOK CanceledStopsIncomplete NothingLeftRunning ReceivedIsPersisted ReceivedIsConsidered DraftIsSettled
PROPERTIES Closes
CHECK_DEADLOCK FALSE
