SPECIFICATION Spec
CONSTANTS
  server = server  app = app  None = None
  Signal <- CancelThenBreak
  Process <- OneProcess
  ProjectScoped <- NoProcess
  Plans <- ExecPlan
  MaxCycles = 2
  Faults <- NoFaults
INVARIANTS CancelIsFinal
CHECK_DEADLOCK FALSE
