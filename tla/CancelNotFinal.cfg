SPECIFICATION Spec
CONSTANTS
  Executions = {e1}
  NoExecution = NoExecution
  TaskNames <- Names
  NoTask = "none"
  TaskList <- TwoCalls
  TaskKind <- Calls
  Requests = {c1}
  Permits = {p1, p2}
  NoPermit = NoPermit
  MaxAttempts = 3
  MaxFaults = 0
INVARIANTS CancelIsFinal
CHECK_DEADLOCK FALSE
