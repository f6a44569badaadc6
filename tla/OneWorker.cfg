CONSTANTS
  Executions = {e1}
  NoExecution = NoExecution
  NoTask = "none"
  TaskNames <- Names
  TaskList <- WaitBetween
  TaskKind <- KindOfName
  Workers = {w1}
  Permits = {g1, g2}
  NoPermit = NoPermit
  InboxSize = 1
  MaxAttempts = 3
  SilentReads = FALSE
  MaxFaults = 2
  MaxLosses = 0
SPECIFICATION Spec
SYMMETRY PermitSymmetry
INVARIANTS TypeOK SingleRequest FailureStops TriggerIrrelevant RestMeansDone RestMeansRecorded
CHECK_DEADLOCK FALSE
