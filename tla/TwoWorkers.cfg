CONSTANTS
  Executions = {e1}
  NoExecution = NoExecution
  NoTask = "none"
  TaskNames <- Names
  TaskList <- TwoCalls
  TaskKind <- KindOfName
  Workers = {w1, w2}
  Permits = {g1}
  NoPermit = NoPermit
  InboxSize = 1
  MaxAttempts = 3
  SilentReads = TRUE
  MaxFaults = 1
  MaxLosses = 1
SPECIFICATION Spec
INVARIANTS SequentialOrder CompletionSound RecordJustified
CHECK_DEADLOCK FALSE
