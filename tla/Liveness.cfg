CONSTANTS
  Executions = {e1}
  NoExecution = NoExecution
  NoTask = "none"
  TaskNames <- Names
  TaskList <- CallThenWait
  TaskKind <- KindOfName
  Workers = {w1}
  Permits = {g1, g2}
  NoPermit = NoPermit
  InboxSize = 1
  MaxAttempts = 3
  SilentReads = FALSE
  MaxFaults = 2
  MaxLosses = 0
SPECIFICATION FairSpec
PROPERTY ImplementsExecution
CHECK_DEADLOCK FALSE
