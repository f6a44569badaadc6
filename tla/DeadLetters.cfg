CONSTANTS
  Executions = {e1}
  NoExecution = NoExecution
  NoTask = "none"
  TaskNames <- Names
  TaskList <- WithBroken
  TaskKind <- KindOfName
  Workers = {w1}
  Permits = {g1, g2}
  NoPermit = NoPermit
  InboxSize = 1
  MaxAttempts = 3
  SilentReads = FALSE
  MaxFaults = 2
  MaxLosses = 1
SPECIFICATION FairSpec
PROPERTIES EveryExecutionEnds ImplementsSequence
CHECK_DEADLOCK FALSE
