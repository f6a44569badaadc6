SPECIFICATION FairSpec
CONSTANTS
  Executions = {e1}
  NoExecution = NoExecution
  TaskNames <- Names
  NoTask = "none"
  TaskList <- TwoCalls
  TaskKind <- Calls
  Requests = {c1}
  Permits = {p1, p2}
  NoPermit = NoPermit
  MaxAttempts = 3
  MaxFaults = 3
INVARIANTS TypeOK DoneIsOver StartKept HiddenMeansCancelled RestMeansRecorded
PROPERTIES OutcomeKept EventuallyOver
CHECK_DEADLOCK FALSE
