CONSTANTS
  Executions = {e1, e2}
  NoExecution = NoExecution
  NoTask = "none"
  TaskNames <- Names
  TaskList <- TwoCalls
  TaskKind <- KindOfName
  Workers = {w1}
  Permits = {g1, g2}
  NoPermit = NoPermit
  InboxSize = 1
  MaxAttempts = 3
  SilentReads = FALSE
  MaxFaults = 0
  MaxLosses = 0
SPECIFICATION Spec
SYMMETRY PermitSymmetry
PROPERTY ImplementsSequence
PROPERTY OutcomeIsFinal
CHECK_DEADLOCK FALSE
