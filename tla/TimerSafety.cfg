CONSTANTS
  Timers = {t1}
  NoTimer = NoTimer
  Durations = {1, 3}
  Second = 2
  Lookahead = 1
  MaxSleep = 2
  BatchSize = 1
  Services = {s1, s2}
  Permits = {g1}
  MaxAttempts = 2
  MaxRequests = 2
  Horizon = 3
  MaxFailures = 1
SPECIFICATION Spec
SYMMETRY ProcessSymmetry
INVARIANTS TypeOK NotTooEarly FiredOnce AcceptedIsKept
