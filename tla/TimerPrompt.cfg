CONSTANTS
  Timers = {t1}
  NoTimer = NoTimer
  Durations = {1, 5}
  Second = 2
  Lookahead = 1
  MaxSleep = 2
  BatchSize = 2
  Services = {s1, s2}
  Permits = {g1}
  MaxAttempts = 2
  MaxRequests = 2
  Horizon = 6
  MaxFailures = 1
SPECIFICATION PromptSpec
INVARIANT Punctual
PROPERTY EveryTimerFires
