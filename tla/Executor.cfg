SPECIFICATION FairSpec
CONSTANTS
  Tenants = {"t1", "t2"}
  Processes = {p1}
  MaxTroubles = 1
  Statuses = {401}
  MaxTries = 3
  Permits = {g1, g2}
  Tasks <- MCTasks
INVARIANTS TypeOK NoSilentDrop AnsweredOnce LimitRespected CaughtOnly
PROPERTIES FreshIsKept EveryRequestAnswered
CHECK_DEADLOCK FALSE
