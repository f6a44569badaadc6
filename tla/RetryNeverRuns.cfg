SPECIFICATION FairSpec
CONSTANTS
  Tenants = {"t1"}
  Processes = {p1}
  MaxTroubles = 0
  Statuses = {401}
  MaxTries = 3
  Permits = {g1}
  Tasks <- DelayedOnly
PROPERTIES RetryHappens
CHECK_DEADLOCK FALSE
