SPECIFICATION FairSpec
CONSTANTS
  Runs = {r1, r2}
  Ids = {i1, i2}
  None = none
  TTL = 6
  MaxInterval = 2
  Latency = 1
  StopDelay = 2
  Unprotected = {r2}
  Faults = TRUE
INVARIANTS
  TypeOK
  TrafficCovered
PROPERTIES
  LossIsLearnt
  OrphansLapse
CHECK_DEADLOCK FALSE
