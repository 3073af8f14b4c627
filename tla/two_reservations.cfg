SPECIFICATION Spec
CONSTANTS
  Runs = {r1, r2}
  Ids = {i1, i2}
  None = none
  TTL = 6
  MaxInterval = 2
  Latency = 1
  StopDelay = 2
  Unprotected = {}
  Faults = FALSE
INVARIANTS
  ReservedOnce
SYMMETRY Symmetry
CHECK_DEADLOCK FALSE
