SPECIFICATION Spec
CONSTANTS
  Batches = {1, 2}
  Clients = {c1}
  Scheduler = scheduler
  Workers = {w1, w2}
  NoOne = NoOne
  MaxAttempts = 1
  Target = 1
  MaxConsecutive = 1
  Scheduled = {}
  Deadlined = {}
  Cooldown = TRUE
  RetryDelay = TRUE
  Crashes = TRUE
  CodeMayChange = FALSE
INVARIANTS
  LabIsExclusive
  LoopIsReachable
SYMMETRY Symmetry
CHECK_DEADLOCK FALSE
