SPECIFICATION Spec
CONSTANTS
  Batches = {1}
  Clients = {c1, c2}
  Scheduler = scheduler
  Workers = {w1, w2}
  NoOne = NoOne
  MaxAttempts = 2
  Target = 1
  MaxConsecutive = 2
  Scheduled = {}
  Deadlined = {}
  Cooldown = TRUE
  RetryDelay = FALSE
  Crashes = FALSE
  CodeMayChange = FALSE
INVARIANTS
  OneLoopPerBatch
SYMMETRY Symmetry
CHECK_DEADLOCK FALSE
