SPECIFICATION FairSpec
CONSTANTS
  Batches = {1, 2}
  Clients = {}
  Scheduler = scheduler
  Workers = {w1, w2}
  NoOne = NoOne
  MaxAttempts = 2
  Target = 1
  MaxConsecutive = 2
  Scheduled = {1, 2}
  Deadlined = {1}
  Cooldown = TRUE
  RetryDelay = TRUE
  Crashes = FALSE
  CodeMayChange = FALSE
PROPERTIES
  DueBatchesStart
  NightEnds
CHECK_DEADLOCK FALSE
