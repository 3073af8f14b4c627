SPECIFICATION FairSpec
CONSTANTS
  Batches = {1}
  Clients = {c1}
  Scheduler = scheduler
  Workers = {w1, w2}
  NoOne = NoOne
  MaxAttempts = 1
  Target = 1
  MaxConsecutive = 1
  Scheduled = {}
  Deadlined = {}
  Cooldown = TRUE
  RetryDelay = TRUE
  Crashes = FALSE
  CodeMayChange = FALSE
PROPERTIES
  StopRequestHonoured
CHECK_DEADLOCK FALSE
