SPECIFICATION FairSpec
CONSTANTS
  Batches = {1}
  Clients = {c1}
  Scheduler = scheduler
  Workers = {w1, w2}
  NoOne = NoOne
  MaxAttempts = 2
  Target = 1
  MaxConsecutive = 2
  Scheduled = {}
  Deadlined = {1}
  Cooldown = TRUE
  RetryDelay = TRUE
  Crashes = TRUE
  CodeMayChange = TRUE
INVARIANTS
  TypeOK
  AccountsBalance
  CompletedRunsJudged
PROPERTIES
  OnlyStaleRequestsRevive
  PausedRunsInterrupted
  KeepsLedger
  LoopStopRequestHonoured
CHECK_DEADLOCK FALSE
