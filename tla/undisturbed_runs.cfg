SPECIFICATION FairSpec
CONSTANTS
  Clients = {}
  Recovery = recovery
  UdpPattern = "after_each_tcp"
  Rounds = 2
  Waits = TRUE
  LiveRouter = TRUE
  Kinds = {"lab", "batch", "direct"}
  NodeFaults = FALSE
  Crashes = TRUE
PROPERTIES
  KeepsLifecycle
  RunEnds
CHECK_DEADLOCK FALSE
