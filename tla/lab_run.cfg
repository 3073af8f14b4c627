SPECIFICATION FairSpec
CONSTANTS
  Clients = {c1}
  Recovery = recovery
  UdpPattern = "end"
  Rounds = 1
  Waits = TRUE
  LiveRouter = TRUE
  Kinds = {"lab"}
  NodeFaults = TRUE
  Crashes = TRUE
INVARIANTS
  TypeOK
  HandedBack
PROPERTIES
  CancelStops
  LostStops
  NodeComesFree
CHECK_DEADLOCK FALSE
