SPECIFICATION Spec
CONSTANTS
  Clients = {c1}
  Recovery = recovery
  UdpPattern = "end"
  Rounds = 1
  Waits = TRUE
  LiveRouter = TRUE
  Kinds = {"direct"}
  NodeFaults = FALSE
  Crashes = FALSE
PROPERTIES
  EndIsFinal
SYMMETRY Symmetry
CHECK_DEADLOCK FALSE
