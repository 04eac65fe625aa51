SPECIFICATION Spec
CONSTANTS
  None = None
  c1 = c1
  c2 = c2
  Clients = {c1}
  Invocations = {i1}
  Controllers = {k1}
  May <- MayOne
  Sandbox = "read-only"
  MaxCrashes = 0
INVARIANTS FaultKillsTree
CHECK_DEADLOCK FALSE
