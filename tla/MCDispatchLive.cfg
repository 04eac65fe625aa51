SPECIFICATION FairSpec
CONSTANTS
  None = None
  c1 = c1
  c2 = c2
  Clients = {c1, c2}
  Invocations = {i1}
  Controllers = {k1}
  May <- MayRecover
  Sandbox = "read-only"
  MaxCrashes = 2
PROPERTIES RecoveryCompletes CommandReturns
CHECK_DEADLOCK FALSE
