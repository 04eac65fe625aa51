SPECIFICATION FairSpec
CONSTANTS
  None = None
  c1 = c1
  c2 = c2
  Clients = {c1}
  Stamps = {t1, t2}
  Outcomes = {o1, o2}
  Targets = {"ABORTED"}
  May <- MayOne
  MaxCrashes = 2
  MaxFaults = 2
INVARIANTS ReadyDisposable RunningHasWorkspace
PROPERTIES RemovesOnlyQuarantined DisposalCompletes
CHECK_DEADLOCK FALSE
