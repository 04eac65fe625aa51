SPECIFICATION Spec
CONSTANTS
  None = None
  c1 = c1
  c2 = c2
  Clients = {c1, c2}
  Stamps = {t1, t2}
  Outcomes = {o1, o2}
  Targets = {"ABORTED"}
  May <- MayBoth
  MaxCrashes = 0
  MaxFaults = 1
CONSTRAINT SecondsDiffer
INVARIANTS FailedPreparationLeavesNothing DisposalLeavesNothing
CHECK_DEADLOCK FALSE
