SPECIFICATION Spec
CONSTANTS
  None = None
  c1 = c1
  c2 = c2
  Clients = {c1, c2}
  Invocations = {i1, i2}
  Controllers = {k1}
  May <- MayRace
  Sandbox = "workspace-write"
  MaxCrashes = 2
INVARIANTS ContainmentInv AbsenceProofTrue RequestAtMostOnce ResultHasEvidence OutcomeHasEvidence
CHECK_DEADLOCK FALSE
