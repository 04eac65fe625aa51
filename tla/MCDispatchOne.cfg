SPECIFICATION Spec
CONSTANTS
  None = None
  c1 = c1
  c2 = c2
  Clients = {c1}
  Invocations = {i1, i2}
  Controllers = {k1, k2}
  May <- MayOne
  Sandbox = "read-only"
  MaxCrashes = 2
INVARIANTS TypeOK CandidateReviewable RecoveryRetainsEvidence
PROPERTIES ImplementsContract
CHECK_DEADLOCK FALSE
