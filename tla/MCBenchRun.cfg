SPECIFICATION Spec
CONSTANTS
  None = None
  k1 = k1
  Models = 2
  v1 = v1
  v2 = v2
  Inputs = {v1, v2}
  Key <- MCKey
  Retries = 0
  Names = {n1}
  MaxRuns = 2
  MaxMishaps = 1
INVARIANTS ConversationTrue OneInput CheckpointLast
  SnapshotStands RefusedHoldsNothing ServerStopped

CHECK_DEADLOCK FALSE
SYMMETRY SymmetricInputs
