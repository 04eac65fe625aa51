SPECIFICATION Spec
CONSTANTS
  None = None
  MaxRecoveries = 2
  MaxMishaps = 1
  MaxAtWork = 2
INVARIANTS RecoveredMeansStopped RecoveryResumes BackupHoldsInstant RestoreWhole
CHECK_DEADLOCK FALSE
