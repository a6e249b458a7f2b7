CONSTANTS
  Targets = {a}
  Duration = 1
  RecoveryTimeout = 0
  AbortActions = {}
  AbortKeys = {"chaosplane.io/abort"}
  MaxRestarts = 0
SPECIFICATION Spec
CHECK_DEADLOCK FALSE
INVARIANTS
  ExecuteOnce
