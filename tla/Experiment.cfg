CONSTANTS
  Targets = {a, b}
  Duration = 1
  RecoveryTimeout = 1
  AbortActions = {}
  AbortKeys = {"chaosplane.dev/abort"}
  MaxRestarts = 1
SPECIFICATION Spec
SYMMETRY TargetSymmetry
CHECK_DEADLOCK FALSE
INVARIANTS
  UndoneWhenRecovered
  UndoneWhenAborted
  VetoHonoured
  FaultsAreProtected
  NotForgotten
PROPERTIES
  ImplementsLifecycle
  DeletionUndoes
