CONSTANTS
  Targets = {a}
  Duration = 1
  RecoveryTimeout = 1
  AbortActions = {"pause", "rollback"}
  AbortKeys = {}
  MaxRestarts = 0
SPECIFICATION FairSpec
CHECK_DEADLOCK FALSE
PROPERTIES
  Terminates
  DeletionCompletes
