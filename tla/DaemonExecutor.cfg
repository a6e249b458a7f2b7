CONSTANTS
  Exps = {x, y}
  Targets = {s, t}
  Ids = {i, j}
  MaxDaemonRestarts = 1
  MaxRestarts = 1
  MaxFailures = 2
SPECIFICATION Spec
SYMMETRY Symmetry
CHECK_DEADLOCK FALSE
INVARIANTS
  OneOwnCancel
  ExecuteCovers
  OneLostPerError
  NilMeansCancelled
