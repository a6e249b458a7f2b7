CONSTANTS
  Exps = {x, y}
  Values = {v, w}
  Kinds <- ClaimsAndCorrupted
SPECIFICATION Spec
SYMMETRY Symmetry
INVARIANTS
  RollbackReverses
