CONSTANTS
  Exps = {x, y}
  Values = {v, w}
  Kinds <- AllKinds
SPECIFICATION Spec
SYMMETRY Symmetry
INVARIANTS
  FaultIsOwed
  RestoresBefore
