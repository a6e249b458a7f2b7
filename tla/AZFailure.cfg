CONSTANTS
  Subnets = {s1, s2}
  Vpcs = {n, m}
  Exps = {x, y}
  UserACLs = {u, v}
  DenyACLs = {d1, d2, d3}
  MaxMoves = 2
SPECIFICATION Spec
SYMMETRY Symmetry
CHECK_DEADLOCK FALSE
INVARIANTS
  IsolationIsOwed
  ACLIsOwed
  NilMeansGone
PROPERTIES
  RestoresOriginal
