CONSTANTS
  Inputs <- MCInputs
SPECIFICATION SortSpec
CHECK_DEADLOCK FALSE
INVARIANTS
  AcceptsSortable
  OrderRespectsDependencies
PROPERTIES
  SortEnds
