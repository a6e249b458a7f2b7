CONSTANTS
  Templates = {"a", "b", "c"}
  Owned = {"a", "b"}
  Workflows <- AllWorkflows
  MCStrategies = {"abort", "continue", "retry"}
  MCTypes = {"experiment", "delay", "condition", "parallel", "suspend"}
SPECIFICATION FairSpec
CHECK_DEADLOCK FALSE
INVARIANTS
  DependenciesRespected
  CompletedMeansPassed
  PausedAtGate
  ParallelWaits
PROPERTIES
  EndsOrWaits
