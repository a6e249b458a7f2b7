--------------------------- MODULE MCDaemonExecutor ---------------------------
(* Every executor; targets and experiments as interchangeable values.       *)
EXTENDS DaemonExecutor, TLC

Symmetry == Permutations(Exps) \cup Permutations(Targets) \cup Permutations(Ids)
=============================================================================
