----------------------------- MODULE MCExperiment -----------------------------
(* Instances of Experiment for TLC.                                        *)
EXTENDS Experiment, TLC

\* The targets are interchangeable: no action looks at which one it is.
TargetSymmetry == Permutations(Targets)
=============================================================================
