-------------------------- MODULE MCResourceExecutor --------------------------
(* Every executor; experiments and contents as interchangeable values.      *)
EXTENDS ResourceExecutor, TLC

\* A claim is taken for restored while it is on its way out; a copy of a fault is
\* kept by a second Execute, and put back.
Claims == {PVCChaosExecutor}
Corrupted == {ConfigMapCorrupt}
ClaimsAndCorrupted == Claims \cup Corrupted
Symmetry == Permutations(Exps) \cup Permutations(Values)
=============================================================================
