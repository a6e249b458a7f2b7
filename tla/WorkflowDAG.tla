----------------------------- MODULE WorkflowDAG -----------------------------
(***************************************************************************)
(* What a dependency graph has to be for a workflow to run.                *)
(***************************************************************************)

\* No set of nodes in which each waits for another of the set, or for itself.
Sortable(nodes, deps) ==
  \A S \in (SUBSET nodes) \ {{}} : \E n \in S : deps[n] \cap S = {}
=============================================================================
