--------------------------- MODULE ExperimentPhases ---------------------------
(***************************************************************************)
(* The phases of a ChaosExperiment and the edges between them.             *)
(***************************************************************************)

\* api/v1alpha1: an object whose status was never written counts as Pending.
Pending == "Pending"
SteadyStateChecking == "SteadyStateChecking"
Running == "Running"
Completing == "Completing"
Recovering == "Recovering"
Completed == "Completed"
Failed == "Failed"
Aborted == "Aborted"

Terminal == {Completed, Failed, Aborted}
Phases == {Pending, SteadyStateChecking, Running, Completing, Recovering} \cup Terminal

\* The edges that the reconcile*, transitionTo* and set* functions write.
Edges ==
  {<<Pending, SteadyStateChecking>>, <<Pending, Running>>,
   <<SteadyStateChecking, Running>>,
   <<Running, Completing>>, <<Running, Aborted>>,
   <<Completing, Recovering>>, <<Completing, Completed>>,
   <<Recovering, Completed>>}
  \cup (Phases \ Terminal) \X {Failed}
=============================================================================
