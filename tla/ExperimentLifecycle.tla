------------------------- MODULE ExperimentLifecycle -------------------------
(***************************************************************************)
(* What a ChaosExperiment promises to whoever watches its status: the      *)
(* persisted phase moves along the edges of the phase machine, one edge    *)
(* per accepted status write, and a terminal phase is never left.          *)
(***************************************************************************)
EXTENDS ExperimentPhases

VARIABLE phase

Init == phase = Pending

Move == /\ phase' \in Phases
        /\ <<phase, phase'>> \in Edges

Spec == Init /\ [][Move]_phase
=============================================================================
