------------------------------- MODULE Workflow -------------------------------
(***************************************************************************)
(* The ChaosWorkflow controller (internal/controller): one workflow, its   *)
(* templates, the experiments that the templates of type experiment refer  *)
(* to, and the user.                                                       *)
(*                                                                         *)
(* All that a reconcile of Pending, Running or Paused changes is the       *)
(* workflow's status, in one Status().Update that the API server refuses   *)
(* unless the copy is current.  So a reconcile is one step here; one whose *)
(* read was stale or whose write failed leaves no trace and is retried.    *)
(* The controller polls: every reconcile of a workflow that has not ended  *)
(* asks to be requeued.  Reads of experiments may be behind.               *)
(***************************************************************************)
EXTENDS Naturals, FiniteSets, ExperimentPhases, WorkflowDAG

CONSTANTS
  Templates,   \* the names of spec.templates
  Workflows,   \* the specs considered
  Owned        \* the templates whose experiment has an owner reference to us

Types == {"experiment", "delay", "condition", "parallel", "suspend"}
Strategies == {"abort", "continue", "retry", "rollback"}
maxRetries == 3

\* spec: the templates that lack the field their type needs are malformed; the
\* suspends in timed have a timeout.  subs (of a parallel) may name what is not
\* a template.  The templates that a condition names are not used for anything.
WorkflowSpec ==
  {w \in [type: [Templates -> Types], deps: [Templates -> SUBSET Templates],
          subs: [Templates -> SUBSET (Templates \cup {"unknown"})],
          malformed: SUBSET Templates, timed: SUBSET Templates, strategy: Strategies] :
     /\ \A t \in w.malformed : w.type[t] # "suspend"
     /\ \A t \in w.timed : w.type[t] = "suspend"}

ASSUME WorkflowsAssumption ==
  /\ IsFiniteSet(Templates)
  /\ Workflows \subseteq WorkflowSpec
  /\ Owned \subseteq Templates

VARIABLES
  spec,      \* the workflow's spec
  phase,     \* status.phase
  st,        \* status.templateStatuses, by template name
  abort, resume,  \* the annotations chaosplane.dev/abort and /resume are "true"
  due,       \* the delays and suspend timeouts that have elapsed since the start
  exps       \* the experiment each experiment template refers to

vars == <<spec, phase, st, abort, resume, due, exps>>

Paused == "Paused"
NotStarted == "NotStarted"   \* no entry in templateStatuses
Absent == "Absent"           \* no such experiment

\* A template's status: its phase and what its message says, which is the retry
\* count that Sscanf("retry %d") reads back, or the branch a condition took.
Status ==
  [phase: {NotStarted, Pending, Running, Completed, Failed},
   retry: 0..maxRetries, route: {"", "ifTrue", "ifFalse"}]

Message(p, retry, route) == [phase |-> p, retry |-> retry, route |-> route]

\* Any message without a count or a branch.
Entry(p) == Message(p, 0, "")

With(p) == {t \in Templates : st[t].phase = p}
Done == With(Completed) \cup With(Failed)
OfType(k) == {t \in Templates : spec.type[t] = k}

Init ==
  /\ spec \in Workflows
  /\ phase = Pending
  /\ st = [t \in Templates |-> Entry(NotStarted)]
  /\ abort = FALSE /\ resume = FALSE
  /\ due = {}
  /\ exps \in [OfType("experiment") -> [phase: {Absent, Pending}, abort: {FALSE}]]
-----------------------------------------------------------------------------
(* reconcilePending, reconcilePaused, and the ends of reconcileRunning.    *)

\* TopologicalSort's verdict (see that module); its order is not used.
ReconcilePending ==
  /\ phase = Pending
  /\ phase' = IF Sortable(Templates, spec.deps) THEN Running ELSE Failed
  /\ UNCHANGED <<spec, st, abort, resume, due, exps>>

\* Only the resume annotation is looked at, and it stays.
ReconcilePaused ==
  /\ phase = Paused /\ resume
  /\ phase' = Running
  /\ UNCHANGED <<spec, st, abort, resume, due, exps>>

StopsOnFailure == spec.strategy \in {"abort", "rollback"} /\ With(Failed) # {}

FailOnFailure ==
  /\ phase = Running /\ ~abort
  /\ StopsOnFailure
  /\ phase' = Failed
  /\ UNCHANGED <<spec, st, abort, resume, due, exps>>

\* The failed templates that strategy retry sets back to Pending.
Retried ==
  {t \in With(Failed) : spec.strategy = "retry" /\ st[t].retry < maxRetries}

\* Faulty variant: a template set back to Pending stays in the completed map.
completedWithRetried == Done

completed == Done \ Retried

\* Faulty variant: the count is looked at before the failures.
SetCompletedFirst ==
  /\ phase = Running /\ ~abort
  /\ completed = Templates
  /\ phase' = Completed
  /\ UNCHANGED <<spec, st, abort, resume, due, exps>>

SetCompleted ==
  /\ phase = Running /\ ~abort
  /\ ~StopsOnFailure
  /\ completed = Templates
  /\ phase' = Completed
  /\ UNCHANGED <<spec, st, abort, resume, due, exps>>
-----------------------------------------------------------------------------
(* One pass of reconcileRunning over the templates.                        *)

AfterRetry ==
  [t \in Templates |->
     IF t \in Retried THEN Message(Pending, st[t].retry + 1, "") ELSE st[t]]

ReadyTemplates == {t \in Templates \ completed : spec.deps[t] \subseteq completed}

Starting == ReadyTemplates \ With(Running)

\* Faulty variant: a suspend that finds the resume annotation is over at once.
ExecuteTemplateResumed(t, lookupFails, holds) ==
  IF t \in spec.malformed \/ (spec.type[t] = "experiment" /\ t \in lookupFails)
  THEN Entry(Failed)
  ELSE IF spec.type[t] = "condition" \/ (spec.type[t] = "suspend" /\ resume)
  THEN Entry(Completed) ELSE Entry(Running)

\* executeTemplate.  An experiment is looked up, not created; a lookup error
\* other than NotFound fails the template.  A condition is over at once.
ExecuteTemplate(t, lookupFails, holds) ==
  IF t \in spec.malformed \/ (spec.type[t] = "experiment" /\ t \in lookupFails)
  THEN Entry(Failed)
  ELSE IF spec.type[t] = "condition"
  THEN Message(Completed, 0, IF t \in holds THEN "ifTrue" ELSE "ifFalse")
  ELSE Entry(Running)

\* Faulty variant: only Completed and Failed end an experiment template.
CheckTemplateProgressNoAbort(t, allDone, stale) ==
  LET read(phases) == t \notin stale /\ exps[t].phase \in phases
      over == \/ spec.type[t] = "experiment" /\ read({Completed})
              \/ spec.type[t] = "delay" /\ t \in due
              \/ spec.type[t] = "parallel" /\ t \in allDone
              \/ spec.type[t] = "suspend" /\ (resume \/ t \in spec.timed \cap due)
      broken == spec.type[t] = "experiment" /\ read({Failed})
  IN IF over THEN Entry(Completed) ELSE IF broken THEN Entry(Failed) ELSE st[t]

\* checkTemplateProgress of a running template.  The parallels in allDone have
\* seen all their sub-templates end; stale reads of experiments show no news.
CheckTemplateProgress(t, allDone, stale) ==
  LET read(phases) == t \notin stale /\ exps[t].phase \in phases
      over == \/ spec.type[t] = "experiment" /\ read({Completed})
              \/ spec.type[t] = "delay" /\ t \in due
              \/ spec.type[t] = "parallel" /\ t \in allDone
              \/ spec.type[t] = "suspend" /\ (resume \/ t \in spec.timed \cap due)
      broken == spec.type[t] = "experiment" /\ read({Failed, Aborted})
  IN IF over THEN Entry(Completed) ELSE IF broken THEN Entry(Failed) ELSE st[t]

\* The orders in which Go's range may visit the running templates.
Orders == {r \in [With(Running) -> 1..Cardinality(With(Running))] :
             \A t, u \in With(Running) : r[t] = r[u] => t = u}

\* Faulty variant: a sub-template that does not run counts as done.
SubsDoneNotRunning(p, order, mid, new) ==
  \A s \in spec.subs[p] : s \in Templates /\ mid[s].phase # Running

\* statusMap as a parallel sees it: the running templates visited before it are
\* already updated.
SubsDone(p, order, mid, new) ==
  \A s \in spec.subs[p] :
    /\ s \in Templates
    /\ LET seen == IF s \in With(Running) /\ order[s] < order[p] THEN new[s] ELSE mid[s]
       IN seen.phase \in {Completed, Failed}

\* statusMap after the loop over the ready templates, and after the loop over
\* the ones that ran before the pass.
Executed(lookupFails, holds) ==
  [t \in Templates |-> IF t \in Starting THEN ExecuteTemplate(t, lookupFails, holds)
                                         ELSE AfterRetry[t]]

Checked(mid, allDone, stale) ==
  [t \in Templates |-> IF t \in With(Running)
                       THEN CheckTemplateProgress(t, allDone, stale) ELSE mid[t]]

\* The ready templates that do not run are executed, then the ones that ran
\* before the pass are checked; executing a suspend pauses the workflow.
ReconcileRunning ==
  /\ phase = Running /\ ~abort
  /\ ~StopsOnFailure
  /\ completed # Templates
  /\ \E lookupFails \in SUBSET (Starting \cap OfType("experiment")),
        holds \in SUBSET (Starting \cap OfType("condition")),
        stale \in SUBSET (With(Running) \cap OfType("experiment")),
        allDone \in SUBSET (With(Running) \cap OfType("parallel")),
        order \in Orders :
       /\ st' = Checked(Executed(lookupFails, holds), allDone, stale)
       /\ \A p \in With(Running) \cap OfType("parallel") :
            p \in allDone <=> SubsDone(p, order, Executed(lookupFails, holds), st')
  /\ phase' = IF Starting \cap OfType("suspend") # {} THEN Paused ELSE Running
  /\ due' = due \ Starting
  /\ UNCHANGED <<spec, abort, resume, exps>>

\* The abort annotation is looked at in phase Running only.  Of the owned
\* experiments those that the list shows as Running are annotated (one that was
\* never reconciled has phase "", not Pending); an update that fails, on a stale
\* copy too, is logged and skipped.  The status write may fail afterwards.
HandleAbort ==
  /\ phase = Running /\ abort
  /\ \E hit \in SUBSET {t \in OfType("experiment") \cap Owned : exps[t].phase = Running} :
       exps' = [t \in DOMAIN exps |-> [exps[t] EXCEPT !.abort = @ \/ t \in hit]]
  /\ phase' \in {Running, Aborted}
  /\ UNCHANGED <<spec, st, abort, resume, due>>
-----------------------------------------------------------------------------
(* The clock, the experiments and the user.                                *)

\* The duration of a delay, or the timeout of a suspend, has passed.
Elapse ==
  \E t \in (With(Running) \cap (OfType("delay") \cup spec.timed)) \ due :
    /\ due' = due \cup {t}
    /\ UNCHANGED <<spec, phase, st, abort, resume, exps>>

CreateExperiment ==
  \E t \in DOMAIN exps :
    /\ exps[t].phase = Absent
    /\ exps' = [exps EXCEPT ![t].phase = Pending]
    /\ UNCHANGED <<spec, phase, st, abort, resume, due>>

\* The experiment controller moves an experiment along its lifecycle
\* (ExperimentLifecycle), whatever the workflow does.
ExperimentMoves ==
  \E t \in DOMAIN exps, p \in Phases :
    /\ <<exps[t].phase, p>> \in Edges
    /\ exps' = [exps EXCEPT ![t].phase = p]
    /\ UNCHANGED <<spec, phase, st, abort, resume, due>>

UserAborts ==
  /\ ~abort /\ abort' = TRUE
  /\ UNCHANGED <<spec, phase, st, resume, due, exps>>

UserResumes ==
  /\ ~resume /\ resume' = TRUE
  /\ UNCHANGED <<spec, phase, st, abort, due, exps>>

UserClearsResume ==
  /\ resume /\ resume' = FALSE
  /\ UNCHANGED <<spec, phase, st, abort, due, exps>>
-----------------------------------------------------------------------------
Reconcile ==
  \/ ReconcilePending \/ ReconcilePaused \/ FailOnFailure \/ SetCompleted
  \/ ReconcileRunning \/ HandleAbort

Next ==
  \/ Reconcile \/ Elapse
  \/ CreateExperiment \/ ExperimentMoves
  \/ UserAborts \/ UserResumes \/ UserClearsResume

Spec == Init /\ [][Next]_vars

\* The controller polls and retries, and time passes.  Nothing makes a user act, or
\* an experiment end: one without a recovery timeout may stay Recovering for ever.
Fairness == WF_vars(Reconcile) /\ WF_vars(Elapse)

FairSpec == Spec /\ Fairness
-----------------------------------------------------------------------------
(* Properties.                                                             *)

\* Every variable has its type.
TypeOK ==
  /\ spec \in Workflows
  /\ phase \in {Pending, Running, Paused} \cup Terminal
  /\ st \in [Templates -> Status]
  /\ abort \in BOOLEAN /\ resume \in BOOLEAN
  /\ due \in SUBSET Templates
  /\ exps \in [OfType("experiment") -> [phase: Phases \cup {Absent}, abort: BOOLEAN]]

\* The templates whose end lets what depends on them go on: with strategy
\* continue a failed one counts, with the others only a completed one.
Passed == IF spec.strategy = "continue" THEN Done ELSE With(Completed)

\* reconcileRunning starts a template only when all it depends on has passed,
\* and no later retry takes that back: no template is ever past its start
\* while a dependency is failed, retried or not there yet.
DependenciesRespected ==
  \A t \in Templates : st[t].phase # NotStarted => spec.deps[t] \subseteq Passed

\* setCompleted's "Workflow completed successfully": every template has passed.
\* Under retry this is so only since a template never runs out of retries: one that
\* did would count as completed.
CompletedMeansPassed == phase = Completed => Passed = Templates

\* A completed template is never executed or checked again.
CompletedStays ==
  [][\A t \in Templates : st[t].phase = Completed => st'[t] = st[t]]_vars

\* A paused workflow can be resumed: there is a suspend template for the resume
\* annotation to complete.
PausedAtGate == phase = Paused => With(Running) \cap OfType("suspend") # {}

\* A parallel template completes ("all parallel templates completed") only when
\* all its sub-templates have ended, in whatever order the pass visits them.
\* Under retry a failed sub-template may be started again afterwards.
ParallelWaits ==
  \A t \in With(Completed) \cap OfType("parallel") :
    spec.strategy # "retry" => spec.subs[t] \subseteq Done

\* What a template waits for: to be started, and as a parallel also to end.
WaitsFor(t) ==
  spec.deps[t] \cup IF spec.type[t] = "parallel" /\ t \notin spec.malformed
                    THEN spec.subs[t] ELSE {}

\* A parallel that waits for a name no template has, or for what waits for ever: the
\* sort looks at dependencies only.
NeverEnds(t) ==
  /\ spec.type[t] = "parallel"
  /\ \/ ~(spec.subs[t] \subseteq Templates)
     \/ \E S \in SUBSET Templates : t \in S /\ \A u \in S : WaitsFor(u) \cap S # {}

\* A workflow ends unless from some time on one of its templates waits: a suspend for
\* a resume, in a paused workflow even if it has a timeout, because reconcilePaused
\* does not look at it; an experiment template for an experiment that is not there or
\* has not ended; a parallel for itself or for nobody.  So no delay, no experiment
\* that has ended in whatever phase, and no failure or branch leaves it hanging.
\* Under retry a failing template is started again and again (RetriesNeverEnd).
EndsOrWaits ==
  spec.strategy # "retry" =>
    \/ <>(phase \in Terminal)
    \/ <>[](\E t \in With(Running) :
              \/ spec.type[t] = "suspend" /\ (phase = Paused \/ t \notin spec.timed)
              \/ spec.type[t] = "experiment" /\ exps[t].phase \notin Terminal
              \/ NeverEnds(t))
=============================================================================
