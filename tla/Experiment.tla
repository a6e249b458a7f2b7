------------------------------ MODULE Experiment ------------------------------
(***************************************************************************)
(* The ChaosExperiment controller (internal/controller): one experiment,   *)
(* the API server that stores it, the informer cache and the work queue    *)
(* through which the controller sees it, the single worker that reconciles *)
(* it, and the executor, whose records live in the operator's memory.      *)
(*                                                                         *)
(* Every accepted write makes a new version of the object.  The worker     *)
(* reads from the cache, which receives the versions one by one and late;  *)
(* Update and Status().Update are refused unless the copy they carry is    *)
(* the current version, the annotation Patch is not.  A reconcile is cut   *)
(* at its side effects: Get, then the executor call, then the API write.   *)
(***************************************************************************)
EXTENDS Naturals, ExperimentPhases

CONSTANTS
  Targets,          \* what the action's target selector resolves to
  Duration,         \* spec.duration, in ticks
  RecoveryTimeout,  \* spec.steadyState.recoveryTimeout, 0 when unset
  AbortActions,     \* the actions of spec.abortConditions
  AbortKeys,        \* the annotations that clients set to ask for an abort
  MaxRestarts       \* bound: operator restarts considered

ASSUME ConstantsAssumption ==
  /\ Targets # {}
  /\ Duration \in Nat \ {0}
  /\ RecoveryTimeout \in Nat
  /\ AbortActions \subseteq {"abort", "pause", "rollback"}
  /\ AbortKeys \subseteq {"chaosplane.dev/abort", "chaosplane.io/abort"}
  /\ MaxRestarts \in Nat

VARIABLES
  api,            \* the stored object, its latest version
  watch,          \* versions on their way to the informer
  cache,          \* the version the informer holds
  queued, timer,  \* the key is in the work queue; a delayed add is pending
  wk,             \* the reconcile in progress
  sinceStart,     \* time since status.startTime, saturating at Duration
  sinceRecovery,  \* time since status.recoveryStartTime, saturating
  registered,     \* the action type is in the executor registry
  records,        \* targets with a fault the executor remembers
  orphans,        \* targets whose record was lost before a nil Rollback
  execs,          \* history: Execute calls made, saturating at 2
  vetoed,         \* history: abort or delete was requested before Running
  restarts        \* bound: operator restarts so far

store == <<api, watch>>
queue == <<queued, timer>>
time == <<sinceStart, sinceRecovery>>
exec == <<registered, records, orphans, execs>>
vars == <<store, cache, queue, wk, time, exec, vetoed, restarts>>

Lifecycle == INSTANCE ExperimentLifecycle WITH phase <- api.phase
-----------------------------------------------------------------------------
(* Objects and the worker.                                                 *)

Version ==
  [rv: Nat, present: BOOLEAN, deleting: BOOLEAN, finalizer: BOOLEAN,
   aborts: SUBSET AbortKeys, executed: BOOLEAN,  \* annotations set to "true"
   phase: Phases, started: BOOLEAN,          \* status, startTime # nil
   valid: BOOLEAN,                           \* the executor's Validate accepts
   steady: BOOLEAN, probes: SUBSET {"before", "after"}]  \* spec.steadyState

\* What the informer holds before the first version reaches it.
NoVersion ==
  [rv |-> 0, present |-> FALSE, deleting |-> FALSE, finalizer |-> FALSE,
   aborts |-> {}, executed |-> FALSE, phase |-> Pending, started |-> FALSE,
   valid |-> FALSE, steady |-> FALSE, probes |-> {}]

\* An experiment just created: no finalizer, no annotation, no status.
Created(valid, probes) ==
  [NoVersion EXCEPT !.rv = 1, !.present = TRUE, !.valid = valid,
                    !.steady = (probes # {}), !.probes = probes]

\* The one annotation that the controller reads as an abort request.
AbortRequested(v) == "chaosplane.dev/abort" \in v.aborts

\* Where a reconcile stands: it has its copy (got), Execute returned an error
\* (executeFailed) or not (executed), Rollback returned and the status write is
\* next (rolledBack), or the finalizer removal is next (finalize).
PCs == {"idle", "got", "executeFailed", "executed", "rolledBack", "finalize"}

Idle == [pc |-> "idle", obj |-> NoVersion, next |-> Pending]

Init ==
  /\ \E valid \in BOOLEAN, probes \in SUBSET {"before", "after"} :
       api = Created(valid, probes)
  /\ watch = {api}
  /\ cache = NoVersion
  /\ queued = FALSE /\ timer = FALSE
  /\ wk = Idle
  /\ sinceStart = 0 /\ sinceRecovery = 0
  /\ registered \in BOOLEAN
  /\ records = {} /\ orphans = {}
  /\ execs = 0 /\ vetoed = FALSE /\ restarts = 0
-----------------------------------------------------------------------------
(* Writing to the API server, and returning from Reconcile.                *)

\* The server accepts a write: a new version, which the watch will deliver.
Put(v) ==
  LET new == [v EXCEPT !.rv = api.rv + 1]
  IN api' = new /\ watch' = watch \cup {new}

\* Optimistic concurrency: the copy being written is still the stored version.
Fresh == api.present /\ wk.obj.rv = api.rv

\* Reconcile returns; Requeue, RequeueAfter and errors leave one delayed add.
Return(requeue) ==
  /\ wk' = Idle
  /\ timer' = (timer \/ requeue)
  /\ UNCHANGED queued

\* Status().Update of the copy with another phase.  The set* functions return
\* an empty Result, the transitions to another working phase Requeue.
SetPhase(p) ==
  /\ Fresh
  /\ Put([wk.obj EXCEPT !.phase = p, !.started = @ \/ p = Running])
  /\ Return(p \notin Terminal)

\* An API read or write of the reconcile fails (conflict, admission denial or
\* transport): Reconcile returns the error and the key is retried with backoff.
ReconcileError ==
  /\ wk.pc \in {"got", "executed", "rolledBack", "finalize"}
  /\ Return(TRUE)
  /\ UNCHANGED <<store, cache, time, exec, vetoed, restarts>>
-----------------------------------------------------------------------------
(* The executor, as the controller uses it.                                *)

\* Execute succeeds on every target, or stops with an error at some target:
\* the ones before it are recorded, and its own fault may have taken effect
\* although the reply that would have recorded it was an error.
Execute ==
  /\ execs' = IF execs < 2 THEN execs + 1 ELSE 2
  /\ UNCHANGED registered
  /\ \/ /\ records' = Targets
        /\ orphans' = orphans
        /\ wk' = [wk EXCEPT !.pc = "executed"]
     \/ \E done \in SUBSET Targets :
          \E lost \in {{}} \cup {{t} : t \in Targets \ done} :
            /\ done # Targets
            /\ records' = records \cup done
            /\ orphans' = orphans \cup lost
            /\ wk' = [wk EXCEPT !.pc = "executeFailed"]

\* Rollback takes the experiment's records out of the map before it cancels
\* them: after an error the targets not undone have no record left.  An executor
\* may return an error with nothing to undo, or after a reply that is lost.
Rollback(pc, onSuccess, onError) ==
  /\ records' = {}
  /\ UNCHANGED <<registered, execs>>
  /\ \/ /\ orphans' = orphans
        /\ wk' = [wk EXCEPT !.pc = pc, !.next = onSuccess]
     \/ \E left \in SUBSET records :
          /\ orphans' = orphans \cup left
          /\ wk' = [wk EXCEPT !.pc = pc, !.next = onError]
-----------------------------------------------------------------------------
(* The work queue, the informer and the clock.                             *)

\* The informer receives the next version; its event enqueues the key.
Deliver ==
  \E v \in watch :
    /\ \A w \in watch : v.rv <= w.rv
    /\ watch' = watch \ {v}
    /\ cache' = v
    /\ queued' = TRUE
    /\ UNCHANGED <<api, timer, wk, time, exec, vetoed, restarts>>

\* A delayed add becomes due.
TimerFires ==
  /\ timer
  /\ timer' = FALSE /\ queued' = TRUE
  /\ UNCHANGED <<store, cache, wk, time, exec, vetoed, restarts>>

Tick ==
  LET recovering == api.phase = Recovering /\ sinceRecovery < RecoveryTimeout
  IN /\ api.started
     /\ sinceStart < Duration \/ recovering
     /\ sinceStart' = IF sinceStart < Duration THEN sinceStart + 1 ELSE sinceStart
     /\ sinceRecovery' = IF recovering THEN sinceRecovery + 1 ELSE sinceRecovery
     /\ UNCHANGED <<store, cache, queue, wk, exec, vetoed, restarts>>
-----------------------------------------------------------------------------
(* Reconcile.                                                              *)

\* The worker takes the key and reads the cached object; NotFound ends it.
Get ==
  /\ wk.pc = "idle" /\ queued
  /\ queued' = FALSE
  /\ wk' = IF cache.present THEN [wk EXCEPT !.pc = "got", !.obj = cache] ELSE wk
  /\ UNCHANGED <<store, cache, timer, time, exec, vetoed, restarts>>

AddFinalizer ==
  /\ wk.pc = "got" /\ ~wk.obj.deleting /\ ~wk.obj.finalizer
  /\ Fresh
  /\ Put([wk.obj EXCEPT !.finalizer = TRUE])
  /\ Return(TRUE)
  /\ UNCHANGED <<cache, time, exec, vetoed, restarts>>

\* Faulty variant: the phases are handled before the finalizer is there.
ReconcilingUnprotected(p) ==
  wk.pc = "got" /\ ~wk.obj.deleting /\ wk.obj.phase = p

\* The switch on the phase that the copy shows.
Reconciling(p) ==
  wk.pc = "got" /\ ~wk.obj.deleting /\ wk.obj.finalizer /\ wk.obj.phase = p

ReconcilePending ==
  /\ Reconciling(Pending)
  /\ SetPhase(IF ~registered \/ ~wk.obj.valid THEN Failed
              ELSE IF wk.obj.steady /\ "before" \in wk.obj.probes
                   THEN SteadyStateChecking ELSE Running)
  /\ UNCHANGED <<cache, time, exec, vetoed, restarts>>

ReconcileSteadyStateChecking ==
  /\ Reconciling(SteadyStateChecking)
  /\ \E passed \in BOOLEAN :
       SetPhase(IF wk.obj.steady /\ passed THEN Running ELSE Failed)
  /\ UNCHANGED <<cache, time, exec, vetoed, restarts>>

\* Faulty variant: an abort rolls back only what the copy shows as executed.
HandleAbortIfExecuted ==
  /\ Reconciling(Running)
  /\ AbortRequested(wk.obj) \/ AbortActions \ {"rollback"} # {}
  /\ \/ /\ registered /\ wk.obj.executed
        /\ Rollback("rolledBack", Aborted, Failed)
        /\ UNCHANGED <<store, queue>>
     \/ /\ ~registered \/ ~wk.obj.executed
        /\ SetPhase(IF registered THEN Aborted ELSE Failed)
        /\ UNCHANGED exec
  /\ UNCHANGED <<cache, time, vetoed, restarts>>

\* reconcileRunning: the abort annotation or an abort condition whose action
\* is not rollback.  Without an executor the experiment fails at once.
HandleAbort ==
  /\ Reconciling(Running)
  /\ AbortRequested(wk.obj) \/ AbortActions \ {"rollback"} # {}
  /\ \/ /\ registered
        /\ Rollback("rolledBack", Aborted, Failed)
        /\ UNCHANGED <<store, queue>>
     \/ /\ ~registered
        /\ SetPhase(Failed)
        /\ UNCHANGED exec
  /\ UNCHANGED <<cache, time, vetoed, restarts>>

\* Faulty variant: the status write carries no resourceVersion.
TransitionToCompletingUnchecked ==
  /\ Reconciling(Running) /\ ~AbortRequested(wk.obj)
  /\ "rollback" \in AbortActions \/ sinceStart = Duration
  /\ api.present
  /\ Put([api EXCEPT !.phase = Completing])
  /\ Return(TRUE)
  /\ UNCHANGED <<cache, time, exec, vetoed, restarts>>

\* reconcileRunning: a rollback condition, or the duration is over (the
\* timeout of twice the duration ends the same way).
TransitionToCompleting ==
  /\ Reconciling(Running) /\ ~AbortRequested(wk.obj)
  /\ "rollback" \in AbortActions \/ ~wk.obj.started \/ sinceStart = Duration
  /\ SetPhase(IF "rollback" \in AbortActions \/ wk.obj.started
              THEN Completing ELSE Failed)
  /\ UNCHANGED <<cache, time, exec, vetoed, restarts>>

\* Faulty variant: the annotation is looked at after the action has run.
RunActionBeforeAbort ==
  /\ Reconciling(Running)
  /\ wk.obj.started /\ sinceStart < Duration /\ ~wk.obj.executed
  /\ registered
  /\ Execute
  /\ UNCHANGED <<store, queue, cache, time, vetoed, restarts>>

\* reconcileRunning: within the duration, the action runs unless the copy
\* carries the executed annotation.
RunAction ==
  /\ Reconciling(Running) /\ ~AbortRequested(wk.obj)
  /\ wk.obj.started /\ sinceStart < Duration /\ ~wk.obj.executed
  /\ \/ /\ registered
        /\ Execute
        /\ UNCHANGED <<store, queue>>
     \/ /\ ~registered
        /\ SetPhase(Failed)
        /\ UNCHANGED exec
  /\ UNCHANGED <<cache, time, vetoed, restarts>>

\* Execute failed: roll back, and fail whatever the rollback returns.
RollbackFailedExecute ==
  /\ wk.pc = "executeFailed"
  /\ Rollback("rolledBack", Failed, Failed)
  /\ UNCHANGED <<store, cache, queue, time, vetoed, restarts>>

\* Execute succeeded: a merge patch adds the annotation to whatever version is
\* stored.  The server makes no new version of a patch that changes nothing.
MarkExecuted ==
  /\ wk.pc = "executed"
  /\ api.present
  /\ \/ ~api.executed /\ Put([api EXCEPT !.executed = TRUE])
     \/ api.executed /\ UNCHANGED store
  /\ Return(TRUE)
  /\ UNCHANGED <<cache, time, exec, vetoed, restarts>>

\* Faulty variant: the wait for the end of the duration is not scheduled.
KeepRunningNoRequeue ==
  /\ Reconciling(Running) /\ ~AbortRequested(wk.obj)
  /\ wk.obj.started /\ sinceStart < Duration /\ wk.obj.executed
  /\ Return(FALSE)
  /\ UNCHANGED <<store, cache, time, exec, vetoed, restarts>>

\* reconcileRunning: already executed, wait for the duration to pass.
KeepRunning ==
  /\ Reconciling(Running) /\ ~AbortRequested(wk.obj)
  /\ wk.obj.started /\ sinceStart < Duration /\ wk.obj.executed
  /\ Return(TRUE)
  /\ UNCHANGED <<store, cache, time, exec, vetoed, restarts>>

\* Faulty variant: only what the copy shows as executed is rolled back.
ReconcileCompletingIfExecuted ==
  /\ Reconciling(Completing)
  /\ registered
  /\ IF wk.obj.executed
     THEN /\ Rollback("rolledBack", Completed, Failed)
          /\ UNCHANGED <<store, queue>>
     ELSE SetPhase(Completed) /\ UNCHANGED exec
  /\ UNCHANGED <<cache, time, vetoed, restarts>>

ReconcileCompleting ==
  /\ Reconciling(Completing)
  /\ \/ /\ registered
        /\ Rollback("rolledBack",
                    IF wk.obj.steady /\ "after" \in wk.obj.probes
                    THEN Recovering ELSE Completed, Failed)
        /\ UNCHANGED <<store, queue>>
     \/ /\ ~registered
        /\ SetPhase(Failed)
        /\ UNCHANGED exec
  /\ UNCHANGED <<cache, time, vetoed, restarts>>

\* The status write that follows a rollback.
WritePhase ==
  /\ wk.pc = "rolledBack"
  /\ SetPhase(wk.next)
  /\ UNCHANGED <<cache, time, exec, vetoed, restarts>>

\* Faulty variant: failing after probes are retried without a deadline.
ReconcileRecoveringNoDeadline ==
  /\ Reconciling(Recovering)
  /\ \/ SetPhase(IF wk.obj.steady THEN Completed ELSE Failed)
     \/ wk.obj.steady /\ Return(TRUE) /\ UNCHANGED store
  /\ UNCHANGED <<cache, time, exec, vetoed, restarts>>

\* The recovery deadline is looked at before the after probes run.
ReconcileRecovering ==
  /\ Reconciling(Recovering)
  /\ \/ /\ ~wk.obj.steady \/ (RecoveryTimeout > 0 /\ sinceRecovery = RecoveryTimeout)
        /\ SetPhase(Failed)
     \/ /\ wk.obj.steady /\ (RecoveryTimeout = 0 \/ sinceRecovery < RecoveryTimeout)
        /\ \/ SetPhase(Completed)                     \* the probes pass
           \/ SetPhase(Failed)                        \* a probe errs
           \/ Return(TRUE) /\ UNCHANGED store         \* not yet
  /\ UNCHANGED <<cache, time, exec, vetoed, restarts>>

ReconcileTerminal ==
  /\ \E p \in Terminal : Reconciling(p)
  /\ Return(FALSE)
  /\ UNCHANGED <<store, cache, time, exec, vetoed, restarts>>

\* Faulty variant: a deletion rolls back only in Running.
HandleDeletionRunningOnly ==
  /\ wk.pc = "got" /\ wk.obj.deleting /\ wk.obj.finalizer
  /\ IF wk.obj.phase = Running /\ registered
     THEN Rollback("finalize", Pending, Pending)
     ELSE wk' = [wk EXCEPT !.pc = "finalize"] /\ UNCHANGED exec
  /\ UNCHANGED <<store, cache, queue, time, vetoed, restarts>>

\* Faulty variant: without an executor the finalizer is kept.
HandleDeletionNeedsExecutor ==
  /\ wk.pc = "got" /\ wk.obj.deleting /\ wk.obj.finalizer
  /\ \/ registered /\ Rollback("finalize", Pending, Pending) /\ UNCHANGED queue
     \/ ~registered /\ Return(TRUE) /\ UNCHANGED exec
  /\ UNCHANGED <<store, cache, time, vetoed, restarts>>

\* handleDeletion rolls back in the phases that may have a fault, ignoring the
\* rollback's error and a missing executor.
HandleDeletion ==
  /\ wk.pc = "got" /\ wk.obj.deleting /\ wk.obj.finalizer
  /\ IF wk.obj.phase \in {Running, Completing, Recovering} /\ registered
     THEN Rollback("finalize", Pending, Pending)
     ELSE wk' = [wk EXCEPT !.pc = "finalize"] /\ UNCHANGED exec
  /\ UNCHANGED <<store, cache, queue, time, vetoed, restarts>>

\* The finalizer goes, and with it the object.
RemoveFinalizer ==
  /\ wk.pc = "finalize"
  /\ Fresh
  /\ Put([wk.obj EXCEPT !.finalizer = FALSE, !.present = FALSE])
  /\ Return(FALSE)
  /\ UNCHANGED <<cache, time, exec, vetoed, restarts>>
-----------------------------------------------------------------------------
(* The user, and the operator process.                                     *)

EarlyPhase == api.phase \in {Pending, SteadyStateChecking}

\* An abort annotation is set to "true": chaosplane.dev/abort by the agent's
\* annotateAbort, chaosplane.io/abort by chaosctl experiment stop.
UserAbort ==
  /\ api.present
  /\ \E key \in AbortKeys \ api.aborts :
       /\ Put([api EXCEPT !.aborts = @ \cup {key}])
       /\ vetoed' = (vetoed \/ (EarlyPhase /\ key = "chaosplane.dev/abort"))
  /\ UNCHANGED <<cache, queue, wk, time, exec, restarts>>

UserDelete ==
  /\ api.present /\ ~api.deleting
  /\ Put([api EXCEPT !.deleting = TRUE, !.present = api.finalizer])
  /\ vetoed' = (vetoed \/ EarlyPhase)
  /\ UNCHANGED <<cache, queue, wk, time, exec, restarts>>

\* spec.steadyState is edited away.
UserDropsSteadyState ==
  /\ api.present /\ api.steady
  /\ Put([api EXCEPT !.steady = FALSE])
  /\ UNCHANGED <<cache, queue, wk, time, exec, vetoed, restarts>>

\* The operator stops anywhere in a reconcile and starts again: the executor's
\* records are gone, the informer lists the object, and the build that comes up
\* may register another set of executors.
Restart ==
  /\ restarts < MaxRestarts
  /\ restarts' = restarts + 1
  /\ wk' = Idle
  /\ cache' = api /\ watch' = {}
  /\ queued' = TRUE /\ timer' = FALSE
  /\ registered' \in BOOLEAN
  /\ orphans' = orphans \cup records /\ records' = {}
  /\ UNCHANGED <<api, time, execs, vetoed>>
-----------------------------------------------------------------------------
\* A reconcile's first step after Get, and the write after an executor call.
Handle ==
  \/ AddFinalizer \/ ReconcilePending \/ ReconcileSteadyStateChecking
  \/ HandleAbort \/ TransitionToCompleting \/ RunAction \/ KeepRunning
  \/ ReconcileCompleting \/ ReconcileRecovering \/ ReconcileTerminal
  \/ HandleDeletion

Finish == MarkExecuted \/ WritePhase \/ RemoveFinalizer

Reconcile == Handle \/ RollbackFailedExecute \/ Finish

User == UserAbort \/ UserDelete \/ UserDropsSteadyState

Next ==
  \/ Deliver \/ TimerFires \/ Tick \/ Get
  \/ Reconcile \/ ReconcileError
  \/ User \/ Restart

Spec == Init /\ [][Next]_vars
-----------------------------------------------------------------------------
(* Fairness.  The queue, the informer and the clock keep going, and every  *)
(* call of a reconcile returns.  A step that is tried again and again is   *)
(* not refused for ever: the workqueue retries every error, and the API    *)
(* server accepts some of the attempts that carry the current version.     *)

Fairness ==
  /\ WF_vars(Deliver) /\ WF_vars(TimerFires) /\ WF_vars(Tick) /\ WF_vars(Get)
  /\ WF_vars(Reconcile \/ ReconcileError)
  /\ SF_vars(Handle) /\ SF_vars(Finish)

FairSpec == Spec /\ Fairness
-----------------------------------------------------------------------------
(* Properties.                                                             *)

\* Every variable has its type; the informer and the worker hold versions.
TypeOK ==
  /\ api \in Version /\ cache \in Version
  /\ watch \in SUBSET Version
  /\ queued \in BOOLEAN /\ timer \in BOOLEAN
  /\ wk \in [pc: PCs, obj: Version, next: Phases]
  /\ sinceStart \in 0..Duration /\ sinceRecovery \in 0..RecoveryTimeout
  /\ registered \in BOOLEAN
  /\ records \in SUBSET Targets /\ orphans \in SUBSET Targets
  /\ execs \in 0..2 /\ vetoed \in BOOLEAN /\ restarts \in 0..MaxRestarts

\* The persisted phase implements ExperimentLifecycle: reconciles that work on
\* stale copies, retries and restarts never take an experiment along an edge
\* the phase machine does not have, nor out of a terminal phase.
ImplementsLifecycle == Lifecycle!Spec

\* Once the phase says the action was rolled back (reconcileCompleting wrote
\* Recovering or Completed), the executor holds no record of a live fault, even
\* if Execute ran more than once or its annotation was never stored.
UndoneWhenRecovered ==
  api.phase \in {Recovering, Completed} => records = {}

\* handleAbort's Aborted means the same when the abort came by annotation,
\* which a later copy cannot lose as it can lose a metric breach.
UndoneWhenAborted ==
  AbortActions = {} /\ api.phase = Aborted => records = {}

\* An abort or a deletion requested before the experiment is Running wins every
\* race with the reconcile in progress: Execute is never called, and the
\* experiment never reports that it ran to its end.
VetoHonoured ==
  vetoed => execs = 0 /\ api.phase \notin {Completing, Recovering, Completed}

\* Execute is called only for an experiment that passed Validate and that the
\* finalizer holds, so deletion cannot remove the object under a live fault.
FaultsAreProtected ==
  execs > 0 => api.valid /\ (api.present => api.finalizer)

\* When the finalizer goes in a phase that may have a live fault, no record of
\* one is left (handleDeletion's rollback covers Running to Recovering).
DeletionUndoes ==
  [][api.present /\ ~api'.present /\ api.phase \in {Running, Completing, Recovering}
       => records' = {}]_vars

\* No experiment is forgotten: while there is something left to do, the key is
\* queued, a delayed add is pending, an event is coming or the worker has it.
NotForgotten ==
  api.present /\ (api.phase \notin Terminal \/ api.deleting) =>
    queued \/ timer \/ watch # {} \/ wk.pc # "idle"

\* Every experiment with a recovery timeout ends, whatever the probes, the
\* executor and the API server's refusals do.  Without one (RecoveryTimeout = 0, the
\* default) it stays Recovering while its probes fail.
Terminates == <>(api.phase \in Terminal \/ ~api.present)

\* The finalizer never blocks a deletion for ever, not even when the executor
\* is gone from the registry or its rollback fails.
DeletionCompletes == api.deleting ~> ~api.present

\* "Only execute once per experiment to prevent non-idempotent actions from
\* repeating" (reconcileRunning).
ExecuteOnce == execs <= 1
=============================================================================
