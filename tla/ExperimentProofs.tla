--------------------------- MODULE ExperimentProofs ---------------------------
(***************************************************************************)
(* The safety properties of Experiment, for every set of targets, every    *)
(* duration, timeout and set of abort conditions, and any number of        *)
(* operator restarts.                                                      *)
(***************************************************************************)
EXTENDS Experiment, TLAPS

-----------------------------------------------------------------------------
(* Types.                                                                  *)

\* The phases that the module names are phases, and none is another.
LEMMA PhasesFacts ==
  /\ Pending \in Phases /\ SteadyStateChecking \in Phases /\ Running \in Phases
  /\ Completing \in Phases /\ Recovering \in Phases /\ Completed \in Phases
  /\ Failed \in Phases /\ Aborted \in Phases
BY DEF Phases, Terminal, Pending, SteadyStateChecking, Running, Completing,
       Recovering, Completed, Failed, Aborted

\* The empty cache entry has the type of a version.
LEMMA NoVersionType == NoVersion \in Version
BY PhasesFacts DEF NoVersion, Version

\* A write by the API server: the new object is a version.
LEMMA PutType ==
  ASSUME TypeOK, NEW v \in Version, Put(v)
  PROVE  api' \in Version /\ watch' \in SUBSET Version
BY DEF TypeOK, Put, Version

\* A handler that returns leaves the worker and the queue with their types.
LEMMA ReturnType ==
  ASSUME TypeOK, NEW b \in BOOLEAN, Return(b)
  PROVE  /\ wk' \in [pc: PCs, obj: Version, next: Phases]
         /\ queued' \in BOOLEAN /\ timer' \in BOOLEAN
BY NoVersionType, PhasesFacts DEF TypeOK, Return, Idle, PCs

\* A status write of any phase, accepted or refused, keeps the types.
LEMMA SetPhaseType ==
  ASSUME TypeOK, NEW p \in Phases, SetPhase(p)
  PROVE  /\ api' \in Version /\ watch' \in SUBSET Version
         /\ wk' \in [pc: PCs, obj: Version, next: Phases]
         /\ queued' \in BOOLEAN /\ timer' \in BOOLEAN
<1> DEFINE new == [wk.obj EXCEPT !.phase = p, !.started = @ \/ p = Running]
<1>1. new \in Version
  BY DEF TypeOK, Version
<1>2. Put(new) /\ Return(p \notin Terminal)
  BY DEF SetPhase
<1> HIDE DEF new
<1> QED
  BY <1>1, <1>2, PutType, ReturnType

\* Execute keeps the types, whatever part of the targets it reaches.
LEMMA ExecuteType ==
  ASSUME TypeOK, Execute
  PROVE  /\ wk' \in [pc: PCs, obj: Version, next: Phases]
         /\ registered' \in BOOLEAN /\ execs' \in 0..2
         /\ records' \in SUBSET Targets /\ orphans' \in SUBSET Targets
BY DEF TypeOK, Execute, PCs

\* Rollback keeps the types, whether or not it fails.
LEMMA RollbackType ==
  ASSUME TypeOK, NEW pc \in PCs, NEW p \in Phases, NEW q \in Phases, Rollback(pc, p, q)
  PROVE  /\ wk' \in [pc: PCs, obj: Version, next: Phases]
         /\ registered' \in BOOLEAN /\ execs' \in 0..2
         /\ records' \in SUBSET Targets /\ orphans' \in SUBSET Targets
BY DEF TypeOK, Rollback

\* Every step of the system keeps every variable in its type.
LEMMA TypeOKNext == TypeOK /\ [Next]_vars => TypeOK'
<1> SUFFICES ASSUME TypeOK, [Next]_vars PROVE TypeOK'
  OBVIOUS
<1> USE DEF vars, store, queue, time, exec
<1>1. CASE UNCHANGED vars
  BY <1>1 DEF TypeOK
<1>2. CASE Deliver
  BY <1>2 DEF TypeOK, Deliver
<1>3. CASE TimerFires
  BY <1>3 DEF TypeOK, TimerFires
<1>4. CASE Tick
  BY <1>4, ConstantsAssumption DEF TypeOK, Tick
<1>5. CASE Get
  BY <1>5 DEF TypeOK, Get, PCs
<1>6. CASE ReconcileError
  BY <1>6, ReturnType DEF TypeOK, ReconcileError
<1>7. CASE AddFinalizer
  <2>1. [wk.obj EXCEPT !.finalizer = TRUE] \in Version
    BY DEF TypeOK, Version
  <2> QED
    BY <1>7, <2>1, PutType, ReturnType DEF TypeOK, AddFinalizer
<1>8. CASE ReconcilePending
  BY <1>8, PhasesFacts, SetPhaseType DEF TypeOK, ReconcilePending
<1>9. CASE ReconcileSteadyStateChecking
  BY <1>9, PhasesFacts, SetPhaseType DEF TypeOK, ReconcileSteadyStateChecking
<1>10. CASE HandleAbort
  BY <1>10, PhasesFacts, SetPhaseType, RollbackType DEF TypeOK, HandleAbort, PCs
<1>11. CASE TransitionToCompleting
  BY <1>11, PhasesFacts, SetPhaseType DEF TypeOK, TransitionToCompleting
<1>12. CASE RunAction
  BY <1>12, PhasesFacts, SetPhaseType, ExecuteType DEF TypeOK, RunAction
<1>13. CASE KeepRunning
  BY <1>13, ReturnType DEF TypeOK, KeepRunning
<1>14. CASE ReconcileCompleting
  BY <1>14, PhasesFacts, SetPhaseType, RollbackType DEF TypeOK, ReconcileCompleting, PCs
<1>15. CASE ReconcileRecovering
  BY <1>15, PhasesFacts, SetPhaseType, ReturnType DEF TypeOK, ReconcileRecovering
<1>16. CASE ReconcileTerminal
  BY <1>16, ReturnType DEF TypeOK, ReconcileTerminal
<1>17. CASE HandleDeletion
  BY <1>17, PhasesFacts, RollbackType DEF TypeOK, HandleDeletion, PCs
<1>18. CASE RollbackFailedExecute
  BY <1>18, PhasesFacts, RollbackType DEF TypeOK, RollbackFailedExecute, PCs
<1>19. CASE MarkExecuted
  <2>1. [api EXCEPT !.executed = TRUE] \in Version
    BY DEF TypeOK, Version
  <2> QED
    BY <1>19, <2>1, PutType, ReturnType DEF TypeOK, MarkExecuted
<1>20. CASE WritePhase
  BY <1>20, SetPhaseType DEF TypeOK, WritePhase
<1>21. CASE RemoveFinalizer
  <2>1. [wk.obj EXCEPT !.finalizer = FALSE, !.present = FALSE] \in Version
    BY DEF TypeOK, Version
  <2> QED
    BY <1>21, <2>1, PutType, ReturnType DEF TypeOK, RemoveFinalizer
<1>22. CASE UserAbort
  <2>1. \A key \in AbortKeys : [api EXCEPT !.aborts = @ \cup {key}] \in Version
    BY DEF TypeOK, Version
  <2> QED
    BY <1>22, <2>1, PutType DEF TypeOK, UserAbort
<1>23. CASE UserDelete
  <2>1. [api EXCEPT !.deleting = TRUE, !.present = api.finalizer] \in Version
    BY DEF TypeOK, Version
  <2> QED
    BY <1>23, <2>1, PutType DEF TypeOK, UserDelete
<1>24. CASE UserDropsSteadyState
  <2>1. [api EXCEPT !.steady = FALSE] \in Version
    BY DEF TypeOK, Version
  <2> QED
    BY <1>24, <2>1, PutType DEF TypeOK, UserDropsSteadyState
<1>25. CASE Restart
  <2>1. Idle \in [pc: PCs, obj: Version, next: Phases]
    BY NoVersionType, PhasesFacts DEF Idle, PCs
  <2>2. restarts' \in 0..MaxRestarts
    BY <1>25, ConstantsAssumption DEF TypeOK, Restart
  <2> QED
    BY <1>25, <2>1, <2>2 DEF TypeOK, Restart
<1> QED
  BY <1>1, <1>2, <1>3, <1>4, <1>5, <1>6, <1>7, <1>8, <1>9, <1>10, <1>11, <1>12,
     <1>13, <1>14, <1>15, <1>16, <1>17, <1>18, <1>19, <1>20, <1>21, <1>22, <1>23,
     <1>24, <1>25
  DEF Next, Reconcile, Handle, Finish, User

\* A created experiment has its type.
LEMMA TypeOKInit == Init => TypeOK
<1>1. ASSUME Init PROVE TypeOK
  <2>1. api \in Version
    <3>1. PICK valid \in BOOLEAN, probes \in SUBSET {"before", "after"} :
            api = Created(valid, probes)
      BY <1>1 DEF Init
    <3> QED
      BY <3>1, NoVersionType DEF Created, Version
  <2>2. wk \in [pc: PCs, obj: Version, next: Phases]
    BY <1>1, NoVersionType, PhasesFacts DEF Init, Idle, PCs
  <2>3. /\ sinceStart \in 0..Duration /\ sinceRecovery \in 0..RecoveryTimeout
        /\ execs \in 0..2 /\ restarts \in 0..MaxRestarts
    BY <1>1, ConstantsAssumption DEF Init
  <2>4. /\ queued \in BOOLEAN /\ timer \in BOOLEAN
        /\ registered \in BOOLEAN /\ vetoed \in BOOLEAN
    BY <1>1, Zenon DEF Init
  <2>5. records \in SUBSET Targets /\ orphans \in SUBSET Targets
    BY <1>1, Zenon DEF Init
  <2>6. cache \in Version /\ watch \in SUBSET Version
    BY <1>1, <2>1, NoVersionType, Zenon DEF Init
  <2> QED
    BY <2>1, <2>2, <2>3, <2>4, <2>5, <2>6, Zenon DEF TypeOK
<1> QED
  BY <1>1

\* Every variable of the controller model keeps its type.
THEOREM TypeCorrect == Spec => []TypeOK
BY TypeOKInit, TypeOKNext, PTL DEF Spec
-----------------------------------------------------------------------------
(* The inductive invariant.  The copies of the object that can still be    *)
(* read are the versions on the watch, the cached one and the worker's.    *)

Copies == watch \cup {cache, wk.obj}

Early == {Pending, SteadyStateChecking}
Past == {Completing, Recovering} \cup Terminal

\* What a version never loses to a later one.
Before(v, w) ==
  /\ v.aborts \subseteq w.aborts
  /\ v.phase \in Past => w.phase \in Past

\* Two versions with one resourceVersion are one version, api is the last of
\* all, and the reader's copies only move forward.
Versions ==
  /\ api.rv > 0
  /\ \A v \in Copies : v.rv <= api.rv /\ (v.rv = api.rv => v = api)
  /\ \A v, w \in watch : v.rv <= w.rv => Before(v, w)
  /\ \A v \in watch : Before(cache, v)
  /\ \A v \in Copies : Before(v, api)
  /\ Before(wk.obj, cache)

\* What every version shows, and what api keeps of the older ones.
Shape ==
  /\ \A v \in Copies \cup {api} :
       /\ v.phase \notin {Pending, Failed} => v.valid
       /\ v.phase # Pending /\ v.present => v.finalizer
  /\ \A v \in Copies :
       /\ v.valid => api.valid
       /\ v.finalizer /\ api.present => api.finalizer
       /\ v.phase \notin Early => api.phase \notin Early

\* What the worker carries from one step of a reconcile to the next.
Worker ==
  /\ wk.pc = "idle" => wk = Idle
  /\ wk.pc = "executeFailed" => wk.obj.phase = Running
  /\ wk.pc = "rolledBack" =>
       /\ records = {}
       /\ wk.obj.phase \in {Running, Completing} /\ wk.next # Completing
       /\ <<wk.obj.phase, wk.next>> \in Edges
       /\ wk.next \in {Recovering, Completed} => wk.obj.phase = Completing
       /\ wk.next = Aborted /\ AbortActions = {} => AbortRequested(wk.obj)
  /\ wk.pc = "finalize" /\ wk.obj.phase \in {Running, Completing, Recovering}
       => records = {}
  /\ ~registered => records = {}

\* After a rollback that was persisted, no copy that can still be read would
\* run the action again.
Undone ==
  /\ api.phase \in {Recovering, Completed} =>
       /\ records = {}
       /\ cache.phase \in Past
       /\ wk.pc = "idle" \/ wk.obj.phase \in Past
  /\ AbortActions = {} /\ api.phase = Aborted =>
       /\ records = {}
       /\ AbortRequested(cache)
       /\ wk.pc = "idle" \/ AbortRequested(wk.obj)

\* After an early veto, every version past the early phases shows it.
Veto ==
  /\ execs > 0 => api.phase \notin Early
  /\ vetoed =>
       /\ execs = 0
       /\ api.phase \notin {Completing, Recovering, Completed}
       /\ AbortRequested(api) \/ api.deleting
       /\ \A v \in Copies : v.phase \notin Early => AbortRequested(v) \/ v.deleting

\* An empty watch means the cache is current, and a copy that is older than
\* the cache means the key was queued again meanwhile.
Wakeups ==
  /\ NotForgotten
  /\ IF watch = {} THEN cache = api ELSE api \in watch
  /\ wk.pc # "idle" => queued \/ wk.obj = cache

IInv == TypeOK /\ Versions /\ Shape /\ Worker /\ Undone /\ Veto /\ FaultsAreProtected /\ Wakeups-----------------------------------------------------------------------------
(* What a step does to the versions: five kinds of step, so that the facts *)
(* about versions need five cases and not one per action.                  *)

\* w is what one accepted write makes of v.
Successor(v, w) ==
  /\ v.present
  /\ w.rv = v.rv + 1
  /\ v.aborts \subseteq w.aborts
  /\ v.deleting => w.deleting
  /\ w.valid = v.valid
  /\ v.finalizer /\ w.present => w.finalizer
  /\ \/ w.phase = v.phase
     \/ /\ <<v.phase, w.phase>> \in Edges
        /\ v.finalizer
        /\ v.phase = Pending => w.phase = Failed \/ v.valid

Write ==
  /\ Successor(api, api')
  /\ watch' = watch \cup {api'}
  /\ cache' = cache
  /\ wk' \in {wk, Idle}

Quiet ==
  /\ UNCHANGED <<api, watch, cache>>
  /\ wk'.obj \in {wk.obj, NoVersion}

\* What the phase edges have in common: none leaves an end, none returns.
LEMMA EdgesFacts ==
  ASSUME NEW p, NEW q, <<p, q>> \in Edges
  PROVE  /\ p \in Phases /\ q \in Phases
         /\ p \notin Terminal /\ q # Pending
         /\ p \in Past => q \in Past
         /\ p \notin Early => q \notin Early
         /\ q \in {Recovering, Completed} => p \in Past
         /\ p = q => FALSE
BY DEF Edges, Phases, Terminal, Past, Early, Pending, SteadyStateChecking, Running,
       Completing, Recovering, Completed, Failed, Aborted

\* The edges that the handlers take.
LEMMA EdgesAre ==
  /\ <<Pending, SteadyStateChecking>> \in Edges /\ <<Pending, Running>> \in Edges
  /\ <<SteadyStateChecking, Running>> \in Edges
  /\ <<Running, Completing>> \in Edges /\ <<Running, Aborted>> \in Edges
  /\ <<Completing, Recovering>> \in Edges /\ <<Completing, Completed>> \in Edges
  /\ <<Recovering, Completed>> \in Edges
  /\ <<Pending, Failed>> \in Edges /\ <<SteadyStateChecking, Failed>> \in Edges
  /\ <<Running, Failed>> \in Edges /\ <<Completing, Failed>> \in Edges
  /\ <<Recovering, Failed>> \in Edges
BY DEF Edges, Phases, Terminal, Pending, SteadyStateChecking, Running,
       Completing, Recovering, Completed, Failed, Aborted

\* Optimistic concurrency: a write that is accepted starts from api itself.
LEMMA FreshIsApi ==
  ASSUME Versions, Fresh
  PROVE  wk.obj = api /\ api.present
BY DEF Versions, Copies, Fresh

\* A status write along an edge is a write of the kind that Write describes.
LEMMA SetPhaseWrites ==
  ASSUME TypeOK, Versions, NEW p \in Phases, SetPhase(p), UNCHANGED cache,
         <<wk.obj.phase, p>> \in Edges, wk.obj.finalizer,
         wk.obj.phase = Pending => p = Failed \/ wk.obj.valid
  PROVE  Write
<1>1. wk.obj = api /\ api.present
  BY FreshIsApi DEF SetPhase
<1>2. /\ api' = [api EXCEPT !.phase = p, !.started = @ \/ p = Running, !.rv = api.rv + 1]
      /\ watch' = watch \cup {api'}
      /\ wk' = Idle
  BY <1>1 DEF SetPhase, Put, Return
<1> QED
  BY <1>1, <1>2 DEF Write, Successor, TypeOK, Version
\* Every step is of one of the five kinds.
LEMMA StepKinds ==
  ASSUME TypeOK, Versions, Shape, Worker, [Next]_vars
  PROVE  Write \/ Deliver \/ Get \/ Restart \/ Quiet
<1> USE DEF vars, store, queue, time, exec
<1>a. ASSUME NEW p, Reconciling(p) PROVE wk.obj.phase = p /\ wk.obj.finalizer
  BY <1>a DEF Reconciling
<1>1. CASE UNCHANGED vars
  BY <1>1 DEF Quiet
<1>2. CASE Deliver \/ Get \/ Restart
  BY <1>2
<1>3. CASE TimerFires
  BY <1>3 DEF TimerFires, Quiet
<1>4. CASE Tick
  BY <1>4 DEF Tick, Quiet
<1>6. CASE ReconcileError
  BY <1>6 DEF ReconcileError, Return, Idle, Quiet
<1>7. CASE AddFinalizer
  <2>1. api' = [api EXCEPT !.finalizer = TRUE, !.rv = api.rv + 1]
    BY <1>7, FreshIsApi DEF AddFinalizer, Put
  <2> QED
    BY <1>7, <2>1, FreshIsApi DEF AddFinalizer, Put, Return, Write, Successor, TypeOK, Version
<1>8. CASE ReconcilePending
  BY <1>8, <1>a, PhasesFacts, EdgesAre, SetPhaseWrites DEF ReconcilePending
<1>9. CASE ReconcileSteadyStateChecking
  BY <1>9, <1>a, PhasesFacts, EdgesAre, EdgesFacts, SetPhaseWrites
  DEF ReconcileSteadyStateChecking, Pending, SteadyStateChecking
<1>10. CASE HandleAbort
  <2>1. CASE registered
    BY <1>10, <2>1 DEF HandleAbort, Rollback, Quiet, TypeOK
  <2>2. CASE ~registered
    BY <1>10, <2>2, <1>a, PhasesFacts, EdgesAre, SetPhaseWrites
    DEF HandleAbort, Pending, Running
  <2> QED
    BY <2>1, <2>2
<1>11. CASE TransitionToCompleting
  BY <1>11, <1>a, PhasesFacts, EdgesAre, SetPhaseWrites
  DEF TransitionToCompleting, Pending, Running
<1>12. CASE RunAction
  <2>1. CASE registered
    BY <1>12, <2>1 DEF RunAction, Execute, Quiet, TypeOK
  <2>2. CASE ~registered
    BY <1>12, <2>2, <1>a, PhasesFacts, EdgesAre, SetPhaseWrites
    DEF RunAction, Pending, Running
  <2> QED
    BY <2>1, <2>2
<1>13. CASE KeepRunning
  BY <1>13 DEF KeepRunning, Return, Idle, Quiet
<1>14. CASE ReconcileCompleting
  <2>1. CASE registered
    BY <1>14, <2>1 DEF ReconcileCompleting, Rollback, Quiet, TypeOK
  <2>2. CASE ~registered
    BY <1>14, <2>2, <1>a, PhasesFacts, EdgesAre, SetPhaseWrites
    DEF ReconcileCompleting, Pending, Completing
  <2> QED
    BY <2>1, <2>2
<1>15. CASE ReconcileRecovering
  <2>1. CASE Return(TRUE) /\ UNCHANGED store
    BY <1>15, <2>1 DEF ReconcileRecovering, Return, Idle, Quiet
  <2>2. CASE SetPhase(Completed) \/ SetPhase(Failed)
    BY <1>15, <2>2, <1>a, PhasesFacts, EdgesAre, SetPhaseWrites
    DEF ReconcileRecovering, Pending, Recovering
  <2> QED
    BY <1>15, <2>1, <2>2 DEF ReconcileRecovering
<1>16. CASE ReconcileTerminal
  BY <1>16 DEF ReconcileTerminal, Return, Idle, Quiet
<1>17. CASE HandleDeletion
  BY <1>17 DEF HandleDeletion, Rollback, Quiet, TypeOK
<1>18. CASE RollbackFailedExecute
  BY <1>18 DEF RollbackFailedExecute, Rollback, Quiet, TypeOK
<1>19. CASE MarkExecuted
  BY <1>19 DEF MarkExecuted, Put, Return, Idle, Quiet, Write, Successor, TypeOK, Version
<1>20. CASE WritePhase
  <2>1. SetPhase(wk.next) /\ <<wk.obj.phase, wk.next>> \in Edges
    BY <1>20 DEF WritePhase, Worker
  <2>2. wk.obj.phase # Pending /\ wk.obj.finalizer
    BY <1>20, <2>1, FreshIsApi
    DEF WritePhase, SetPhase, Shape, Worker, Pending, Running, Completing
  <2> QED
    BY <1>20, <2>1, <2>2, SetPhaseWrites DEF WritePhase, TypeOK
<1>21. CASE RemoveFinalizer
  <2>1. api' = [api EXCEPT !.finalizer = FALSE, !.present = FALSE, !.rv = api.rv + 1]
    BY <1>21, FreshIsApi DEF RemoveFinalizer, Put
  <2> QED
    BY <1>21, <2>1, FreshIsApi DEF RemoveFinalizer, Put, Return, Write, Successor, TypeOK, Version
<1>22. CASE UserAbort
  BY <1>22 DEF UserAbort, Put, Write, Successor, TypeOK, Version
<1>23. CASE UserDelete
  BY <1>23 DEF UserDelete, Put, Write, Successor, TypeOK, Version
<1>24. CASE UserDropsSteadyState
  BY <1>24 DEF UserDropsSteadyState, Put, Write, Successor, TypeOK, Version
<1> QED
  BY <1>1, <1>2, <1>3, <1>4, <1>6, <1>7, <1>8, <1>9, <1>10, <1>11, <1>12,
     <1>13, <1>14, <1>15, <1>16, <1>17, <1>18, <1>19, <1>20, <1>21, <1>22, <1>23, <1>24
  DEF Next, Reconcile, Handle, Finish, User
\* What NoVersion shows: it precedes every version and claims nothing.
LEMMA NoVersionFacts ==
  /\ NoVersion.rv = 0 /\ NoVersion.aborts = {} /\ NoVersion.phase = Pending
  /\ NoVersion.valid = FALSE /\ NoVersion.finalizer = FALSE
  /\ NoVersion.present = FALSE
  /\ Pending \notin Past /\ Pending \in Early
BY DEF NoVersion, Past, Early, Terminal, Pending, SteadyStateChecking, Completing,
       Recovering, Completed, Failed, Aborted

\* A write keeps what Before promises.
LEMMA SuccessorBefore ==
  ASSUME NEW v, NEW w, Successor(v, w)
  PROVE  Before(v, w)
BY EdgesFacts DEF Successor, Before

\* Older is transitive on the versions of the object.
LEMMA BeforeTransitive ==
  ASSUME NEW u, NEW v, NEW w, Before(u, v), Before(v, w)
  PROVE  Before(u, w)
BY DEF Before

\* Every step keeps cached and delivered versions older than the stored one.
LEMMA VersionsNext ==
  ASSUME TypeOK, TypeOK', Versions, Shape, Worker, [Next]_vars
  PROVE  Versions'
<1> USE NoVersionFacts
<1>0. api.rv \in Nat /\ \A v \in watch : v.rv \in Nat
  BY DEF TypeOK, Version
<1>1. CASE Write
  <2>1. /\ api'.rv = api.rv + 1 /\ Before(api, api')
        /\ watch' = watch \cup {api'} /\ cache' = cache
        /\ wk'.obj \in {wk.obj, NoVersion}
    BY <1>1, SuccessorBefore DEF Write, Successor, Idle
  <2>2. \A v \in Copies' : v = api' \/ v \in Copies \/ v = NoVersion
    BY <2>1 DEF Copies
  <2>3. \A v \in Copies : v.rv \in Nat /\ v.rv < api'.rv
    BY <1>0, <2>1 DEF Versions, TypeOK, Version, Copies
  <2>4. \A v \in Copies' : v.rv <= api'.rv /\ (v.rv = api'.rv => v = api')
    BY <1>0, <2>1, <2>2, <2>3
  <2>5. \A v \in Copies : Before(v, api')
    BY <2>1, BeforeTransitive DEF Versions
  <2>6. Before(NoVersion, api') /\ Before(NoVersion, cache') /\ Before(api', api')
    BY DEF Before
  <2>7. \A v \in Copies' : Before(v, api')
    BY <2>2, <2>5, <2>6
  <2>8. \A v, w \in watch' : v.rv <= w.rv => Before(v, w)
    <3> SUFFICES ASSUME NEW v \in watch', NEW w \in watch', v.rv <= w.rv PROVE Before(v, w)
      OBVIOUS
    <3>1. CASE w = api'
      BY <3>1, <2>7 DEF Copies
    <3>2. CASE w \in watch /\ v \in watch
      BY <3>2 DEF Versions
    <3>3. CASE w \in watch /\ v = api'
      BY <3>3, <2>3, <1>0, <2>1 DEF Copies
    <3> QED
      BY <3>1, <3>2, <3>3, <2>1
  <2>9. \A v \in watch' : Before(cache', v)
    BY <2>1, <2>5 DEF Versions, Copies
  <2>10. Before(wk'.obj, cache')
    BY <2>1, <2>6 DEF Versions
  <2> QED
    BY <1>0, <2>1, <2>4, <2>7, <2>8, <2>9, <2>10 DEF Versions
<1>2. CASE Deliver
  <2>1. PICK v \in watch : /\ \A w \in watch : v.rv <= w.rv
                          /\ watch' = watch \ {v} /\ cache' = v
                          /\ api' = api /\ wk' = wk
    BY <1>2 DEF Deliver
  <2>2. Copies' \subseteq Copies
    BY <2>1 DEF Copies
  <2>3. Before(wk.obj, v)
    BY <2>1, BeforeTransitive DEF Versions
  <2> QED
    BY <2>1, <2>2, <2>3 DEF Versions
<1>3. CASE Get
  <2>1. /\ UNCHANGED <<api, watch, cache>>
        /\ wk'.obj \in {cache, wk.obj}
    BY <1>3 DEF Get, store, TypeOK
  <2>2. Copies' \subseteq Copies
    BY <2>1 DEF Copies
  <2>3. Before(cache, cache)
    BY DEF Before
  <2> QED
    BY <2>1, <2>2, <2>3 DEF Versions
<1>4. CASE Restart
  <2>1. api' = api /\ watch' = {} /\ cache' = api /\ wk'.obj = NoVersion
    BY <1>4 DEF Restart, Idle
  <2>2. Before(api, api) /\ Before(NoVersion, api)
    BY DEF Before
  <2> QED
    BY <1>0, <2>1, <2>2 DEF Versions, Copies
<1>5. CASE Quiet
  <2>1. UNCHANGED <<api, watch, cache>> /\ wk'.obj \in {wk.obj, NoVersion}
    BY <1>5 DEF Quiet
  <2>2. Before(NoVersion, api) /\ Before(NoVersion, cache)
    BY DEF Before
  <2>3. \A v \in Copies' : v \in Copies \/ v = NoVersion
    BY <2>1 DEF Copies
  <2> QED
    BY <1>0, <2>1, <2>2, <2>3 DEF Versions
<1> QED
  BY <1>1, <1>2, <1>3, <1>4, <1>5, StepKinds

\* Every step keeps what a version's phase says of its other fields.
LEMMA ShapeNext ==
  ASSUME TypeOK, TypeOK', Versions, Shape, Worker, [Next]_vars
  PROVE  Shape'
<1> USE NoVersionFacts
<1>1. CASE Write
  <2>1. /\ Successor(api, api')
        /\ \A v \in Copies' : v = api' \/ v \in Copies \/ v = NoVersion
    BY <1>1 DEF Write, Copies, Idle
  <2>2. api'.phase \notin {Pending, Failed} => api'.valid
    BY <2>1, EdgesFacts DEF Successor, Shape, Terminal
  <2>3. api'.phase # Pending /\ api'.present => api'.finalizer
    BY <2>1 DEF Successor, Shape
  <2>4. \A v \in Copies :
          /\ v.valid => api'.valid
          /\ v.finalizer /\ api'.present => api'.finalizer
          /\ v.phase \notin Early => api'.phase \notin Early
    BY <2>1, EdgesFacts DEF Successor, Shape
  <2> QED
    BY <2>1, <2>2, <2>3, <2>4 DEF Shape
<1>2. CASE Deliver
  BY <1>2 DEF Deliver, Copies, Shape
<1>3. CASE Get
  <2>1. UNCHANGED <<api, watch, cache>> /\ wk'.obj \in {cache, wk.obj}
    BY <1>3 DEF Get, store, TypeOK
  <2> QED
    BY <2>1 DEF Shape, Copies
<1>4. CASE Restart
  BY <1>4 DEF Restart, Idle, Shape, Copies
<1>5. CASE Quiet
  BY <1>5 DEF Quiet, Shape, Copies
<1> QED
  BY <1>1, <1>2, <1>3, <1>4, <1>5, StepKinds

\* Every step keeps what the worker's place in a handler says of its copy.
LEMMA WorkerNext ==
  ASSUME TypeOK, TypeOK', Versions, Shape, Worker, [Next]_vars
  PROVE  Worker'
<1> USE DEF vars, store, queue, time, exec
<1>a. ASSUME wk' = Idle, UNCHANGED <<registered, records>>
      PROVE  Worker'
  BY <1>a DEF Worker, Idle
<1>b. ASSUME UNCHANGED <<wk, registered, records>>
      PROVE  Worker'
  BY <1>b DEF Worker
<1>c. ASSUME NEW p, SetPhase(p) PROVE wk' = Idle
  BY <1>c DEF SetPhase, Return
<1>1. CASE UNCHANGED vars
  BY <1>1, <1>b
<1>2. CASE Deliver \/ TimerFires \/ Tick \/ User
  BY <1>2, <1>b DEF Deliver, TimerFires, Tick, User, UserAbort, UserDelete, UserDropsSteadyState
<1>3. CASE Get
  <2>1. /\ wk'.pc \in {"got", wk.pc} /\ wk.pc = "idle"
        /\ wk'.pc = "idle" => wk' = wk
        /\ UNCHANGED <<registered, records>>
    BY <1>3 DEF Get, TypeOK
  <2> QED
    BY <2>1 DEF Worker
<1>4. CASE Restart
  BY <1>4 DEF Restart, Worker, Idle
<1>5. CASE \/ ReconcileError \/ AddFinalizer \/ KeepRunning \/ ReconcileTerminal
           \/ MarkExecuted \/ RemoveFinalizer
  BY <1>5, <1>a DEF ReconcileError, AddFinalizer, KeepRunning, ReconcileTerminal,
                    MarkExecuted, RemoveFinalizer, Return
<1>6. CASE \/ ReconcilePending \/ ReconcileSteadyStateChecking \/ TransitionToCompleting
           \/ ReconcileRecovering \/ WritePhase
  <2>1. UNCHANGED <<registered, records>>
    BY <1>6 DEF ReconcilePending, ReconcileSteadyStateChecking, TransitionToCompleting,
                ReconcileRecovering, WritePhase
  <2>2. wk' = Idle
    BY <1>6, <1>c DEF ReconcilePending, ReconcileSteadyStateChecking, TransitionToCompleting,
                      ReconcileRecovering, WritePhase, Return
  <2> QED
    BY <2>1, <2>2, <1>a
<1>7. CASE HandleAbort
  <2>1. CASE registered
    <3>1. /\ records' = {} /\ wk'.pc = "rolledBack" /\ wk'.obj = wk.obj
          /\ wk'.next \in {Aborted, Failed}
          /\ wk.obj.phase = Running
          /\ AbortActions = {} => AbortRequested(wk.obj)
      BY <1>7, <2>1 DEF HandleAbort, Rollback, Reconciling, TypeOK
    <3> QED
      BY <3>1, EdgesAre
      DEF Worker, AbortRequested, Aborted, Failed, Completing, Recovering, Completed
  <2>2. CASE ~registered
    BY <1>7, <2>2, <1>a, <1>c DEF HandleAbort
  <2> QED
    BY <2>1, <2>2
<1>8. CASE RunAction
  <2>1. CASE registered
    <3>1. /\ registered' /\ wk'.pc \in {"executed", "executeFailed"} /\ wk'.obj = wk.obj
          /\ wk.obj.phase = Running
      BY <1>8, <2>1 DEF RunAction, Execute, Reconciling, TypeOK
    <3> QED
      BY <3>1 DEF Worker
  <2>2. CASE ~registered
    BY <1>8, <2>2, <1>a, <1>c DEF RunAction
  <2> QED
    BY <2>1, <2>2
<1>9. CASE ReconcileCompleting
  <2>1. CASE registered
    <3>1. /\ records' = {} /\ wk'.pc = "rolledBack" /\ wk'.obj = wk.obj
          /\ wk'.next \in {Recovering, Completed, Failed}
          /\ wk.obj.phase = Completing
      BY <1>9, <2>1 DEF ReconcileCompleting, Rollback, Reconciling, TypeOK
    <3> QED
      BY <3>1, EdgesAre DEF Worker, Aborted, Failed, Completing, Recovering, Completed
  <2>2. CASE ~registered
    BY <1>9, <2>2, <1>a, <1>c DEF ReconcileCompleting
  <2> QED
    BY <2>1, <2>2
<1>10. CASE HandleDeletion
  <2>1. wk'.pc = "finalize" /\ wk'.obj = wk.obj /\ registered' = registered
    BY <1>10 DEF HandleDeletion, Rollback, TypeOK
  <2>2. \/ records' = {}
        \/ /\ records' = records
           /\ wk.obj.phase \notin {Running, Completing, Recovering} \/ ~registered
    BY <1>10 DEF HandleDeletion, Rollback
  <2> QED
    BY <2>1, <2>2 DEF Worker
<1>11. CASE RollbackFailedExecute
  <2>1. /\ records' = {} /\ wk'.pc = "rolledBack" /\ wk'.obj = wk.obj
        /\ wk'.next = Failed /\ wk.obj.phase = Running
    BY <1>11 DEF RollbackFailedExecute, Rollback, Worker, TypeOK
  <2> QED
    BY <2>1, EdgesAre DEF Worker, Aborted, Failed, Completing, Recovering, Completed
<1> QED
  BY <1>1, <1>2, <1>3, <1>4, <1>5, <1>6, <1>7, <1>8, <1>9, <1>10, <1>11
  DEF Next, Reconcile, Handle, Finish, User

\* A status write goes through only for the current copy.
LEMMA SetPhaseSets ==
  ASSUME TypeOK, Versions, NEW p \in Phases, SetPhase(p)
  PROVE  api'.phase = p /\ wk' = Idle /\ wk.obj = api
BY FreshIsApi DEF SetPhase, Put, Return, TypeOK, Version

\* The writes that leave the status alone.
LEMMA PhaseKept ==
  ASSUME TypeOK, Versions, AddFinalizer \/ MarkExecuted \/ RemoveFinalizer \/ User
  PROVE  /\ api'.phase = api.phase /\ cache' = cache
         /\ UNCHANGED exec
         /\ wk' \in {wk, Idle}
<1>1. CASE AddFinalizer
  BY <1>1, FreshIsApi DEF AddFinalizer, Put, Return, TypeOK, Version
<1>2. CASE MarkExecuted
  BY <1>2 DEF MarkExecuted, Put, Return, TypeOK, Version, store
<1>3. CASE RemoveFinalizer
  BY <1>3, FreshIsApi DEF RemoveFinalizer, Put, Return, TypeOK, Version
<1>4. CASE User
  BY <1>4 DEF User, UserAbort, UserDelete, UserDropsSteadyState, Put, TypeOK, Version
<1> QED
  BY <1>1, <1>2, <1>3, <1>4

\* A rollback takes the records and leaves the copy alone.
LEMMA RollbackFacts ==
  ASSUME TypeOK, NEW pc, NEW p, NEW q, Rollback(pc, p, q)
  PROVE  records' = {} /\ wk'.obj = wk.obj /\ wk'.pc = pc
BY DEF Rollback, TypeOK

\* Every step keeps executor records away from experiments past their rollback.
LEMMA UndoneNext ==
  ASSUME TypeOK, TypeOK', Versions, Shape, Worker, Undone, [Next]_vars
  PROVE  Undone'
<1> USE DEF vars, store, queue, time, exec
<1>a. ASSUME api'.phase = api.phase, records' \in {records, {}}, cache' = cache,
             wk'.pc = "idle" \/ (wk.pc # "idle" /\ wk'.obj = wk.obj)
      PROVE  Undone'
  BY <1>a DEF Undone, AbortRequested
<1>b. ASSUME NEW p \in Phases \ {Recovering, Completed, Aborted}, SetPhase(p)
      PROVE  Undone'
  BY <1>b, SetPhaseSets DEF Undone
<1>1. CASE UNCHANGED vars
  BY <1>1, <1>a DEF Undone, AbortRequested
<1>2. CASE TimerFires \/ Tick
  BY <1>2 DEF TimerFires, Tick, Undone, AbortRequested
<1>3. CASE Deliver
  <2>1. PICK v \in watch : cache' = v /\ UNCHANGED <<api, wk, records>>
    BY <1>3 DEF Deliver
  <2>2. Before(cache, v)
    BY DEF Versions
  <2> QED
    BY <2>1, <2>2 DEF Undone, Before, AbortRequested
<1>4. CASE Get
  <2>1. wk'.pc = "idle" \/ wk'.obj = cache
    BY <1>4 DEF Get, TypeOK
  <2> QED
    BY <1>4, <2>1 DEF Get, Undone, AbortRequested
<1>5. CASE Restart
  BY <1>5
  DEF Restart, Undone, Idle, AbortRequested, Versions, Before, Copies, Past, Terminal
<1>6. CASE AddFinalizer \/ MarkExecuted \/ RemoveFinalizer \/ User
  BY <1>6, PhaseKept DEF Undone, Idle, AbortRequested
<1>7. CASE ReconcileError \/ KeepRunning \/ ReconcileTerminal
  BY <1>7, <1>a DEF ReconcileError, KeepRunning, ReconcileTerminal, Return, Idle
<1>8. CASE ReconcilePending \/ ReconcileSteadyStateChecking \/ TransitionToCompleting
  <2>1. \E p \in {Failed, SteadyStateChecking, Running, Completing} : SetPhase(p)
    BY <1>8 DEF ReconcilePending, ReconcileSteadyStateChecking, TransitionToCompleting
  <2> QED
    BY <2>1, <1>b, PhasesFacts
    DEF SteadyStateChecking, Running, Completing, Recovering, Completed, Failed, Aborted
<1>9. CASE HandleAbort \/ ReconcileCompleting
  <2>1. CASE registered
    BY <1>9, <2>1, <1>a, RollbackFacts DEF HandleAbort, ReconcileCompleting, Reconciling
  <2>2. CASE ~registered
    BY <1>9, <2>2, <1>b, PhasesFacts
    DEF HandleAbort, ReconcileCompleting, Recovering, Completed, Failed, Aborted
  <2> QED
    BY <2>1, <2>2
<1>10. CASE HandleDeletion
  <2>1. wk.pc = "got" /\ wk'.obj = wk.obj /\ records' \in {records, {}}
    BY <1>10, RollbackFacts DEF HandleDeletion, TypeOK
  <2> QED
    BY <1>10, <2>1, <1>a DEF HandleDeletion
<1>11. CASE RollbackFailedExecute
  BY <1>11, <1>a, RollbackFacts DEF RollbackFailedExecute
<1>12. CASE RunAction
  <2>1. CASE registered
    <3>1. /\ wk.pc = "got" /\ wk.obj.phase = Running /\ ~AbortRequested(wk.obj)
          /\ api' = api
      BY <1>12, <2>1 DEF RunAction, Reconciling
    <3>2. Running \notin Past
      BY DEF Past, Terminal, Running, Completing, Recovering, Completed, Failed, Aborted
    <3> QED
      BY <3>1, <3>2 DEF Undone
  <2>2. CASE ~registered
    BY <1>12, <2>2, <1>b, PhasesFacts DEF RunAction, Recovering, Completed, Failed, Aborted
  <2> QED
    BY <2>1, <2>2
<1>13. CASE WritePhase
  <2>1. /\ api'.phase = wk.next /\ wk' = Idle /\ wk.obj = api
        /\ records' = {} /\ cache' = cache /\ Before(wk.obj, cache)
        /\ wk.next \in {Recovering, Completed} => wk.obj.phase = Completing
        /\ wk.next = Aborted /\ AbortActions = {} => AbortRequested(wk.obj)
    BY <1>13, SetPhaseSets DEF WritePhase, Worker, TypeOK, Versions
  <2>2. Completing \in Past
    BY DEF Past
  <2> QED
    BY <2>1, <2>2
    DEF Undone, Before, AbortRequested, Idle, Recovering, Completed, Aborted
<1>14. CASE ReconcileRecovering
  <2>1. CASE Return(TRUE) /\ UNCHANGED store
    BY <1>14, <2>1, <1>a DEF ReconcileRecovering, Return, Idle
  <2>2. CASE SetPhase(Completed)
    <3>1. api'.phase = Completed /\ wk' = Idle /\ wk.obj = api
      BY <2>2, SetPhaseSets, PhasesFacts
    <3>2. api.phase = Recovering /\ UNCHANGED <<cache, records>>
      BY <1>14, <3>1 DEF ReconcileRecovering, Reconciling
    <3> QED
      BY <3>1, <3>2 DEF Undone, Idle, Completed, Aborted
  <2>3. CASE SetPhase(Failed)
    BY <2>3, <1>b, PhasesFacts DEF Recovering, Completed, Failed, Aborted
  <2> QED
    BY <1>14, <2>1, <2>2, <2>3 DEF ReconcileRecovering
<1> QED
  BY <1>1, <1>2, <1>3, <1>4, <1>5, <1>6, <1>7, <1>8, <1>9, <1>10, <1>11, <1>12, <1>13, <1>14
  DEF Next, Reconcile, Handle, Finish

\* Every step keeps an early abort from being overrun.
LEMMA VetoNext ==
  ASSUME TypeOK, TypeOK', Versions, Shape, Worker, Veto, [Next]_vars
  PROVE  Veto'
<1> USE NoVersionFacts DEF vars, store, queue, time, exec
<1> DEFINE Finishing == {Completing, Recovering, Completed}
<1>a. ASSUME Write \/ Quiet, UNCHANGED <<execs, vetoed>>, vetoed => api'.phase \notin Finishing
      PROVE  Veto'
  <2>1. CASE Write
    <3>1. /\ Successor(api, api')
          /\ \A v \in Copies' : v = api' \/ v \in Copies \/ v = NoVersion
      BY <2>1 DEF Write, Copies, Idle
    <3>2. api.phase \notin Early => api'.phase \notin Early
      BY <3>1, EdgesFacts DEF Successor
    <3>3. AbortRequested(api) \/ api.deleting => AbortRequested(api') \/ api'.deleting
      BY <3>1 DEF Successor, AbortRequested
    <3> QED
      BY <1>a, <3>1, <3>2, <3>3 DEF Veto, AbortRequested
  <2>2. CASE Quiet
    BY <1>a, <2>2 DEF Quiet, Veto, Copies, AbortRequested
  <2> QED
    BY <1>a, <2>1, <2>2
<1>b. ASSUME NEW p, Reconciling(p), p \notin Early, vetoed PROVE AbortRequested(wk.obj)
  BY <1>b DEF Reconciling, Veto, Copies
<1>c. Running \notin Early /\ Completing \notin Early /\ Recovering \notin Early
  BY DEF Early, Pending, SteadyStateChecking, Running, Completing, Recovering
<1>d. {Failed, SteadyStateChecking, Running, Aborted} \cap Finishing = {}
  BY DEF Failed, Aborted, SteadyStateChecking, Running, Completing, Recovering, Completed
<1>1. CASE Deliver
  BY <1>1 DEF Deliver, Veto, Copies, AbortRequested
<1>2. CASE Get
  <2>1. UNCHANGED <<api, watch, cache, execs, vetoed>> /\ wk'.obj \in {cache, wk.obj}
    BY <1>2 DEF Get, TypeOK
  <2> QED
    BY <2>1 DEF Veto, Copies, AbortRequested
<1>3. CASE Restart
  BY <1>3 DEF Restart, Idle, Veto, Copies, AbortRequested
<1>4. CASE Write \/ Quiet
  <2>0. ASSUME NEW p \in Phases, SetPhase(p), p \notin Finishing PROVE api'.phase \notin Finishing
    BY <2>0, SetPhaseSets
  <2>1. CASE UNCHANGED vars
    BY <2>1, <1>4, <1>a DEF Veto
  <2>2. CASE Deliver \/ Get \/ Restart
    BY <2>2, <1>1, <1>2, <1>3
  <2>3. CASE \/ TimerFires \/ Tick \/ ReconcileError \/ KeepRunning \/ ReconcileTerminal
             \/ HandleDeletion \/ RollbackFailedExecute
    <3>1. UNCHANGED <<execs, vetoed, api>>
      BY <2>3 DEF TimerFires, Tick, ReconcileError, KeepRunning, ReconcileTerminal,
                  HandleDeletion, RollbackFailedExecute, Rollback
    <3> QED
      BY <3>1, <1>4, <1>a DEF Veto
  <2>4. CASE AddFinalizer \/ MarkExecuted \/ RemoveFinalizer \/ UserDropsSteadyState
    <3>1. UNCHANGED <<execs, vetoed>> /\ api'.phase = api.phase
      BY <2>4, PhaseKept DEF AddFinalizer, MarkExecuted, RemoveFinalizer, UserDropsSteadyState, User
    <3> QED
      BY <3>1, <1>4, <1>a DEF Veto
  <2>5. CASE ReconcilePending \/ ReconcileSteadyStateChecking
    <3>1. \E p \in {Failed, SteadyStateChecking, Running} : SetPhase(p)
      BY <2>5 DEF ReconcilePending, ReconcileSteadyStateChecking
    <3>2. api'.phase \notin Finishing
      BY <3>1, <2>0, <1>d, PhasesFacts
    <3>3. UNCHANGED <<execs, vetoed>>
      BY <2>5 DEF ReconcilePending, ReconcileSteadyStateChecking
    <3> QED
      BY <3>2, <3>3, <1>4, <1>a
  <2>6. CASE HandleAbort \/ ReconcileCompleting
    <3>1. UNCHANGED <<execs, vetoed>>
      BY <2>6 DEF HandleAbort, ReconcileCompleting, Rollback
    <3>2. api' = api \/ SetPhase(Failed)
      BY <2>6 DEF HandleAbort, ReconcileCompleting
    <3>3. vetoed => api'.phase \notin Finishing
      BY <3>2, <2>0, <1>d, PhasesFacts DEF Veto
    <3> QED
      BY <3>1, <3>3, <1>4, <1>a
  <2>7. CASE TransitionToCompleting
    <3>1. ~vetoed /\ UNCHANGED <<execs, vetoed>>
      BY <2>7, <1>b, <1>c DEF TransitionToCompleting
    <3> QED
      BY <3>1, <1>4, <1>a
  <2>8. CASE RunAction
    <3>1. ~vetoed /\ UNCHANGED vetoed
      BY <2>8, <1>b, <1>c DEF RunAction
    <3>2. CASE registered
      <4>1. api' = api /\ api.phase \notin Early
        BY <2>8, <3>2, <1>c DEF RunAction, Reconciling, Shape, Copies
      <4> QED
        BY <3>1, <4>1 DEF Veto
    <3>3. CASE ~registered
      BY <2>8, <3>1, <3>3, <1>4, <1>a DEF RunAction
    <3> QED
      BY <3>2, <3>3
  <2>9. CASE WritePhase
    <3>1. api'.phase = wk.next /\ wk.obj = api /\ UNCHANGED <<execs, vetoed>>
      BY <2>9, SetPhaseSets DEF WritePhase, TypeOK
    <3>2. <<api.phase, api'.phase>> \in Edges /\ api.phase \in {Running, Completing}
      BY <2>9, <3>1 DEF WritePhase, Worker
    <3>3. api'.phase \in Finishing => api.phase = Completing
      BY <2>9, <3>1, <3>2
      DEF WritePhase, Worker, Edges, Running, Completing, Recovering, Completed, Failed, Aborted, Pending, SteadyStateChecking
    <3> QED
      BY <3>1, <3>3, <1>4, <1>a DEF Veto
  <2>10. CASE ReconcileRecovering
    <3>1. UNCHANGED <<execs, vetoed>> /\ Reconciling(Recovering)
      BY <2>10 DEF ReconcileRecovering
    <3>2. api' = api \/ wk.obj = api
      BY <2>10, SetPhaseSets, PhasesFacts DEF ReconcileRecovering
    <3>3. vetoed => api'.phase \notin Finishing
      BY <3>1, <3>2 DEF Veto, Reconciling
    <3> QED
      BY <3>1, <3>3, <1>4, <1>a
  <2>11. CASE UserAbort \/ UserDelete
    <3>1. execs' = execs /\ api'.phase = api.phase
      BY <2>11, PhaseKept DEF User
    <3>2. CASE vetoed' = vetoed
      BY <3>1, <3>2, <1>4, <1>a DEF Veto
    <3>3. CASE vetoed' # vetoed
      <4>0. ASSUME NEW X \in BOOLEAN, vetoed' = (vetoed \/ X) PROVE X
        BY <4>0, <3>3 DEF TypeOK
      <4>1. EarlyPhase /\ (AbortRequested(api') \/ api'.deleting)
        <5>1. CASE UserAbort
          <6>1. PICK key \in AbortKeys :
                  /\ Put([api EXCEPT !.aborts = @ \cup {key}])
                  /\ vetoed' = (vetoed \/ (EarlyPhase /\ key = "chaosplane.dev/abort"))
            BY <5>1 DEF UserAbort
          <6>2. EarlyPhase /\ key = "chaosplane.dev/abort"
            BY <6>1, <4>0
          <6> QED
            BY <6>1, <6>2 DEF Put, AbortRequested, TypeOK, Version
        <5>2. CASE UserDelete
          <6>1. EarlyPhase
            BY <5>2, <4>0 DEF UserDelete, EarlyPhase
          <6> QED
            BY <5>2, <6>1 DEF UserDelete, Put, TypeOK, Version
        <5> QED
          BY <2>11, <5>1, <5>2
      <4>2. api.phase \in Early /\ execs = 0 /\ api.phase \notin Finishing
        BY <4>1
        DEF EarlyPhase, Early, Veto, TypeOK, Pending, SteadyStateChecking, Completing, Recovering, Completed
      <4>3. \A v \in Copies' : v.phase \in Early
        BY <2>11, <3>1, <4>2 DEF UserAbort, UserDelete, Put, Copies, Shape
      <4> QED
        BY <3>1, <4>1, <4>2, <4>3 DEF Veto
    <3> QED
      BY <3>2, <3>3
  <2> QED
    BY <2>1, <2>2, <2>3, <2>4, <2>5, <2>6, <2>7, <2>8, <2>9, <2>10, <2>11
    DEF Next, Reconcile, Handle, Finish, User
<1> QED
  BY <1>1, <1>2, <1>3, <1>4, StepKinds

\* Every step keeps the finalizer on objects with a live fault.
LEMMA ProtectedNext ==
  ASSUME TypeOK, TypeOK', Versions, Shape, Worker, FaultsAreProtected, [Next]_vars
  PROVE  FaultsAreProtected'
<1> USE DEF vars, store, queue, time, exec
<1>1. CASE RunAction /\ registered
  <2>1. /\ api' = api /\ wk.obj.phase = Running /\ wk.obj.finalizer
    BY <1>1 DEF RunAction, Reconciling
  <2>2. wk.obj.valid
    BY <2>1 DEF Shape, Copies, Running, Pending, Failed
  <2> QED
    BY <2>1, <2>2 DEF FaultsAreProtected, Shape, Copies
<1>2. CASE ~(RunAction /\ registered)
  <2>1. execs' = execs
    BY <1>2 DEF Next, Reconcile, Handle, Finish, User, Deliver, TimerFires, Tick, Get,
      ReconcileError, AddFinalizer, ReconcilePending, ReconcileSteadyStateChecking,
      HandleAbort, TransitionToCompleting, RunAction, KeepRunning, ReconcileCompleting,
      ReconcileRecovering, ReconcileTerminal, HandleDeletion, RollbackFailedExecute,
      MarkExecuted, WritePhase, RemoveFinalizer, UserAbort, UserDelete,
      UserDropsSteadyState, Restart, Rollback
  <2>2. api' = api \/ Successor(api, api')
    BY StepKinds DEF Write, Deliver, Get, Restart, Quiet
  <2> QED
    BY <2>1, <2>2 DEF FaultsAreProtected, Successor
<1> QED
  BY <1>1, <1>2

\* Every step leaves a wakeup for an experiment that has not ended.
LEMMA WakeupsNext ==
  ASSUME TypeOK, TypeOK', Versions, Shape, Worker, Wakeups, [Next]_vars
  PROVE  Wakeups'
<1> USE DEF vars, store, queue, time, exec
<1>b. ASSUME UNCHANGED <<api, watch, cache, queued>>, timer', wk' = Idle PROVE Wakeups'
  BY <1>b DEF Wakeups, NotForgotten, Idle
<1>c. ASSUME UNCHANGED <<api, watch, cache, queued>>,
             wk.pc # "idle", wk'.pc # "idle", wk'.obj = wk.obj
      PROVE  Wakeups'
  BY <1>c DEF Wakeups, NotForgotten
<1>d. ASSUME NEW p, SetPhase(p) PROVE queued' = queued /\ api' \in watch'
  BY <1>d DEF SetPhase, Put, Return
<1>e. ASSUME NEW p \in Phases, SetPhase(p), UNCHANGED cache PROVE Wakeups'
  <2>1. wk' = Idle
    BY <1>e DEF SetPhase, Return
  <2> QED
    BY <1>d, <1>e, <2>1 DEF Wakeups, NotForgotten, Idle
<1>1. CASE UNCHANGED vars
  BY <1>1 DEF Wakeups, NotForgotten
<1>2. CASE Deliver
  <2>1. PICK v \in watch : /\ \A w \in watch : v.rv <= w.rv
                          /\ watch' = watch \ {v} /\ cache' = v /\ queued'
                          /\ UNCHANGED <<api, wk>>
    BY <1>2 DEF Deliver
  <2>2. api \in watch
    BY <2>1 DEF Wakeups
  <2>3. CASE v = api
    <3>1. \A w \in watch : w = api
      BY <2>1, <2>3 DEF Versions, Copies, TypeOK, Version
    <3> QED
      BY <2>1, <2>3, <3>1 DEF Wakeups, NotForgotten
  <2>4. CASE v # api
    BY <2>1, <2>2, <2>4 DEF Wakeups, NotForgotten
  <2> QED
    BY <2>3, <2>4
<1>3. CASE TimerFires
  BY <1>3 DEF TimerFires, Wakeups, NotForgotten
<1>4. CASE Tick
  BY <1>4 DEF Tick, Wakeups, NotForgotten
<1>5. CASE Get
  <2>1. CASE cache.present
    <3>1. wk'.pc = "got" /\ wk'.obj = cache
      BY <1>5, <2>1 DEF Get, TypeOK
    <3> QED
      BY <1>5, <3>1 DEF Get, Wakeups, NotForgotten
  <2>2. CASE ~cache.present
    BY <1>5, <2>2 DEF Get, Wakeups, NotForgotten
  <2> QED
    BY <2>1, <2>2
<1>6. CASE Restart
  BY <1>6 DEF Restart, Wakeups, NotForgotten, Idle
<1>7. CASE ReconcileError \/ KeepRunning
  BY <1>7, <1>b DEF ReconcileError, KeepRunning, Return
<1>8. CASE ReconcileTerminal
  <2>1. /\ wk.pc = "got" /\ ~wk.obj.deleting /\ wk.obj.phase \in Terminal
        /\ wk' = Idle /\ UNCHANGED <<api, watch, cache, queued>>
    BY <1>8 DEF ReconcileTerminal, Reconciling, Return
  <2>2. watch = {} => queued \/ wk.obj = api
    BY <2>1 DEF Wakeups
  <2> QED
    BY <2>1, <2>2 DEF Wakeups, NotForgotten, Idle
<1>9. CASE AddFinalizer \/ RemoveFinalizer
  <2>1. wk' = Idle /\ queued' = queued /\ api' \in watch' /\ cache' = cache
    BY <1>9 DEF AddFinalizer, RemoveFinalizer, Put, Return
  <2> QED
    BY <2>1 DEF Wakeups, NotForgotten, Idle
<1>10. CASE MarkExecuted
  <2>1. wk' = Idle /\ queued' = queued /\ timer' /\ cache' = cache
    BY <1>10 DEF MarkExecuted, Return
  <2>2. (api' = api /\ watch' = watch) \/ api' \in watch'
    BY <1>10 DEF MarkExecuted, Put
  <2> QED
    BY <2>1, <2>2 DEF Wakeups, NotForgotten, Idle
<1>11. CASE User
  <2>1. UNCHANGED <<wk, queued, cache>> /\ api' \in watch'
    BY <1>11 DEF User, UserAbort, UserDelete, UserDropsSteadyState, Put
  <2> QED
    BY <2>1 DEF Wakeups, NotForgotten
<1>12. CASE HandleAbort \/ ReconcileCompleting \/ RunAction
  <2>1. CASE registered
    <3>1. wk.pc = "got" /\ UNCHANGED <<api, watch, cache, queued>>
      BY <1>12, <2>1 DEF HandleAbort, ReconcileCompleting, RunAction, Reconciling
    <3>2. wk'.obj = wk.obj /\ wk'.pc \in {"rolledBack", "executed", "executeFailed"}
      BY <1>12, <2>1, RollbackFacts
      DEF HandleAbort, ReconcileCompleting, RunAction, Execute, TypeOK
    <3> QED
      BY <3>1, <3>2, <1>c
  <2>2. CASE ~registered
    BY <1>12, <2>2, <1>e, PhasesFacts DEF HandleAbort, ReconcileCompleting, RunAction
  <2> QED
    BY <2>1, <2>2
<1>13. CASE HandleDeletion \/ RollbackFailedExecute
  <2>1. wk.pc # "idle" /\ wk'.pc # "idle" /\ wk'.obj = wk.obj
    BY <1>13, RollbackFacts DEF HandleDeletion, RollbackFailedExecute, TypeOK
  <2> QED
    BY <1>13, <2>1, <1>c DEF HandleDeletion, RollbackFailedExecute
<1>14. CASE \/ ReconcilePending \/ ReconcileSteadyStateChecking \/ TransitionToCompleting
            \/ WritePhase
  <2>1. \E p \in Phases : SetPhase(p)
    BY <1>14, PhasesFacts
    DEF ReconcilePending, ReconcileSteadyStateChecking, TransitionToCompleting, WritePhase, TypeOK
  <2> QED
    BY <1>14, <2>1, <1>e
    DEF ReconcilePending, ReconcileSteadyStateChecking, TransitionToCompleting, WritePhase
<1>15. CASE ReconcileRecovering
  BY <1>15, <1>b, <1>e, PhasesFacts DEF ReconcileRecovering, Return
<1> QED
  BY <1>1, <1>2, <1>3, <1>4, <1>5, <1>6, <1>7, <1>8, <1>9, <1>10, <1>11, <1>12,
     <1>13, <1>14, <1>15
  DEF Next, Reconcile, Handle, Finish-----------------------------------------------------------------------------
(* The theorems.                                                           *)

\* The inductive invariant holds for a created experiment.
LEMMA IInvInit == Init => IInv
<1> SUFFICES ASSUME Init, TypeOK PROVE IInv
  BY TypeOKInit
<1> USE NoVersionFacts
<1>1. /\ api.rv = 1 /\ api.aborts = {} /\ api.phase = Pending
      /\ api.present /\ api.finalizer = FALSE
  BY NoVersionType DEF Init, Created, NoVersion, Version
<1>2. watch = {api} /\ cache = NoVersion /\ wk = Idle /\ wk.obj = NoVersion
  BY DEF Init, Idle
<1>3. Versions
  BY <1>1, <1>2 DEF Versions, Copies, Before
<1>4. Shape
  BY <1>1, <1>2 DEF Shape, Copies
<1>5. Worker
  BY <1>2 DEF Worker, Idle, Init
<1>6. Undone /\ Veto /\ FaultsAreProtected
  BY <1>1 DEF Undone, Veto, FaultsAreProtected, Init, Pending, Recovering, Completed, Aborted
<1>7. Wakeups
  BY <1>2 DEF Wakeups, NotForgotten, Idle
<1> QED
  BY <1>3, <1>4, <1>5, <1>6, <1>7 DEF IInv

\* The inductive invariant is preserved by every step.
LEMMA IInvNext == IInv /\ [Next]_vars => IInv'
BY TypeOKNext, VersionsNext, ShapeNext, WorkerNext, UndoneNext, VetoNext, ProtectedNext,
   WakeupsNext
DEF IInv

\* The inductive invariant holds in every reachable state.
LEMMA Invariance == Spec => []IInv
BY IInvInit, IInvNext, PTL DEF Spec

\* Once the status says the action was rolled back, the executor holds no
\* record of a live fault (reconcileCompleting, for any number of Executes).
THEOREM RecoveredIsUndone == Spec => []UndoneWhenRecovered
<1>1. IInv => UndoneWhenRecovered
  BY DEF IInv, Undone, UndoneWhenRecovered
<1> QED
  BY <1>1, Invariance, PTL

\* Without abort conditions, Aborted means undone as well (handleAbort).
THEOREM AbortedIsUndone == Spec => []UndoneWhenAborted
<1>1. IInv => UndoneWhenAborted
  BY DEF IInv, Undone, UndoneWhenAborted
<1> QED
  BY <1>1, Invariance, PTL

\* An abort or a deletion requested before Running is never overtaken by the
\* reconcile in progress (reconcileRunning, handleAbort, handleDeletion).
THEOREM EarlyVetoWins == Spec => []VetoHonoured
<1>1. IInv => VetoHonoured
  BY DEF IInv, Veto, VetoHonoured
<1> QED
  BY <1>1, Invariance, PTL

\* The action runs only for a validated experiment that the finalizer holds.
THEOREM FaultsProtected == Spec => []FaultsAreProtected
<1>1. IInv => FaultsAreProtected
  BY DEF IInv
<1> QED
  BY <1>1, Invariance, PTL

\* A key with work left is always on its way back to the worker.
THEOREM NeverForgotten == Spec => []NotForgotten
<1>1. IInv => NotForgotten
  BY DEF IInv, Wakeups
<1> QED
  BY <1>1, Invariance, PTL

\* An object that goes away in Running, Completing or Recovering leaves no
\* record of a live fault (handleDeletion).
THEOREM DeletionIsClean == Spec => DeletionUndoes
<1>1. ASSUME IInv, [Next]_vars
      PROVE  [api.present /\ ~api'.present /\ api.phase \in {Running, Completing, Recovering}
                => records' = {}]_vars
  <2> SUFFICES ASSUME Next, api.present, ~api'.present,
                      api.phase \in {Running, Completing, Recovering}
               PROVE  records' = {}
    BY <1>1 DEF vars
  <2> USE DEF store, queue, time, exec
  <2>1. api.finalizer
    BY <1>1 DEF IInv, Shape, Pending, Running, Completing, Recovering
  <2>2. ASSUME NEW p, SetPhase(p) PROVE FALSE
    BY <1>1, <2>2, FreshIsApi DEF SetPhase, Put, IInv, TypeOK, Version
  <2>3. RemoveFinalizer
    BY <1>1, <2>1, <2>2, FreshIsApi
    DEF Next, Reconcile, Handle, Finish, User, Deliver, TimerFires, Tick, Get,
        ReconcileError, AddFinalizer, ReconcilePending, ReconcileSteadyStateChecking,
        HandleAbort, TransitionToCompleting, RunAction, KeepRunning, ReconcileCompleting,
        ReconcileRecovering, ReconcileTerminal, HandleDeletion, RollbackFailedExecute,
        MarkExecuted, WritePhase, UserAbort, UserDelete, UserDropsSteadyState, Restart,
        Put, IInv, TypeOK, Version
  <2>4. wk.obj = api /\ wk.pc = "finalize" /\ records' = records
    BY <1>1, <2>3, FreshIsApi DEF RemoveFinalizer, IInv
  <2> QED
    BY <1>1, <2>4 DEF IInv, Worker
<1> QED
  BY <1>1, Invariance, PTL DEF Spec, DeletionUndoes

\* The controller implements the phase machine: the persisted phase moves along
\* its edges only, and never leaves a terminal phase, whatever copies the
\* reconciles work on.
THEOREM RefinesLifecycle == Spec => ImplementsLifecycle
<1>1. Init => Lifecycle!Init
  <2> SUFFICES ASSUME Init PROVE api.phase = Lifecycle!Pending
    BY DEF Lifecycle!Init
  <2> QED
    BY NoVersionType DEF Init, Created, NoVersion, Version, Pending, Lifecycle!Pending
<1>2. ASSUME IInv, IInv', [Next]_vars PROVE [Lifecycle!Move]_(api.phase)
  <2>1. api'.phase = api.phase \/ <<api.phase, api'.phase>> \in Edges
    BY <1>2, StepKinds DEF IInv, Write, Successor, Deliver, Get, Restart, Quiet, store
  <2>2. Lifecycle!Edges = Edges /\ Lifecycle!Phases = Phases
    BY DEF Lifecycle!Edges, Edges, Lifecycle!Phases, Phases, Lifecycle!Terminal, Terminal,
      Lifecycle!Pending, Lifecycle!SteadyStateChecking, Lifecycle!Running,
      Lifecycle!Completing, Lifecycle!Recovering, Lifecycle!Completed, Lifecycle!Failed,
      Lifecycle!Aborted, Pending, SteadyStateChecking, Running, Completing, Recovering,
      Completed, Failed, Aborted
  <2> QED
    BY <1>2, <2>1, <2>2 DEF Lifecycle!Move, IInv, TypeOK, Version
<1> QED
  BY <1>1, <1>2, Invariance, PTL DEF Spec, ImplementsLifecycle, Lifecycle!Spec
=============================================================================
