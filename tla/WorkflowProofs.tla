---------------------------- MODULE WorkflowProofs ----------------------------
(***************************************************************************)
(* Safety of the ChaosWorkflow controller, for every set of templates and  *)
(* every workflow over them, and correctness of the sort it validates a    *)
(* workflow with, for every list of templates.                             *)
(***************************************************************************)
EXTENDS Workflow, TopologicalSort, FiniteSetTheorems, TLAPS

\* No template that failed, runs or completed carries a retry count: its message
\* was overwritten.  So strategy retry sets every failed template back.
CountsLost == \A t \in Templates : st[t].phase # Pending => st[t].retry = 0

\* The strengthening that makes the safety properties inductive.
IInv ==
  /\ TypeOK
  /\ CountsLost
  /\ DependenciesRespected
  /\ CompletedMeansPassed
  /\ PausedAtGate
  /\ ParallelWaits

\* What a pass of reconcileRunning may do to one template.
Stays(t) == st'[t] = st[t] /\ t \notin Retried \cup Starting
Ends(t) == t \in With(Running) /\ st'[t] \in {Entry(Completed), Entry(Failed)}
Begins(t) ==
  /\ t \in Starting
  /\ st'[t] \in Status
  /\ st'[t].retry = 0 /\ st'[t].phase \in {Running, Completed, Failed}
  /\ spec.type[t] = "suspend" => st'[t].phase = Running
  /\ spec.type[t] = "parallel" => st'[t].phase # Completed
Resets(t) == t \in Retried \ Starting /\ st'[t] = Message(Pending, st[t].retry + 1, "")

\* The specification of a workflow is well formed.
LEMMA SpecTyped ==
  ASSUME TypeOK
  PROVE  /\ spec.type \in [Templates -> Types]
         /\ spec.deps \in [Templates -> SUBSET Templates]
         /\ spec.strategy \in Strategies
         /\ \A t \in spec.malformed : spec.type[t] # "suspend"
<1>1. spec \in WorkflowSpec
  BY WorkflowsAssumption DEF TypeOK
<1>2. /\ spec.type \in [Templates -> Types]
      /\ spec.deps \in [Templates -> SUBSET Templates]
      /\ spec.strategy \in Strategies
  BY <1>1 DEF WorkflowSpec
<1> QED
  BY <1>1, <1>2 DEF WorkflowSpec


\* Every template goes through exactly one of the four changes in a pass.
LEMMA PassKinds ==
  ASSUME TypeOK, CountsLost, ReconcileRunning
  PROVE  /\ DOMAIN st' = Templates
         /\ \A t \in Templates : Stays(t) \/ Ends(t) \/ Begins(t) \/ Resets(t)
<1>1. PICK lookupFails \in SUBSET (Starting \cap OfType("experiment")),
           holds \in SUBSET (Starting \cap OfType("condition")),
           stale \in SUBSET (With(Running) \cap OfType("experiment")),
           allDone \in SUBSET (With(Running) \cap OfType("parallel")) :
        st' = Checked(Executed(lookupFails, holds), allDone, stale)
  BY Zenon DEF ReconcileRunning
<1>2. ASSUME NEW t \in Templates
      PROVE  Stays(t) \/ Ends(t) \/ Begins(t) \/ Resets(t)
  <2>1. CASE t \in With(Running)
    <3>1. st'[t] \in {st[t], Entry(Completed), Entry(Failed)}
      BY <1>1, <2>1 DEF Checked, CheckTemplateProgress
    <3>2. t \notin Retried \cup Starting
      BY <2>1 DEF Retried, Starting, With, Running, Failed
    <3> QED
      BY <2>1, <3>1, <3>2 DEF Stays, Ends
  <2>2. CASE t \notin With(Running) /\ t \in Starting
    <3>1. st'[t] = ExecuteTemplate(t, lookupFails, holds)
      BY <1>1, <2>2 DEF Checked, Executed
    <3>2. /\ spec.type[t] = "suspend" => t \notin spec.malformed
      BY SpecTyped
    <3>3. /\ ExecuteTemplate(t, lookupFails, holds) \in Status
          /\ ExecuteTemplate(t, lookupFails, holds).retry = 0
          /\ ExecuteTemplate(t, lookupFails, holds).phase \in {Running, Completed, Failed}
          /\ spec.type[t] = "suspend" => ExecuteTemplate(t, lookupFails, holds).phase = Running
          /\ spec.type[t] = "parallel" => ExecuteTemplate(t, lookupFails, holds).phase # Completed
      BY <3>2 DEF ExecuteTemplate, Entry, Message, Status, maxRetries, Running, Completed, Failed,
                  Pending, NotStarted
    <3> QED
      BY <2>2, <3>1, <3>3 DEF Begins
  <2>3. CASE t \notin With(Running) /\ t \notin Starting
    <3>1. st'[t] = AfterRetry[t]
      BY <1>1, <2>3 DEF Checked, Executed
    <3> QED
      BY <2>3, <3>1 DEF AfterRetry, Stays, Resets
  <2> QED
    BY <2>1, <2>2, <2>3
<1> QED
  BY <1>1, <1>2 DEF Checked


\* A pass leaves what has passed alone, and starts only what waits for nothing
\* else: the completed map holds what has passed and nothing more.
LEMMA PassedGrows ==
  ASSUME IInv, ReconcileRunning
  PROVE  /\ completed \subseteq Passed
         /\ With(Completed) \subseteq With(Completed)'
         /\ spec.strategy # "retry" => Done \subseteq Done'
         /\ Passed \subseteq Passed'
<1> USE DEF Pending, Running, Completed, Failed
<1>1. spec' = spec /\ ~StopsOnFailure
  BY DEF ReconcileRunning
<1>2. spec.strategy \in Strategies
  BY SpecTyped DEF IInv
<1>3. completed \subseteq Passed
  BY <1>1, <1>2 DEF IInv, CountsLost, completed, Retried, Passed, StopsOnFailure,
                    Strategies, Done, With, maxRetries
<1>4. ASSUME NEW t \in With(Completed) PROVE t \in With(Completed)'
  <2>1. t \in Templates /\ t \notin Retried /\ t \notin With(Running) /\ t \in completed
    BY <1>4 DEF Retried, With, completed, Done
  <2>2. t \notin Starting
    BY <2>1 DEF Starting, ReadyTemplates
  <2>3. st'[t] = st[t]
    BY <2>1, <2>2, PassKinds DEF IInv, Stays, Ends, Begins, Resets
  <2> QED
    BY <1>4, <2>3 DEF With
<1>5. ASSUME spec.strategy # "retry", NEW t \in Done PROVE t \in Done'
  <2>1. t \in Templates /\ t \notin Retried /\ t \notin With(Running) /\ t \in completed
    BY <1>5 DEF Retried, With, completed, Done
  <2>2. t \notin Starting
    BY <2>1 DEF Starting, ReadyTemplates
  <2>3. st'[t] = st[t]
    BY <2>1, <2>2, PassKinds DEF IInv, Stays, Ends, Begins, Resets
  <2> QED
    BY <1>5, <2>3 DEF With, Done
<1> QED
  BY <1>1, <1>3, <1>4, <1>5 DEF Passed

\* reconcileRunning preserves the invariant.
LEMMA PassPreserves ==
  ASSUME IInv, ReconcileRunning
  PROVE  IInv'
<1> USE DEF Pending, Running, Completed, Failed
<1>1. /\ spec' = spec /\ phase = Running /\ phase' \in {Paused, Running}
      /\ phase' = Paused => Starting \cap OfType("suspend") # {}
      /\ UNCHANGED <<abort, resume, exps>>
  BY DEF ReconcileRunning, Paused
<1>2. /\ DOMAIN st' = Templates
      /\ \A t \in Templates : Stays(t) \/ Ends(t) \/ Begins(t) \/ Resets(t)
  BY PassKinds DEF IInv
<1>3. ASSUME NEW t \in Templates
      PROVE  /\ st'[t] \in Status
             /\ st'[t].phase # Pending => st'[t].retry = 0
  <2>1. st[t] \in Status /\ (st[t].phase # Pending => st[t].retry = 0)
    BY DEF IInv, TypeOK, CountsLost
  <2>2. CASE Stays(t)
    BY <2>1, <2>2 DEF Stays
  <2>3. CASE Ends(t)
    <3>1. Entry(Completed) \in Status /\ Entry(Failed) \in Status
      BY DEF Entry, Message, Status, maxRetries
    <3>2. Entry(Completed).retry = 0 /\ Entry(Failed).retry = 0
      BY DEF Entry, Message
    <3> QED
      BY <2>3, <3>1, <3>2 DEF Ends
  <2>4. CASE Begins(t)
    BY <2>4 DEF Begins
  <2>5. CASE Resets(t)
    <3>1. st[t].retry + 1 \in 0..maxRetries
      <4>1. st[t].retry \in 0..3
        BY <2>1 DEF Status, maxRetries
      <4>2. st[t].retry < 3
        BY <2>5 DEF Resets, Retried, maxRetries
      <4> QED
        BY <4>1, <4>2 DEF maxRetries
    <3>2. /\ Message(Pending, st[t].retry + 1, "") \in Status
          /\ Message(Pending, st[t].retry + 1, "").phase = Pending
      BY <3>1 DEF Message, Status
    <3> QED
      BY <2>5, <3>2 DEF Resets
  <2> QED
    BY <1>2, <2>2, <2>3, <2>4, <2>5
<1>4. TypeOK'
  <2>1. st' \in [Templates -> Status]
    <3>1. st' = [t \in Templates |-> st'[t]]
      <4>1. PICK mid, allDone, stale : st' = Checked(mid, allDone, stale)
        BY Zenon DEF ReconcileRunning
      <4> QED
        BY <4>1 DEF Checked
    <3> QED
      BY <3>1, <1>3
  <2>2. due' \in SUBSET Templates
    BY DEF IInv, TypeOK, ReconcileRunning
  <2> QED
    BY <1>1, <2>1, <2>2 DEF IInv, TypeOK, OfType
<1>5. CountsLost'
  BY <1>3 DEF CountsLost
<1>6. DependenciesRespected'
  <2>1. ASSUME NEW t \in Templates, st'[t].phase # NotStarted
        PROVE  spec.deps[t] \subseteq Passed
    <3>1. CASE t \in Starting
      BY <3>1, PassedGrows DEF Starting, ReadyTemplates
    <3>2. CASE t \notin Starting
      <4>1. st[t].phase # NotStarted
        BY <1>2, <2>1, <3>2 DEF Stays, Ends, Begins, Resets, Retried, With, NotStarted
      <4> QED
        BY <4>1 DEF IInv, DependenciesRespected
    <3> QED
      BY <3>1, <3>2
  <2> QED
    BY <1>1, <2>1, PassedGrows DEF DependenciesRespected
<1>7. CompletedMeansPassed'
  BY <1>1 DEF CompletedMeansPassed, Paused
<1>8. PausedAtGate'
  <2>1. SUFFICES ASSUME phase' = Paused PROVE (With(Running) \cap OfType("suspend"))' # {}
    BY DEF PausedAtGate
  <2>2. PICK t \in Starting : spec.type[t] = "suspend"
    BY <1>1, <2>1 DEF OfType
  <2>3. t \in Templates /\ t \notin With(Running)
    BY DEF Starting, ReadyTemplates
  <2>4. Begins(t)
    BY <1>2, <2>3 DEF Stays, Ends, Resets
  <2>5. st'[t].phase = Running
    BY <2>2, <2>4 DEF Begins
  <2> QED
    BY <1>1, <2>2, <2>3, <2>5 DEF With, OfType
<1>9. ParallelWaits'
  <2>1. SUFFICES ASSUME NEW p \in Templates, st'[p].phase = Completed,
                        spec.type[p] = "parallel", spec.strategy # "retry",
                        NEW s \in spec.subs[p]
                 PROVE  s \in Done'
    BY <1>1 DEF ParallelWaits, With, OfType
  <2>2. CASE st[p].phase = Completed
    <3>1. s \in Done
      BY <2>1, <2>2 DEF IInv, ParallelWaits, With, OfType
    <3> QED
      BY <2>1, <3>1, PassedGrows
  <2>3. CASE st[p].phase # Completed
    <3>1. p \in With(Running) /\ st'[p] = Entry(Completed)
      <4>1. Ends(p)
        <5>1. ~Stays(p)
          BY <2>1, <2>3 DEF Stays
        <5>2. ~Begins(p)
          BY <2>1 DEF Begins
        <5>3. ~Resets(p)
          <6>1. Message(Pending, st[p].retry + 1, "").phase # Completed
            BY DEF Message
          <6> QED
            BY <2>1, <6>1 DEF Resets
        <5> QED
          BY <1>2, <5>1, <5>2, <5>3
      <4>2. Entry(Failed).phase # Completed
        BY DEF Entry, Message
      <4> QED
        BY <2>1, <4>1, <4>2 DEF Ends
    <3>2. PICK lookupFails, holds, stale, allDone, ranks :
            /\ st' = Checked(Executed(lookupFails, holds), allDone, stale)
            /\ \A q \in With(Running) \cap OfType("parallel") :
                 q \in allDone <=> SubsDone(q, ranks, Executed(lookupFails, holds), st')
      BY Zenon DEF ReconcileRunning
    <3>3. p \in allDone
      BY <2>1, <3>1, <3>2 DEF Checked, CheckTemplateProgress, Entry, Message, With
    <3>4. SubsDone(p, ranks, Executed(lookupFails, holds), st')
      BY <2>1, <3>1, <3>2, <3>3 DEF OfType
    <3>5. /\ s \in Templates
          /\ \/ st'[s].phase \in {Completed, Failed}
             \/ Executed(lookupFails, holds)[s].phase \in {Completed, Failed}
      BY <2>1, <3>4 DEF SubsDone
    <3>6. CASE s \in With(Running)
      <4>1. Executed(lookupFails, holds)[s] = st[s]
        BY <3>5, <3>6 DEF Executed, AfterRetry, Starting, Retried, With
      <4> QED
        BY <3>5, <3>6, <4>1 DEF With, Done
    <3>7. CASE s \notin With(Running)
      BY <3>2, <3>5, <3>7 DEF Checked, With, Done
    <3> QED
      BY <3>6, <3>7
  <2> QED
    BY <2>2, <2>3
<1> QED
  BY <1>4, <1>5, <1>6, <1>7, <1>8, <1>9 DEF IInv


\* A workflow that was just created satisfies the invariant.
LEMMA InitIInv == Init => IInv
<1> SUFFICES ASSUME Init PROVE IInv
  OBVIOUS
<1>1. \A t \in Templates : st[t] = Entry(NotStarted)
  BY DEF Init
<1>2. Entry(NotStarted) \in Status
  BY DEF Entry, Message, Status, maxRetries
<1>3. st \in [Templates -> Status]
  BY <1>2 DEF Init
<1>4. exps \in [OfType("experiment") -> [phase: Phases \cup {Absent}, abort: BOOLEAN]]
  BY DEF Init, Phases, Absent
<1>5. TypeOK
  <2>1. abort \in BOOLEAN /\ resume \in BOOLEAN
    BY Zenon DEF Init
  <2>2. spec \in Workflows /\ phase = Pending /\ due = {}
    BY DEF Init
  <2> QED
    BY <1>3, <1>4, <2>1, <2>2 DEF TypeOK
<1>6. \A t \in Templates : st[t].phase = NotStarted /\ st[t].retry = 0
  <2>1. Entry(NotStarted).phase = NotStarted /\ Entry(NotStarted).retry = 0
    BY DEF Entry, Message
  <2> QED
    BY <1>1, <2>1
<1> QED
  BY <1>5, <1>6 DEF Init, IInv, CountsLost, DependenciesRespected, CompletedMeansPassed,
     PausedAtGate, ParallelWaits, With, NotStarted, Completed, Pending, Paused

\* Every step preserves the invariant.
LEMMA NextIInv == IInv /\ [Next]_vars => IInv'
<1> SUFFICES ASSUME IInv, [Next]_vars PROVE IInv'
  OBVIOUS
<1> USE DEF IInv, Pending, Running, Completed, Failed, Aborted, Paused
\* A step that leaves the statuses and the workflow's phase, or ends it in a
\* phase that claims nothing, has only its own variables' types to show.
<1>1. ASSUME UNCHANGED <<spec, st>>, TypeOK', CompletedMeansPassed', PausedAtGate'
      PROVE  IInv'
  BY <1>1 DEF CountsLost, DependenciesRespected, ParallelWaits, Passed, Done, With, OfType
<1>2. CASE ReconcilePending
  <2>1. TypeOK'
    BY <1>2 DEF ReconcilePending, TypeOK, Terminal, OfType
  <2> QED
    BY <1>1, <1>2, <2>1 DEF ReconcilePending, CompletedMeansPassed, PausedAtGate
<1>3. CASE ReconcilePaused
  <2>1. TypeOK'
    BY <1>3 DEF ReconcilePaused, TypeOK, OfType
  <2> QED
    BY <1>1, <1>3, <2>1 DEF ReconcilePaused, CompletedMeansPassed, PausedAtGate
<1>4. CASE FailOnFailure
  <2>1. TypeOK'
    BY <1>4 DEF FailOnFailure, TypeOK, Terminal, OfType
  <2> QED
    BY <1>1, <1>4, <2>1 DEF FailOnFailure, CompletedMeansPassed, PausedAtGate
<1>5. CASE SetCompleted
  <2>1. TypeOK'
    BY <1>5 DEF SetCompleted, TypeOK, Terminal, OfType
  <2>2. spec.strategy \in Strategies
    BY SpecTyped
  <2>3. completed \subseteq Passed
    BY <1>5, <2>2 DEF SetCompleted, CountsLost, completed, Retried, Passed, StopsOnFailure,
                      Strategies, Done, With, maxRetries
  <2>4. Passed = Templates
    BY <1>5, <2>3 DEF SetCompleted, Passed, Done, With
  <2>5. CompletedMeansPassed'
    BY <1>5, <2>4 DEF SetCompleted, CompletedMeansPassed, Passed, Done, With
  <2> QED
    BY <1>1, <1>5, <2>1, <2>5 DEF SetCompleted, PausedAtGate
<1>6. CASE ReconcileRunning
  BY <1>6, PassPreserves
<1>7. CASE HandleAbort
  <2>1. TypeOK'
    <3>1. PICK hit : exps' = [t \in DOMAIN exps |-> [exps[t] EXCEPT !.abort = @ \/ t \in hit]]
      BY <1>7 DEF HandleAbort
    <3>2. exps' \in [OfType("experiment") -> [phase: Phases \cup {Absent}, abort: BOOLEAN]]
      BY <3>1 DEF TypeOK
    <3> QED
      BY <1>7, <3>2 DEF HandleAbort, TypeOK, Terminal, OfType
  <2> QED
    BY <1>1, <1>7, <2>1 DEF HandleAbort, CompletedMeansPassed, PausedAtGate
<1>8. ASSUME UNCHANGED <<spec, phase, st>>, TypeOK' PROVE IInv'
  BY <1>1, <1>8 DEF CompletedMeansPassed, PausedAtGate, Passed, Done, With, OfType
<1>9. CASE Elapse
  BY <1>8, <1>9 DEF Elapse, TypeOK, With, OfType
<1>10. CASE CreateExperiment
  BY <1>8, <1>10 DEF CreateExperiment, TypeOK, Phases, OfType
<1>11. CASE ExperimentMoves
  BY <1>8, <1>11 DEF ExperimentMoves, TypeOK, OfType
<1>12. CASE UserAborts
  BY <1>8, <1>12 DEF UserAborts, TypeOK, OfType
<1>13. CASE UserResumes
  BY <1>8, <1>13 DEF UserResumes, TypeOK, With, OfType
<1>14. CASE UserClearsResume
  BY <1>8, <1>14 DEF UserClearsResume, TypeOK, OfType
<1>15. CASE UNCHANGED vars
  BY <1>8, <1>15 DEF vars, TypeOK, OfType
<1> QED
  BY <1>2, <1>3, <1>4, <1>5, <1>6, <1>7, <1>9, <1>10, <1>11, <1>12, <1>13, <1>14, <1>15
     DEF Next, Reconcile


\* The invariant holds in every state of every run.
THEOREM Invariance == Spec => []IInv
<1>1. Init => IInv
  BY InitIInv
<1>2. IInv /\ [Next]_vars => IInv'
  BY NextIInv
<1> QED
  BY <1>1, <1>2, PTL DEF Spec

\* Every variable keeps its type; the saved retry count stays within maxRetries.
THEOREM TypeCorrect == Spec => []TypeOK
<1>1. IInv => TypeOK
  BY DEF IInv
<1> QED
  BY <1>1, Invariance, PTL

\* executeTemplate is never called for a template that still has a dependency to
\* wait for, for every graph and every error handling strategy.
THEOREM StartsInOrder == Spec => []DependenciesRespected
<1>1. IInv => DependenciesRespected
  BY DEF IInv
<1> QED
  BY <1>1, Invariance, PTL

\* setCompleted is reached only when every template has passed.
THEOREM CompletedIsPassed == Spec => []CompletedMeansPassed
<1>1. IInv => CompletedMeansPassed
  BY DEF IInv
<1> QED
  BY <1>1, Invariance, PTL

\* Under strategy retry no failed template is out of retries, however often it has
\* failed: executeTemplate replaced the message that held its count, so the
\* comparison with maxRetries in reconcileRunning never ends the retries.
THEOREM RetriesNeverEnd == Spec => [](spec.strategy = "retry" => Retried = With(Failed))
<1>1. IInv => (spec.strategy = "retry" => Retried = With(Failed))
  BY DEF IInv, CountsLost, Retried, With, maxRetries, Failed, Pending
<1> QED
  BY <1>1, Invariance, PTL

\* A paused workflow always has a running suspend template.
THEOREM PausedHasGate == Spec => []PausedAtGate
<1>1. IInv => PausedAtGate
  BY DEF IInv
<1> QED
  BY <1>1, Invariance, PTL

\* A completed parallel template has no sub-template left, unless the strategy is
\* retry, whatever the order in which range visits the map.
THEOREM ParallelIsDone == Spec => []ParallelWaits
<1>1. IInv => ParallelWaits
  BY DEF IInv
<1> QED
  BY <1>1, Invariance, PTL

\* No step changes the status of a completed template.
THEOREM CompletedIsFinal == Spec => CompletedStays
<1>1. ASSUME IInv, [Next]_vars
      PROVE  [\A t \in Templates : st[t].phase = Completed => st'[t] = st[t]]_vars
  <2>1. CASE ReconcileRunning
    <3>1. ASSUME NEW t \in Templates, st[t].phase = Completed PROVE st'[t] = st[t]
      <4>1. t \notin Retried /\ t \notin With(Running) /\ t \in completed
        BY <3>1 DEF Retried, With, completed, Done, Running, Failed, Completed
      <4>2. t \notin Starting
        BY <4>1 DEF Starting, ReadyTemplates
      <4> QED
        BY <1>1, <2>1, <4>1, <4>2, PassKinds DEF IInv, Stays, Ends, Begins, Resets
    <3> QED
      BY <3>1
  <2>2. CASE ~ReconcileRunning
    <3>1. UNCHANGED st
      BY <1>1, <2>2 DEF Next, Reconcile, ReconcilePending, ReconcilePaused, FailOnFailure,
         SetCompleted, HandleAbort, Elapse, CreateExperiment, ExperimentMoves, UserAborts,
         UserResumes, UserClearsResume, vars
    <3> QED
      BY <3>1
  <2> QED
    BY <2>1, <2>2
<1> QED
  BY <1>1, Invariance, PTL DEF Spec, CompletedStays
-----------------------------------------------------------------------------
(* The dependency sort, for every list of templates: any number of them,   *)
(* names repeated or not, any dependencies.  Kahn's algorithm counts, for  *)
(* each node, the entries that name nodes not yet ordered or not yet       *)
(* visited; the count is exact because an entry is visited once, whatever  *)
(* the order of the queue.                                                 *)

Elements(s) == {s[i] : i \in 1..Len(s)}
Distinct(s) == \A i, j \in 1..Len(s) : s[i] = s[j] => i = j

\* The entries of a node that still count in its inDegree.
Unmet(n) ==
  {e \in Entries :
     Waits(e) = n /\ (On(e) \notin Elements(order) \/ e \in todo)}

\* Each node of S waits for one of S.
Stuck(S) ==
  \A n \in S : \E e \in Entries : Waits(e) = n /\ On(e) \in S

\* What is known of a list whose dependencies are known.
SortCounts ==
  /\ \A e \in Entries : On(e) \in Nodes
  /\ inDegree \in [Nodes -> Nat]
  /\ \A e \in todo : On(e) \in Elements(order)
  /\ \A n \in Nodes : inDegree[n] = Cardinality(Unmet(n))
  /\ \A n \in Nodes : inDegree[n] = 0 <=> n \in Elements(order) \cup Elements(queue)
  /\ Distinct(order) /\ Distinct(queue) /\ Elements(order) \cap Elements(queue) = {}
  /\ \A k \in 1..Len(order) : \A e \in Entries :
       Waits(e) = order[k] => On(e) \in {order[l] : l \in 1..(k - 1)}
  /\ \A S \in SUBSET Nodes : Stuck(S) => S \cap Elements(order) = {}

SortEnded ==
  result # "running" =>
    todo = {} /\ queue = <<>> /\ (result = "ok" <=> Len(order) = Len(templates))

SortInv ==
  /\ templates \in TemplateLists
  /\ result \in {"running", "ok", "cycle", "unknown"}
  /\ order \in Seq(Nodes) /\ queue \in Seq(Nodes)
  /\ todo \subseteq Entries
  /\ result = "unknown" => order = <<>>
  /\ result # "unknown" => SortCounts /\ SortEnded

\* The first n numbers.
LEMMA UpTo ==
  ASSUME NEW n \in Nat
  PROVE  IsFiniteSet(1..n) /\ Cardinality(1..n) = n
<1>1. 1 \in Int /\ n \in Int
  OBVIOUS
<1>2. IsFiniteSet(1..n) /\ Cardinality(1..n) = IF 1 > n THEN 0 ELSE n - 1 + 1
  BY <1>1, FS_Interval, ZenonT(30)
<1> QED BY <1>2

\* A sequence has its elements.
LEMMA ElementType ==
  ASSUME NEW S, NEW s \in Seq(S), NEW i \in 1..Len(s)
  PROVE  s[i] \in S
OBVIOUS

\* A list of templates has finitely many entries, and as many nodes as templates
\* or fewer: as many just when no name is repeated.
LEMMA FiniteGraph ==
  ASSUME templates \in TemplateLists
  PROVE  /\ IsFiniteSet(Entries)
         /\ IsFiniteSet(Nodes) /\ Cardinality(Nodes) <= Len(templates)
         /\ Len(templates) \in Nat
<1> DEFINE D == 1..Len(templates)
           Of(i) == {i} \X DOMAIN templates[i].deps
           T == {Of(i) : i \in D}
<1>1. Len(templates) \in Nat /\ DOMAIN templates = D
  BY DEF TemplateLists
<1>2. IsFiniteSet(D) /\ Cardinality(D) = Len(templates)
  BY <1>1, UpTo, ZenonT(30)
<1>3. ASSUME NEW i \in D PROVE IsFiniteSet(Of(i))
  <2>1. templates[i] \in [name: STRING, deps: Seq(STRING)]
    <3>1. templates \in Seq([name: STRING, deps: Seq(STRING)])
      BY DEF TemplateLists
    <3> QED BY <3>1, ElementType, ZenonT(30)
  <2>2. Len(templates[i].deps) \in Nat /\ DOMAIN templates[i].deps = 1..Len(templates[i].deps)
    BY <2>1
  <2>3. IsFiniteSet(DOMAIN templates[i].deps)
    BY <2>2, UpTo
  <2> QED BY <2>3, FS_Singleton, FS_Product, Zenon
<1>4. IsFiniteSet(T)
  <2> DEFINE f == [i \in D |-> Of(i)]
  <2>1. f \in Surjection(D, T)
    BY DEF Surjection
  <2> HIDE DEF f, T
  <2> QED BY <1>2, <2>1, FS_Surjection
<1>5. Entries = UNION T
  BY <1>1 DEF Entries
<1>6. IsFiniteSet(UNION T)
  BY <1>3, <1>4, FS_UNION, Zenon
<1>7. IsFiniteSet(Nodes) /\ Cardinality(Nodes) <= Len(templates)
  <2> DEFINE g == [i \in D |-> templates[i].name]
  <2>1. g \in Surjection(D, Nodes)
    BY <1>1 DEF Surjection, Nodes
  <2> HIDE DEF g
  <2> QED BY <1>2, <2>1, FS_Surjection
<1> QED BY <1>1, <1>5, <1>6, <1>7

\* What Append does to the elements of a sequence without repetition.
LEMMA AppendElements ==
  ASSUME NEW S, NEW s \in Seq(S), Distinct(s), NEW x \in S, x \notin Elements(s)
  PROVE  /\ Append(s, x) \in Seq(S)
         /\ Elements(Append(s, x)) = Elements(s) \cup {x}
         /\ Distinct(Append(s, x))
<1>1. /\ Append(s, x) \in Seq(S) /\ Len(Append(s, x)) = Len(s) + 1 /\ Len(s) \in Nat
      /\ \A i \in 1..Len(s) : Append(s, x)[i] = s[i]
      /\ Append(s, x)[Len(s) + 1] = x
  OBVIOUS
<1>2. 1..(Len(s) + 1) = 1..Len(s) \cup {Len(s) + 1}
  BY <1>1, SMTT(20)
<1> QED BY <1>1, <1>2 DEF Elements, Distinct

\* What Tail does to them.
LEMMA TailElements ==
  ASSUME NEW S, NEW s \in Seq(S), s # <<>>, Distinct(s)
  PROVE  /\ Tail(s) \in Seq(S) /\ Head(s) \in S /\ Head(s) \in Elements(s)
         /\ Elements(Tail(s)) = Elements(s) \ {Head(s)}
         /\ Distinct(Tail(s))
<1>1. /\ Tail(s) \in Seq(S) /\ Head(s) \in S /\ Head(s) = s[1]
      /\ Len(s) \in Nat /\ Len(s) >= 1 /\ Len(Tail(s)) = Len(s) - 1
      /\ \A i \in 1..(Len(s) - 1) : Tail(s)[i] = s[i + 1]
  OBVIOUS
<1>2. Head(s) \in Elements(s)
  BY <1>1 DEF Elements
<1>3. Elements(Tail(s)) \subseteq Elements(s) \ {Head(s)}
  BY <1>1 DEF Elements, Distinct
<1>4. ASSUME NEW x \in Elements(s), x # Head(s) PROVE x \in Elements(Tail(s))
  <2>1. PICK i \in 1..Len(s) : x = s[i]
    BY DEF Elements
  <2>2. i - 1 \in 1..(Len(s) - 1) /\ (i - 1) + 1 = i
    BY <1>1, <1>4, <2>1
  <2>3. Tail(s)[i - 1] = x
    BY <1>1, <2>1, <2>2
  <2> QED BY <1>1, <2>2, <2>3 DEF Elements
<1>5. Distinct(Tail(s))
  BY <1>1 DEF Distinct
<1> QED BY <1>1, <1>2, <1>3, <1>4, <1>5

\* A sequence without repetition is as long as it has elements.
LEMMA DistinctLength ==
  ASSUME NEW S, NEW s \in Seq(S), Distinct(s)
  PROVE  IsFiniteSet(Elements(s)) /\ Cardinality(Elements(s)) = Len(s)
<1>1. Len(s) \in Nat /\ s \in [1..Len(s) -> S]
  OBVIOUS
<1>2. IsFiniteSet(1..Len(s)) /\ Cardinality(1..Len(s)) = Len(s)
  BY <1>1, UpTo, ZenonT(30)
<1>3. s \in Surjection(1..Len(s), Elements(s)) /\ s \in Injection(1..Len(s), Elements(s))
  BY <1>1 DEF Surjection, Injection, IsInjective, Elements, Distinct
<1> QED BY <1>2, <1>3, FS_Surjection

\* Counting is over finite sets.
LEMMA UnmetFinite ==
  ASSUME templates \in TemplateLists, NEW n
  PROVE  /\ IsFiniteSet(Unmet(n)) /\ Cardinality(Unmet(n)) \in Nat
         /\ Cardinality(Unmet(n)) = 0 <=> Unmet(n) = {}
<1>1. Unmet(n) \in SUBSET Entries
  BY DEF Unmet
<1>2. IsFiniteSet(Unmet(n))
  BY <1>1, FiniteGraph, FS_Subset, Zenon
<1> QED BY <1>2, FS_CardinalityType, FS_EmptySet

\* An entry is of a node.
LEMMA WaitsInNodes ==
  ASSUME NEW e \in Entries
  PROVE  Waits(e) \in Nodes
BY DEF Entries, Waits, Nodes

\* The map order in which the queue is filled: every node without dependencies,
\* once.
LEMMA FirstQueue ==
  ASSUME NEW S, IsFiniteSet(S), NEW q \in Injection(1..Cardinality(S), S)
  PROVE  q \in Seq(S) /\ Distinct(q) /\ Elements(q) = S
<1> DEFINE n == Cardinality(S)
<1>1. n \in Nat
  BY FS_CardinalityType
<1>2. q \in [1..n -> S] /\ \A i, j \in 1..n : i # j => q[i] # q[j]
  BY DEF Injection, IsInjective
<1>3. IsFiniteSet(1..n) /\ Cardinality(1..n) = n
  BY <1>1, UpTo, ZenonT(30)
<1>4. q \in Injection(1..n, S)
  BY <1>2 DEF Injection, IsInjective
<1>5. q \in Surjection(1..n, S)
  BY <1>3, <1>4, FS_Injection
<1> HIDE DEF n
<1>6. q \in Seq(S) /\ Len(q) = n
  BY <1>1, <1>2
<1> QED BY <1>2, <1>5, <1>6 DEF Distinct, Elements, Surjection

\* buildDAG counts every entry.
LEMMA SortFirst == SortInit => SortInv
<1> SUFFICES ASSUME SortInit PROVE SortInv
  OBVIOUS
<1>1. templates \in TemplateLists /\ todo = {} /\ order = <<>>
  BY InputsAssumption DEF SortInit
<1>2. order \in Seq(Nodes) /\ Elements(order) = {} /\ Distinct(order) /\ Len(order) = 0
  BY <1>1 DEF Elements, Distinct
<1>3. CASE ~\A e \in Entries : On(e) \in Nodes
  <2>1. queue = <<>> /\ result = "unknown"
    BY <1>3 DEF SortInit
  <2> QED BY <1>1, <1>2, <2>1 DEF SortInv
<1>4. CASE \A e \in Entries : On(e) \in Nodes
  <2> DEFINE Z == {n \in Nodes : inDegree[n] = 0}
  <2>1. queue \in Injection(1..Cardinality(Z), Z) /\ result = "running"
    BY <1>4 DEF SortInit
  <2>2. IsFiniteSet(Z)
    BY <1>1, FiniteGraph, FS_Subset
  <2>3. queue \in Seq(Z) /\ Distinct(queue) /\ Elements(queue) = Z
    BY <2>1, <2>2, FirstQueue
  <2>4. queue \in Seq(Nodes)
    BY <2>3
  <2>5. \A n : Unmet(n) = {e \in Entries : Waits(e) = n}
    BY <1>2 DEF Unmet
  <2>6. inDegree = [n \in Nodes |-> Cardinality(Unmet(n))]
    BY <2>5 DEF SortInit
  <2>7. inDegree \in [Nodes -> Nat]
    BY <1>1, <2>6, UnmetFinite
  <2>8. \A n \in Nodes : inDegree[n] = Cardinality(Unmet(n))
    BY <2>6
  <2>9. \A n \in Nodes : inDegree[n] = 0 <=> n \in Elements(order) \cup Elements(queue)
    BY <1>2, <2>3
  <2>10. SortCounts
    BY <1>1, <1>2, <1>4, <2>1, <2>3, <2>7, <2>8, <2>9 DEF SortCounts
  <2> QED BY <1>1, <1>2, <2>1, <2>4, <2>10 DEF SortInv, SortEnded
<1> QED BY <1>3, <1>4

\* What is derived from the list does not change.
LEMMA SortStatic ==
  ASSUME UNCHANGED templates
  PROVE  /\ Nodes' = Nodes /\ Entries' = Entries
         /\ \A e : Waits(e)' = Waits(e) /\ On(e)' = On(e)
         /\ \A S : Stuck(S)' = Stuck(S)
<1>1. /\ Nodes' = Nodes /\ Entries' = Entries
      /\ \A e : Waits(e)' = Waits(e) /\ On(e)' = On(e)
  BY DEF Nodes, Entries, Waits, On
<1> QED BY <1>1 DEF Stuck

\* A node that counts no entry has all it depends on in the order.
LEMMA MetInOrder ==
  ASSUME SortInv, SortCounts, todo = {}, NEW n \in Nodes,
         NEW e \in Entries, Waits(e) = n, inDegree[n] = 0
  PROVE  On(e) \in Elements(order)
<1>1. Cardinality(Unmet(n)) = 0
  BY DEF SortCounts
<1>2. Unmet(n) = {}
  BY <1>1, UnmetFinite DEF SortInv
<1> QED BY <1>2 DEF Unmet

\* What is known depends on these variables alone.
LEMMA SortStays ==
  ASSUME SortCounts, UNCHANGED <<templates, inDegree, queue, todo, order>>
  PROVE  SortCounts'
<1>1. /\ Nodes' = Nodes /\ Entries' = Entries
      /\ \A e : Waits(e)' = Waits(e) /\ On(e)' = On(e)
      /\ \A S : Stuck(S)' = Stuck(S)
  BY SortStatic
<1>2. \A n : Unmet(n)' = Unmet(n)
  BY <1>1 DEF Unmet
<1>3. /\ Elements(order)' = Elements(order) /\ Elements(queue)' = Elements(queue)
      /\ Distinct(order)' = Distinct(order) /\ Distinct(queue)' = Distinct(queue)
  OBVIOUS
<1>4. ASSUME NEW k \in 1..Len(order), NEW e \in Entries, Waits(e) = order[k]
      PROVE  On(e) \in {order'[l] : l \in 1..(k - 1)}
  <2>1. On(e) \in {order[l] : l \in 1..(k - 1)}
    BY <1>4 DEF SortCounts
  <2> QED BY <2>1
<1>5. (\A e \in todo : On(e) \in Elements(order))'
  BY <1>1, <1>3 DEF SortCounts
<1>6. (\A n \in Nodes : inDegree[n] = Cardinality(Unmet(n)))'
  BY <1>1, <1>2 DEF SortCounts
<1>7. (\A n \in Nodes : inDegree[n] = 0 <=> n \in Elements(order) \cup Elements(queue))'
  BY <1>1, <1>3 DEF SortCounts
<1>8. (\A S \in SUBSET Nodes : Stuck(S) => S \cap Elements(order) = {})'
  BY <1>1, <1>3 DEF SortCounts
<1>9. (inDegree \in [Nodes -> Nat] /\ \A e \in Entries : On(e) \in Nodes)'
  BY <1>1 DEF SortCounts
<1>10. (Distinct(order) /\ Distinct(queue) /\ Elements(order) \cap Elements(queue) = {})'
  BY <1>3 DEF SortCounts
<1>11. \A k \in 1..Len(order') : \A e \in Entries' :
         Waits(e)' = order'[k] => On(e)' \in {order'[l] : l \in 1..(k - 1)}
  BY <1>1, <1>4
<1> QED BY <1>5, <1>6, <1>7, <1>8, <1>9, <1>10, <1>11 DEF SortCounts

\* Taking a node moves it from the queue to the order; the entries that name it
\* count until they are visited.
LEMMA TakeNodeInv ==
  ASSUME SortInv, TakeNode
  PROVE  SortInv'
<1>0. PICK n : n = Head(queue)
  OBVIOUS
<1>1. /\ result = "running" /\ todo = {} /\ queue # <<>>
      /\ queue' = Tail(queue) /\ order' = Append(order, n)
      /\ todo' = {e \in Entries : On(e) = n}
      /\ UNCHANGED <<templates, inDegree, result>>
  BY <1>0 DEF TakeNode
<1>2. /\ SortCounts /\ templates \in TemplateLists
      /\ order \in Seq(Nodes) /\ queue \in Seq(Nodes)
      /\ Distinct(order) /\ Distinct(queue) /\ Elements(order) \cap Elements(queue) = {}
  BY <1>1 DEF SortInv, SortCounts
<1>3. /\ queue' \in Seq(Nodes) /\ n \in Nodes /\ n \in Elements(queue)
      /\ Elements(queue)' = Elements(queue) \ {n} /\ Distinct(queue)'
  <2>1. /\ Tail(queue) \in Seq(Nodes) /\ n \in Nodes /\ n \in Elements(queue)
        /\ Elements(Tail(queue)) = Elements(queue) \ {n} /\ Distinct(Tail(queue))
    BY <1>0, <1>1, <1>2, TailElements
  <2> QED BY <1>1, <2>1
<1>4. n \notin Elements(order)
  BY <1>2, <1>3
<1>5. order' \in Seq(Nodes) /\ Elements(order)' = Elements(order) \cup {n} /\ Distinct(order)'
  <2>1. /\ Append(order, n) \in Seq(Nodes)
        /\ Elements(Append(order, n)) = Elements(order) \cup {n} /\ Distinct(Append(order, n))
    BY <1>2, <1>3, <1>4, AppendElements
  <2> QED BY <1>1, <2>1
<1>6. /\ Nodes' = Nodes /\ Entries' = Entries
      /\ \A e : Waits(e)' = Waits(e) /\ On(e)' = On(e)
      /\ \A S : Stuck(S)' = Stuck(S)
  BY <1>1, SortStatic
<1>7. \A m : Unmet(m)' = Unmet(m)
  BY <1>1, <1>4, <1>5, <1>6 DEF Unmet
<1>8. inDegree[n] = 0
  BY <1>2, <1>3 DEF SortCounts
<1>9. \A e \in Entries : Waits(e) = n => On(e) \in Elements(order)
  BY <1>1, <1>2, <1>3, <1>8, MetInOrder
<1>10. ASSUME NEW k \in 1..Len(order'), NEW e \in Entries, Waits(e) = order'[k]
       PROVE  On(e) \in {order'[l] : l \in 1..(k - 1)}
  <2>1. /\ Len(order) \in Nat /\ Len(order') = Len(order) + 1
        /\ \A l \in 1..Len(order) : order'[l] = order[l]
        /\ order'[Len(order) + 1] = n
    BY <1>1, <1>2, <1>3
  <2>2. CASE k = Len(order) + 1
    <3>1. On(e) \in Elements(order)
      BY <1>9, <1>10, <2>1, <2>2
    <3>2. Elements(order) = {order'[l] : l \in 1..(k - 1)}
      BY <2>1, <2>2 DEF Elements
    <3> QED BY <3>1, <3>2
  <2>3. CASE k \in 1..Len(order)
    <3>1. On(e) \in {order[l] : l \in 1..(k - 1)}
      BY <1>2, <1>10, <2>1, <2>3 DEF SortCounts
    <3>2. \A l \in 1..(k - 1) : order'[l] = order[l]
      BY <2>1, <2>3
    <3> QED BY <3>1, <3>2
  <2> QED BY <2>1, <2>2, <2>3
<1>11. ASSUME NEW S \in SUBSET Nodes, Stuck(S)
       PROVE  S \cap Elements(order)' = {}
  <2>1. S \cap Elements(order) = {}
    BY <1>2, <1>11 DEF SortCounts
  <2>2. n \notin S
    BY <1>9, <1>11, <2>1 DEF Stuck
  <2> QED BY <1>5, <2>1, <2>2
<1>12. SortCounts'
  <2>1. \A e \in Entries' : On(e)' \in Nodes'
    BY <1>2, <1>6 DEF SortCounts
  <2>2. inDegree' \in [Nodes' -> Nat]
    BY <1>1, <1>2, <1>6 DEF SortCounts
  <2>3. \A e \in todo' : On(e)' \in Elements(order)'
    BY <1>1, <1>5, <1>6
  <2>4. \A m \in Nodes' : inDegree'[m] = Cardinality(Unmet(m)')
    BY <1>1, <1>2, <1>6, <1>7 DEF SortCounts
  <2>5. \A m \in Nodes' : inDegree'[m] = 0 <=> m \in Elements(order)' \cup Elements(queue)'
    BY <1>1, <1>2, <1>3, <1>5, <1>6 DEF SortCounts
  <2>6. Elements(order)' \cap Elements(queue)' = {}
    BY <1>2, <1>3, <1>5
  <2> QED BY <1>3, <1>5, <1>6, <1>10, <1>11, <2>1, <2>2, <2>3, <2>4, <2>5, <2>6,
             Zenon DEF SortCounts
<1> QED BY <1>1, <1>2, <1>3, <1>5, <1>6, <1>12 DEF SortInv, SortEnded

\* Visiting a dependent takes one entry off its count and queues it at zero, once.
LEMMA VisitDependentInv ==
  ASSUME SortInv, VisitDependent
  PROVE  SortInv'
<1>1. PICK e \in todo :
        /\ result = "running"
        /\ inDegree' = [inDegree EXCEPT ![Waits(e)] = @ - 1]
        /\ queue' = IF inDegree[Waits(e)] = 1 THEN Append(queue, Waits(e)) ELSE queue
        /\ todo' = todo \ {e}
        /\ UNCHANGED <<templates, order, result>>
  BY Zenon DEF VisitDependent
<1>n. PICK n : n = Waits(e)
  OBVIOUS
<1>2. /\ SortCounts /\ templates \in TemplateLists /\ todo \subseteq Entries
      /\ order \in Seq(Nodes) /\ queue \in Seq(Nodes)
      /\ Distinct(order) /\ Distinct(queue) /\ Elements(order) \cap Elements(queue) = {}
      /\ inDegree \in [Nodes -> Nat]
  BY <1>1, Zenon DEF SortInv, SortCounts
<1>3. e \in Entries /\ n \in Nodes /\ On(e) \in Elements(order)
  BY <1>2, <1>n, WaitsInNodes DEF SortCounts
<1>4. /\ Nodes' = Nodes /\ Entries' = Entries
      /\ \A f : Waits(f)' = Waits(f) /\ On(f)' = On(f)
      /\ \A S : Stuck(S)' = Stuck(S)
  BY <1>1, SortStatic
<1>5. order' = order /\ Elements(order)' = Elements(order) /\ Distinct(order)'
  BY <1>1, <1>2
<1>6. Unmet(n)' = Unmet(n) \ {e} /\ e \in Unmet(n)
  BY <1>1, <1>3, <1>4, <1>5, <1>n DEF Unmet
<1>7. \A m : m # n => Unmet(m)' = Unmet(m)
  BY <1>1, <1>4, <1>5, <1>n DEF Unmet
<1>8. /\ Cardinality(Unmet(n)') = Cardinality(Unmet(n)) - 1
      /\ Cardinality(Unmet(n)) \in Nat /\ Cardinality(Unmet(n)) # 0
  <2>1. IsFiniteSet(Unmet(n)) /\ Cardinality(Unmet(n)) \in Nat /\ Cardinality(Unmet(n)) # 0
    BY <1>2, <1>6, UnmetFinite
  <2>2. Cardinality(Unmet(n) \ {e}) = Cardinality(Unmet(n)) - 1
    BY <1>6, <2>1, FS_RemoveElement
  <2> QED BY <1>6, <2>1, <2>2
<1>9. inDegree[n] = Cardinality(Unmet(n)) /\ n \notin Elements(order) \cup Elements(queue)
  BY <1>2, <1>3, <1>8 DEF SortCounts
<1>10. inDegree' = [inDegree EXCEPT ![n] = @ - 1]
  BY <1>1, <1>n
<1>11. /\ inDegree'[n] = inDegree[n] - 1 /\ inDegree[n] - 1 \in Nat
       /\ \A m \in Nodes : m # n => inDegree'[m] = inDegree[m]
       /\ inDegree' \in [Nodes -> Nat]
  BY <1>2, <1>3, <1>8, <1>9, <1>10
<1>12. /\ queue' \in Seq(Nodes) /\ Distinct(queue)'
       /\ Elements(queue)' = IF inDegree[n] = 1 THEN Elements(queue) \cup {n} ELSE Elements(queue)
  <2>1. CASE inDegree[n] = 1
    <3>1. queue' = Append(queue, n)
      BY <1>1, <1>n, <2>1
    <3>2. /\ Append(queue, n) \in Seq(Nodes) /\ Distinct(Append(queue, n))
          /\ Elements(Append(queue, n)) = Elements(queue) \cup {n}
      BY <1>2, <1>3, <1>9, AppendElements
    <3> QED BY <2>1, <3>1, <3>2
  <2>2. CASE inDegree[n] # 1
    <3>1. queue' = queue
      BY <1>1, <1>n, <2>2
    <3> QED BY <1>2, <2>2, <3>1
  <2> QED BY <2>1, <2>2
<1>13. SortCounts'
  <2>1. \A f \in Entries' : On(f)' \in Nodes'
    BY <1>2, <1>4 DEF SortCounts
  <2>2. \A f \in todo' : On(f)' \in Elements(order)'
    BY <1>1, <1>2, <1>4, <1>5 DEF SortCounts
  <2>3. ASSUME NEW m \in Nodes PROVE inDegree'[m] = Cardinality(Unmet(m)')
    <3>1. CASE m = n
      BY <1>8, <1>9, <1>11, <3>1
    <3>2. CASE m # n
      BY <1>2, <1>7, <1>11, <3>2 DEF SortCounts
    <3> QED BY <3>1, <3>2
  <2>4. ASSUME NEW m \in Nodes
        PROVE  inDegree'[m] = 0 <=> m \in Elements(order)' \cup Elements(queue)'
    <3>1. CASE m = n
      BY <1>5, <1>8, <1>9, <1>11, <1>12, <3>1
    <3>2. CASE m # n
      BY <1>2, <1>5, <1>11, <1>12, <3>2 DEF SortCounts
    <3> QED BY <3>1, <3>2
  <2>5. Elements(order)' \cap Elements(queue)' = {}
    BY <1>2, <1>5, <1>9, <1>12
  <2>6. ASSUME NEW k \in 1..Len(order), NEW f \in Entries, Waits(f) = order[k]
        PROVE  On(f) \in {order'[l] : l \in 1..(k - 1)}
    <3>1. On(f) \in {order[l] : l \in 1..(k - 1)}
      BY <1>2, <2>6 DEF SortCounts
    <3> QED BY <1>5, <3>1
  <2>7. \A S \in SUBSET Nodes' : Stuck(S)' => S \cap Elements(order)' = {}
    BY <1>2, <1>4, <1>5 DEF SortCounts
  <2> QED BY <1>4, <1>5, <1>11, <1>12, <2>1, <2>2, <2>3, <2>4, <2>5, <2>6, <2>7,
             Zenon DEF SortCounts
<1> QED BY <1>1, <1>2, <1>4, <1>5, <1>12, <1>13 DEF SortInv, SortEnded

\* The sort ends with nothing queued and nothing left to visit.
LEMMA ReturnInv ==
  ASSUME SortInv, Return
  PROVE  SortInv'
<1>1. /\ result = "running" /\ todo = {} /\ queue = <<>>
      /\ result' = IF Len(order) # Len(templates) THEN "cycle" ELSE "ok"
      /\ UNCHANGED <<templates, inDegree, queue, todo, order>>
  BY DEF Return
<1>2. SortCounts'
  BY <1>1, SortStays DEF SortInv
<1>3. result' \in {"ok", "cycle"} /\ (result' = "ok" <=> Len(order) = Len(templates))
  BY <1>1
<1>4. Nodes' = Nodes /\ Entries' = Entries
  BY <1>1, SortStatic
<1> QED BY <1>1, <1>2, <1>3, <1>4 DEF SortInv, SortEnded

\* The counts are exact, the order is closed under dependencies and no cycle gets
\* into it: inductive.
THEOREM SortInvariance == SortSpec => []SortInv
<1>1. SortInv /\ [SortNext]_sortVars => SortInv'
  <2> SUFFICES ASSUME SortInv, [SortNext]_sortVars PROVE SortInv'
    OBVIOUS
  <2>1. CASE SortNext
    BY <2>1, TakeNodeInv, VisitDependentInv, ReturnInv DEF SortNext
  <2>2. CASE UNCHANGED sortVars
    <3>1. UNCHANGED <<templates, inDegree, queue, todo, order, result>>
      BY <2>2 DEF sortVars
    <3>2. Nodes' = Nodes /\ Entries' = Entries
      BY <3>1, SortStatic
    <3>3. result # "unknown" => SortCounts'
      BY <3>1, SortStays DEF SortInv
    <3> QED BY <3>1, <3>2, <3>3 DEF SortInv, SortEnded
  <2> QED BY <2>1, <2>2
<1> QED BY <1>1, SortFirst, PTL DEF SortSpec

\* What a node depends on, by its entries.
LEMMA DepsOf ==
  ASSUME NEW n \in Nodes
  PROVE  \A d : d \in Deps[n] <=>
               \E e \in Entries : Waits(e) = n /\ On(e) = d
BY DEF Deps

\* A set of nodes is stuck just when no node of it is free of the others.
LEMMA StuckSets ==
  ASSUME NEW S \in SUBSET Nodes
  PROVE  Stuck(S) <=> ~\E n \in S : Deps[n] \cap S = {}
<1>1. ASSUME NEW n \in S
      PROVE  (\E e \in Entries : Waits(e) = n /\ On(e) \in S)
               <=> Deps[n] \cap S # {}
  <2>1. n \in Nodes
    OBVIOUS
  <2> QED BY <2>1, DepsOf
<1> QED BY <1>1 DEF Stuck

\* TopologicalSort accepts a list exactly when its names are distinct and its
\* dependencies can be met in some order, whatever the map order of the queue.
THEOREM SortAccepts == SortSpec => []AcceptsSortable
<1>1. ASSUME SortInv, result \in {"ok", "cycle"}
      PROVE  result = "ok" <=>
               Cardinality(Nodes) = Len(templates) /\ Sortable(Nodes, Deps)
  <2>1. /\ SortCounts /\ todo = {} /\ queue = <<>> /\ (result = "ok" <=> Len(order) = Len(templates))
        /\ order \in Seq(Nodes) /\ Distinct(order) /\ templates \in TemplateLists
    BY <1>1, Zenon DEF SortInv, SortCounts, SortEnded
  <2>2. /\ IsFiniteSet(Nodes) /\ Cardinality(Nodes) <= Len(templates)
        /\ Len(templates) \in Nat /\ Cardinality(Nodes) \in Nat
    BY <2>1, FiniteGraph, FS_CardinalityType
  <2>3. /\ Elements(order) \in SUBSET Nodes
        /\ Cardinality(Elements(order)) = Len(order) /\ Len(order) \in Nat
    <3>1. Elements(order) \in SUBSET Nodes /\ Len(order) \in Nat
      BY <2>1 DEF Elements
    <3> QED BY <2>1, <3>1, DistinctLength
  <2>4. /\ Len(order) <= Cardinality(Nodes)
        /\ Len(order) = Cardinality(Nodes) => Elements(order) = Nodes
    <3>1. /\ Cardinality(Elements(order)) <= Cardinality(Nodes)
          /\ Cardinality(Nodes) = Cardinality(Elements(order)) => Nodes = Elements(order)
      BY <2>2, <2>3, FS_Subset, ZenonT(30)
    <3> QED BY <2>3, <3>1
  <2>5. ASSUME result = "ok" PROVE Cardinality(Nodes) = Len(templates)
    BY <2>1, <2>2, <2>3, <2>4, <2>5
  <2>6. ASSUME result = "ok" PROVE Sortable(Nodes, Deps)
    <3>1. Elements(order) = Nodes
      BY <2>1, <2>4, <2>5, <2>6
    <3>2. ASSUME NEW S \in SUBSET Nodes, S # {}
          PROVE  \E n \in S : Deps[n] \cap S = {}
      <4>1. ~Stuck(S)
        BY <2>1, <3>1, <3>2 DEF SortCounts
      <4> QED BY <4>1, StuckSets
    <3> QED BY <3>2 DEF Sortable
  <2>7. ASSUME Cardinality(Nodes) = Len(templates), Sortable(Nodes, Deps),
               result # "ok"
        PROVE  FALSE
    <3> DEFINE S == Nodes \ Elements(order)
    <3>1. S \in SUBSET Nodes /\ S # {}
      <4>1. Elements(order) # Nodes
        BY <2>1, <2>3, <2>7
      <4> QED BY <2>3, <4>1, Zenon
    <3>2. PICK n \in S : Deps[n] \cap S = {}
      BY <2>7, <3>1, Zenon DEF Sortable
    <3>3. \A e \in Entries : Waits(e) = n => On(e) \in Elements(order)
      BY <2>1, <3>2, DepsOf DEF SortCounts
    <3>4. Unmet(n) = {}
      BY <2>1, <3>3 DEF Unmet
    <3>5. inDegree[n] = 0
      <4>1. Cardinality(Unmet(n)) = 0
        BY <3>4, FS_EmptySet
      <4> QED BY <2>1, <3>2, <4>1 DEF SortCounts
    <3>6. Elements(queue) = {}
      BY <2>1 DEF Elements
    <3> QED BY <2>1, <3>2, <3>5, <3>6 DEF SortCounts
  <2> QED BY <2>5, <2>6, <2>7
<1>2. SortInv => AcceptsSortable
  BY <1>1 DEF AcceptsSortable
<1> QED BY <1>2, SortInvariance, PTL

\* Every prefix of the order has each template once, after all it depends on.
THEOREM SortOrders == SortSpec => []OrderRespectsDependencies
<1>1. ASSUME SortInv PROVE OrderRespectsDependencies
  <2>1. order \in Seq(Nodes) /\ DOMAIN order = 1..Len(order)
    BY <1>1 DEF SortInv
  <2>2. CASE result = "unknown"
    <3>1. DOMAIN order = {}
      BY <1>1, <2>2 DEF SortInv
    <3>2. IsInjective(order)
      BY <3>1 DEF IsInjective
    <3> QED BY <3>1, <3>2, Zenon DEF OrderRespectsDependencies
  <2>3. CASE result # "unknown"
    <3>1. SortCounts
      BY <1>1, <2>3 DEF SortInv
    <3>2. IsInjective(order)
      <4>1. Distinct(order)
        BY <3>1 DEF SortCounts
      <4> QED BY <2>1, <4>1 DEF Distinct, IsInjective
    <3>3. ASSUME NEW k \in DOMAIN order
          PROVE  Deps[order[k]] \subseteq {order[l] : l \in 1..(k - 1)}
      <4>1. order[k] \in Nodes
        BY <2>1
      <4>2. ASSUME NEW d \in Deps[order[k]] PROVE d \in {order[l] : l \in 1..(k - 1)}
        <5>1. PICK e \in Entries : Waits(e) = order[k] /\ On(e) = d
          BY <4>1, DepsOf
        <5> QED BY <2>1, <3>1, <5>1, Zenon DEF SortCounts
      <4> QED BY <4>2
    <3> QED BY <3>2, <3>3, Zenon DEF OrderRespectsDependencies
  <2> QED BY <2>2, <2>3
<1> QED BY <1>1, SortInvariance, PTL

\* What is left to do: the nodes not in the order, the entries not visited, and
\* the return.
Unordered == Nodes \ Elements(order)
Unvisited == {e \in Entries : On(e) \notin Elements(order) \/ e \in todo}
SortLeft ==
  Cardinality(Unordered) + Cardinality(Unvisited) + (IF result = "running" THEN 1 ELSE 0)
LessIsLeft == SortLeft \in Nat /\ SortLeft' \in Nat /\ SortLeft' < SortLeft

\* They are finitely many.
LEMMA LeftFinite ==
  ASSUME templates \in TemplateLists
  PROVE  /\ IsFiniteSet(Unordered) /\ Cardinality(Unordered) \in Nat
         /\ IsFiniteSet(Unvisited) /\ Cardinality(Unvisited) \in Nat
<1>1. Unordered \in SUBSET Nodes /\ Unvisited \in SUBSET Entries
  BY DEF Unordered, Unvisited
<1>2. IsFiniteSet(Unordered) /\ IsFiniteSet(Unvisited)
  BY <1>1, FiniteGraph, FS_Subset, ZenonT(30)
<1> QED BY <1>2, FS_CardinalityType, Zenon

\* Every iteration of the two loops leaves less to do: TopologicalSort takes at
\* most one step for each node, one for each dependency entry and one to return,
\* for cyclic lists too.
THEOREM SortShrinks == SortSpec => [][LessIsLeft]_sortVars
<1>1. ASSUME SortInv, SortNext
      PROVE  LessIsLeft
  <2>1. /\ templates' = templates /\ templates \in TemplateLists /\ result = "running"
        /\ SortCounts
    BY <1>1 DEF SortNext, TakeNode, VisitDependent, Return, SortInv
  <2>2. /\ Nodes' = Nodes /\ Entries' = Entries
        /\ \A e : Waits(e)' = Waits(e) /\ On(e)' = On(e)
    BY <2>1, SortStatic
  <2>3. /\ IsFiniteSet(Unordered) /\ Cardinality(Unordered) \in Nat
        /\ IsFiniteSet(Unvisited) /\ Cardinality(Unvisited) \in Nat
    BY <2>1, LeftFinite
  <2>4. CASE TakeNode
    <3>1. PICK n : n = Head(queue)
      OBVIOUS
    <3>2. /\ todo = {} /\ queue # <<>> /\ order' = Append(order, n)
          /\ todo' = {e \in Entries : On(e) = n} /\ result' = result
      BY <2>4, <3>1 DEF TakeNode
    <3>3. /\ order \in Seq(Nodes) /\ queue \in Seq(Nodes)
          /\ Distinct(order) /\ Distinct(queue) /\ Elements(order) \cap Elements(queue) = {}
      BY <1>1, <2>1 DEF SortInv, SortCounts
    <3>4. n \in Nodes /\ n \in Elements(queue)
      BY <3>1, <3>2, <3>3, TailElements
    <3>5. n \notin Elements(order)
      BY <3>3, <3>4
    <3>6. Elements(order)' = Elements(order) \cup {n}
      BY <3>2, <3>3, <3>4, <3>5, AppendElements
    <3>7. Unordered' = Unordered \ {n} /\ n \in Unordered
      BY <2>2, <3>4, <3>5, <3>6 DEF Unordered
    <3>8. Unvisited' = Unvisited
      BY <2>2, <3>2, <3>5, <3>6 DEF Unvisited
    <3>9. Cardinality(Unordered') = Cardinality(Unordered) - 1 /\ Cardinality(Unordered') \in Nat
      BY <2>3, <3>7, FS_RemoveElement, FS_CardinalityType
    <3> QED BY <2>1, <2>3, <3>2, <3>8, <3>9, SMTT(30) DEF SortLeft, LessIsLeft
  <2>5. CASE VisitDependent
    <3>1. PICK e \in todo : todo' = todo \ {e} /\ order' = order /\ result' = result
      BY <2>5 DEF VisitDependent
    <3>2. e \in Entries /\ On(e) \in Elements(order)
      BY <1>1, <2>1 DEF SortInv, SortCounts
    <3>3. Unordered' = Unordered
      BY <2>2, <3>1 DEF Unordered
    <3>4. Unvisited' = Unvisited \ {e} /\ e \in Unvisited
      BY <2>2, <3>1, <3>2 DEF Unvisited
    <3>5. Cardinality(Unvisited') = Cardinality(Unvisited) - 1 /\ Cardinality(Unvisited') \in Nat
      BY <2>3, <3>4, FS_RemoveElement, FS_CardinalityType
    <3> QED BY <2>1, <2>3, <3>1, <3>3, <3>5, SMTT(30) DEF SortLeft, LessIsLeft
  <2>6. CASE Return
    <3>1. order' = order /\ todo' = todo /\ result' # "running"
      BY <2>6 DEF Return
    <3>2. Unordered' = Unordered /\ Unvisited' = Unvisited
      BY <2>2, <3>1 DEF Unordered, Unvisited
    <3> QED BY <2>1, <2>3, <3>1, <3>2, SMTT(30) DEF SortLeft, LessIsLeft
  <2> QED BY <1>1, <2>4, <2>5, <2>6 DEF SortNext
<1>2. SortInv /\ [SortNext]_sortVars => [LessIsLeft]_sortVars
  BY <1>1
<1> QED BY <1>2, SortInvariance, PTL DEF SortSpec
=============================================================================
