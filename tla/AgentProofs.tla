----------------------------- MODULE AgentProofs -----------------------------
(***************************************************************************)
(* What the platform hears from the agent, for any number of items, runs   *)
(* and repeated hand-outs.  Every report that is out was true when it was  *)
(* sent and what makes it true is never undone; so it does not matter      *)
(* which are lost and when the others arrive.                              *)
(***************************************************************************)
EXTENDS Agent, FiniteSetTheorems, TLAPS

\* What makes a report of an item true.
Holds(i, status) ==
  /\ status = "completed" => Completed \in reached[i]
  /\ status = "aborted" => Aborted \in reached[i]
  /\ status = "failed" => Failed \in reached[i] \/ i \in refused \/ i \in overdue

\* Every report that has arrived or may still arrive is true.
ReportsHold == \A i \in Items : \A status \in heard[i] \cup late[i] : Holds(i, status)

\* A terminal phase is remembered, and an abort was asked for.
ClusterInv ==
  \A i \in Items :
    /\ phase[i] \in Terminal => phase[i] \in reached[i]
    /\ abort[i] => i \in asked \cup byUser
    /\ Aborted \in reached[i] => i \in asked \cup byUser

\* What a run knows of its item.
RunInv ==
  \A r \in Runs :
    /\ pc[r] \notin {"report", "annotate"} => seen[r] = Absent
    /\ seen[r] \in Terminal => seen[r] \in reached[item[r]]
    /\ pc[r] = "refused" => item[r] \in refused
    /\ pc[r] = "overdue" => item[r] \in overdue
    /\ pc[r] = "annotate" => item[r] \in asked

\* The verdicts a run has sent.
SaidInv ==
  \A r \in Runs :
    /\ pc[r] = "ended" => said[r] = 1
    /\ pc[r] = "annotate" => said[r] = IF seen[r] \in Terminal THEN 1 ELSE 0
    /\ pc[r] \notin {"annotate", "ended"} => said[r] = 0

\* The runs that still have to apply an item.
Claimed(i) == {r \in Runs : pc[r] = "claimed" /\ item[r] = i}

\* A hand-out of an item is used up by the apply that may create the experiment.
CountInv == \A i \in Items : created[i] + Cardinality(Claimed(i)) <= claims[i]

IInv == TypeOK /\ ReportsHold /\ ClusterInv /\ RunInv /\ SaidInv /\ CountInv
-----------------------------------------------------------------------------
\* The agent starts with no run, no experiment and no report.
LEMMA InitIInv == Init => IInv
<1> SUFFICES ASSUME Init PROVE IInv
  OBVIOUS
<1>1. TypeOK
  BY DEF Init, TypeOK, PCs, Absent, Statuses
<1>2. ReportsHold /\ RunInv /\ SaidInv
  BY DEF Init, ReportsHold, RunInv, SaidInv, Absent, Terminal, Completed, Failed, Aborted
<1>3. ClusterInv
  BY DEF Init, ClusterInv, Absent, Terminal, Completed, Failed, Aborted
<1>4. CountInv
  <2>1. ASSUME NEW i \in Items PROVE Cardinality(Claimed(i)) = 0
    <3>1. Claimed(i) = {}
      BY DEF Init, Claimed
    <3> QED
      BY <3>1, FS_EmptySet
  <2> QED
    BY <2>1 DEF Init, CountInv
<1> QED
  BY <1>1, <1>2, <1>3, <1>4 DEF IInv

\* A status that mapPhase gives is one of the four.
LEMMA MapPhaseType == \A p : MapPhase(p) \in Statuses
BY DEF MapPhase, Statuses

\* A report changes what is out for the run's item only, and adds itself only.
LEMMA SendAdds ==
  ASSUME TypeOK, NEW r \in Runs, NEW status \in Statuses, Send(r, status)
  PROVE  /\ heard' \in [Items -> SUBSET Statuses]
         /\ late' \in [Items -> SUBSET Statuses]
         /\ \A i \in Items : \A s \in heard'[i] \cup late'[i] :
              s \in heard[i] \cup late[i] \/ (i = item[r] /\ s = status)
BY DEF TypeOK, Send

\* It counts when it is a verdict.
LEMMA SendCounts ==
  ASSUME TypeOK, NEW r \in Runs, NEW status \in Statuses, Send(r, status)
  PROVE  /\ said' \in [Runs -> Nat]
         /\ \A q \in Runs : q # r => said'[q] = said[q]
         /\ status = "running" => said'[r] = said[r]
         /\ status # "running" => said'[r] = said[r] + 1
         /\ asked' = asked /\ claims' = claims
BY DEF TypeOK, Send, Verdicts, Statuses

\* Each step keeps the types.
LEMMA Types == TypeOK /\ [Next]_vars => TypeOK'
<1> SUFFICES ASSUME TypeOK, [Next]_vars PROVE TypeOK'
  OBVIOUS
<1>c. /\ Pending \in Phases /\ Completed \in Terminal
      /\ Statuses = {"running", "completed", "failed", "aborted"}
  BY DEF Phases, Terminal, Statuses
<1>p. ASSUME NEW i \in Items, Patch(i)
      PROVE  /\ phase' \in [Items -> Phases \cup {Absent}]
             /\ abort' \in [Items -> BOOLEAN]
             /\ byUser' = byUser /\ changes' = changes /\ reached' = reached
             /\ created' \in [Items -> Nat]
  <2>1. CASE phase[i] = Absent
    <3>1. /\ phase' = [phase EXCEPT ![i] = Pending]
          /\ abort' = [abort EXCEPT ![i] = FALSE]
          /\ created' = [created EXCEPT ![i] = @ + 1]
          /\ UNCHANGED <<byUser, changes, reached>>
      BY <1>p, <2>1 DEF Patch
    <3> QED
      BY <3>1, <1>c DEF TypeOK
  <2>2. CASE phase[i] # Absent
    BY <1>p, <2>2 DEF Patch, TypeOK, clusterVars
  <2> QED
    BY <2>1, <2>2
<1>1. ASSUME NEW r \in Runs, ClaimWork(r) PROVE TypeOK'
  BY <1>1 DEF ClaimWork, TypeOK, Goto, PCs, clusterVars
<1>2. ASSUME NEW r \in Runs, Apply(r) PROVE TypeOK'
  <2>1. item[r] \in Items
    BY DEF TypeOK
  <2> QED
    BY <1>2, <1>p, <2>1 DEF Apply, TypeOK, Goto, PCs, platformVars
<1>3. ASSUME NEW r \in Runs, ApplyFails(r) PROVE TypeOK'
  <2>1. item[r] \in Items
    BY DEF TypeOK
  <2>2. CASE Patch(item[r])
    BY <1>3, <1>p, <2>1, <2>2 DEF ApplyFails, TypeOK, Goto, PCs, platformVars
  <2>3. CASE UNCHANGED clusterVars
    BY <1>3, <2>1, <2>3 DEF ApplyFails, TypeOK, Goto, PCs, platformVars, clusterVars
  <2> QED
    BY <1>3, <2>2, <2>3 DEF ApplyFails
<1>4. ASSUME NEW r \in Runs, ReportRefused(r) PROVE TypeOK'
  <2>1. Send(r, "failed") /\ "failed" \in Statuses
    BY <1>4, <1>c DEF ReportRefused
  <2> QED
    BY <1>4, <2>1, SendAdds, SendCounts DEF ReportRefused, TypeOK, Goto, PCs, clusterVars
<1>5. ASSUME NEW r \in Runs, ReportRunning(r) PROVE TypeOK'
  <2>1. Send(r, "running") /\ "running" \in Statuses
    BY <1>5, <1>c DEF ReportRunning
  <2> QED
    BY <1>5, <2>1, SendAdds, SendCounts DEF ReportRunning, TypeOK, Goto, PCs, clusterVars
<1>6. ASSUME NEW r \in Runs, Get(r) PROVE TypeOK'
  BY <1>6 DEF Get, TypeOK, Goto, PCs, clusterVars, platformVars
<1>7. ASSUME NEW r \in Runs, GetFails(r) PROVE TypeOK'
  BY <1>7 DEF GetFails, TypeOK, Goto, PCs, clusterVars, platformVars
<1>t. ASSUME NEW r \in Runs, EndTurn(r)
      PROVE  pc' \in [Runs -> PCs] /\ overdue' \subseteq Items
             /\ seen' \in [Runs -> Phases \cup {Absent}]
  BY <1>t DEF EndTurn, AfterTurn, TypeOK, Goto, PCs
<1>8. ASSUME NEW r \in Runs, ReportPhase(r) PROVE TypeOK'
  <2>1. Send(r, MapPhase(seen[r])) /\ MapPhase(seen[r]) \in Statuses
    BY <1>8, MapPhaseType DEF ReportPhase
  <2>2. pc' \in [Runs -> PCs] /\ overdue' \subseteq Items
        /\ seen' \in [Runs -> Phases \cup {Absent}]
    <3>1. CASE EndTurn(r)
      BY <3>1, <1>t
    <3>2. CASE Goto(r, "annotate") /\ UNCHANGED <<seen, overdue>>
      BY <3>2 DEF TypeOK, Goto, PCs
    <3> QED
      BY <1>8, <3>1, <3>2 DEF ReportPhase
  <2> QED
    BY <1>8, <2>1, <2>2, SendAdds, SendCounts DEF ReportPhase, TypeOK, clusterVars
<1>9. ASSUME NEW r \in Runs, AnnotateAbort(r) PROVE TypeOK'
  BY <1>9, <1>t DEF AnnotateAbort, TypeOK, platformVars
<1>10. ASSUME NEW r \in Runs, ReportOverdue(r) PROVE TypeOK'
  <2>1. Send(r, "failed") /\ "failed" \in Statuses
    BY <1>10, <1>c DEF ReportOverdue
  <2> QED
    BY <1>10, <2>1, SendAdds, SendCounts DEF ReportOverdue, TypeOK, Goto, PCs, clusterVars
<1>11. ASSUME NEW r \in Runs, Return(r) PROVE TypeOK'
  BY <1>11 DEF Return, TypeOK, Goto, PCs, clusterVars, platformVars
<1>12. ASSUME NEW r \in Runs, Expire(r) PROVE TypeOK'
  BY <1>12 DEF Expire, TypeOK, clusterVars, platformVars
<1>13. CASE Restart
  BY <1>13 DEF Restart, TypeOK, PCs, clusterVars, platformVars
<1>14. ASSUME NEW i \in Items, Controller(i) PROVE TypeOK'
  BY <1>14 DEF Controller, TypeOK, runVars, platformVars
<1>15. ASSUME NEW i \in Items, UserDeletes(i) PROVE TypeOK'
  BY <1>15 DEF UserDeletes, TypeOK, runVars, platformVars
<1>16. ASSUME NEW i \in Items, UserAborts(i) PROVE TypeOK'
  BY <1>16 DEF UserAborts, TypeOK, runVars, platformVars
<1>17. ASSUME NEW i \in Items, PlatformAborts(i) PROVE TypeOK'
  BY <1>17 DEF PlatformAborts, TypeOK, runVars, clusterVars
<1>18. ASSUME NEW i \in Items, Arrive(i) PROVE TypeOK'
  BY <1>18 DEF Arrive, TypeOK, runVars, clusterVars
<1>19. CASE UNCHANGED vars
  BY <1>19 DEF TypeOK, vars, runVars, clusterVars, platformVars
<1> QED
  BY <1>1, <1>2, <1>3, <1>4, <1>5, <1>6, <1>7, <1>8, <1>9, <1>10, <1>11, <1>12, <1>13,
     <1>14, <1>15, <1>16, <1>17, <1>18, <1>19 DEF Next, Step, Environment
\* What makes a report true or an abort wanted is never undone.
Grow ==
  /\ \A i \in Items : reached[i] \subseteq reached'[i]
  /\ asked \subseteq asked' /\ byUser \subseteq byUser'
  /\ refused \subseteq refused' /\ overdue \subseteq overdue'

\* No step of the agent, of the cluster or of the platform takes anything back.
LEMMA Grows == TypeOK /\ [Next]_vars => Grow
<1> SUFFICES ASSUME TypeOK, [Next]_vars PROVE Grow
  OBVIOUS
<1>p. ASSUME NEW i \in Items, Patch(i) PROVE byUser' = byUser /\ reached' = reached
  BY <1>p DEF Patch, clusterVars
<1>1. ASSUME NEW r \in Runs, ClaimWork(r) \/ Step(r) \/ Expire(r) PROVE Grow
  <2>1. reached' = reached /\ byUser' = byUser
    <3>1. item[r] \in Items
      BY DEF TypeOK
    <3>2. CASE Apply(r) \/ ApplyFails(r)
      BY <3>1, <3>2, <1>p DEF Apply, ApplyFails, clusterVars
    <3>3. CASE AnnotateAbort(r)
      BY <3>3 DEF AnnotateAbort
    <3>4. CASE ~Apply(r) /\ ~ApplyFails(r) /\ ~AnnotateAbort(r)
      BY <1>1, <3>4 DEF ClaimWork, Step, Expire, ReportRefused, ReportRunning, Get, GetFails,
        ReportPhase, ReportOverdue, Return, clusterVars
    <3> QED
      BY <3>2, <3>3, <3>4
  <2>2. asked' = asked /\ refused \subseteq refused' /\ overdue \subseteq overdue'
    BY <1>1 DEF ClaimWork, Step, Expire, Apply, ApplyFails, ReportRefused, ReportRunning, Get,
      GetFails, ReportPhase, AnnotateAbort, ReportOverdue, Return, Send, EndTurn, platformVars
  <2> QED
    BY <2>1, <2>2 DEF Grow
<1>2. CASE Restart
  BY <1>2 DEF Restart, Grow, clusterVars, platformVars
<1>3. ASSUME NEW i \in Items, Environment(i) PROVE Grow
  <2>1. CASE Controller(i)
    BY <2>1 DEF Controller, Grow, TypeOK, platformVars
  <2>2. CASE UserDeletes(i)
    BY <2>2 DEF UserDeletes, Grow, platformVars
  <2>3. CASE UserAborts(i)
    BY <2>3 DEF UserAborts, Grow, platformVars
  <2>4. CASE PlatformAborts(i)
    BY <2>4 DEF PlatformAborts, Grow, clusterVars
  <2>5. CASE Arrive(i)
    BY <2>5 DEF Arrive, Grow, clusterVars
  <2> QED
    BY <1>3, <2>1, <2>2, <2>3, <2>4, <2>5 DEF Environment
<1>4. CASE UNCHANGED vars
  BY <1>4 DEF vars, Grow, clusterVars, platformVars
<1> QED
  BY <1>1, <1>2, <1>3, <1>4 DEF Next

\* What a step of the agent does to the cluster: it may create an experiment, and
\* it may annotate one that the platform wants aborted.
LEMMA AgentOnCluster ==
  ASSUME TypeOK, RunInv, NEW r \in Runs, ClaimWork(r) \/ Step(r) \/ Expire(r)
  PROVE  /\ reached' = reached
         /\ \A i \in Items : phase'[i] = phase[i] \/ phase'[i] = Pending
         /\ \A i \in Items : abort'[i] => abort[i] \/ i \in asked
<1>i. item[r] \in Items
  BY DEF TypeOK
<1>p. ASSUME Patch(item[r])
      PROVE  /\ reached' = reached
             /\ \A i \in Items : phase'[i] = phase[i] \/ phase'[i] = Pending
             /\ \A i \in Items : abort'[i] => abort[i]
  BY <1>p, <1>i DEF Patch, TypeOK, clusterVars
<1>1. CASE Apply(r) \/ ApplyFails(r)
  <2>1. CASE Patch(item[r])
    BY <2>1, <1>p
  <2>2. CASE UNCHANGED clusterVars
    BY <2>2 DEF clusterVars
  <2> QED
    BY <1>1, <2>1, <2>2 DEF Apply, ApplyFails
<1>2. CASE AnnotateAbort(r)
  <2>1. item[r] \in asked
    BY <1>2 DEF AnnotateAbort, RunInv
  <2> QED
    BY <1>2, <2>1, <1>i DEF AnnotateAbort, TypeOK
<1>3. CASE ~Apply(r) /\ ~ApplyFails(r) /\ ~AnnotateAbort(r)
  BY <1>3 DEF ClaimWork, Step, Expire, ReportRefused, ReportRunning, Get, GetFails,
    ReportPhase, ReportOverdue, Return, clusterVars
<1> QED
  BY <1>1, <1>2, <1>3

\* Each step keeps what is known of the cluster.
LEMMA ClusterStep == TypeOK /\ RunInv /\ ClusterInv /\ [Next]_vars => ClusterInv'
<1> SUFFICES ASSUME TypeOK, RunInv, ClusterInv, [Next]_vars PROVE ClusterInv'
  OBVIOUS
<1>g. Grow
  BY Grows
<1>c. Pending \notin Terminal /\ Absent \notin Terminal
  BY DEF Pending, Absent, Terminal, Completed, Failed, Aborted
<1>1. ASSUME NEW r \in Runs, ClaimWork(r) \/ Step(r) \/ Expire(r) PROVE ClusterInv'
  BY <1>1, <1>g, <1>c, AgentOnCluster DEF ClusterInv, Grow
<1>2. CASE Restart
  BY <1>2 DEF Restart, ClusterInv, clusterVars, platformVars
<1>3. ASSUME NEW i \in Items, Environment(i) PROVE ClusterInv'
  <2>1. CASE Controller(i)
    <3>1. PICK next : /\ next = Aborted => abort[i]
                      /\ phase' = [phase EXCEPT ![i] = next]
                      /\ reached' = [reached EXCEPT ![i] = @ \cup ({next} \cap Terminal)]
      BY <2>1 DEF Controller
    <3>2. abort' = abort /\ asked' = asked /\ byUser' = byUser
      BY <2>1 DEF Controller, platformVars
    <3> QED
      BY <3>1, <3>2 DEF ClusterInv, TypeOK
  <2>2. CASE UserDeletes(i)
    BY <2>2, <1>c DEF UserDeletes, ClusterInv, TypeOK, platformVars
  <2>3. CASE UserAborts(i)
    BY <2>3 DEF UserAborts, ClusterInv, TypeOK, platformVars
  <2>4. CASE PlatformAborts(i)
    BY <2>4 DEF PlatformAborts, ClusterInv, clusterVars
  <2>5. CASE Arrive(i)
    BY <2>5 DEF Arrive, ClusterInv, clusterVars
  <2> QED
    BY <1>3, <2>1, <2>2, <2>3, <2>4, <2>5 DEF Environment
<1>4. CASE UNCHANGED vars
  BY <1>4 DEF vars, ClusterInv, clusterVars, platformVars
<1> QED
  BY <1>1, <1>2, <1>3, <1>4 DEF Next
\* A run that the step is not about keeps what it knows.
LEMMA OtherRuns ==
  ASSUME TypeOK, RunInv, Grow, NEW q \in Runs,
         pc'[q] = pc[q], item'[q] = item[q], seen'[q] = seen[q]
  PROVE  /\ pc'[q] \notin {"report", "annotate"} => seen'[q] = Absent
         /\ seen'[q] \in Terminal => seen'[q] \in reached'[item'[q]]
         /\ pc'[q] = "refused" => item'[q] \in refused'
         /\ pc'[q] = "overdue" => item'[q] \in overdue'
         /\ pc'[q] = "annotate" => item'[q] \in asked'
<1>1. item[q] \in Items
  BY DEF TypeOK
<1> QED
  BY <1>1 DEF RunInv, Grow

\* Each step keeps what the runs know.
LEMMA RunStep == TypeOK /\ ClusterInv /\ RunInv /\ [Next]_vars => RunInv'
<1> SUFFICES ASSUME TypeOK, ClusterInv, RunInv, [Next]_vars PROVE RunInv'
  OBVIOUS
<1>g. Grow
  BY Grows
<1>c. Absent \notin Terminal
  BY DEF Absent, Terminal, Completed, Failed, Aborted
<1>1. ASSUME NEW r \in Runs, ClaimWork(r) \/ Step(r) \/ Expire(r) PROVE RunInv'
  <2>1. ASSUME NEW q \in Runs, q # r
        PROVE  pc'[q] = pc[q] /\ item'[q] = item[q] /\ seen'[q] = seen[q]
    BY <1>1, <2>1 DEF ClaimWork, Step, Expire, Apply, ApplyFails, ReportRefused,
      ReportRunning, Get, GetFails, ReportPhase, AnnotateAbort, ReportOverdue, Return,
      EndTurn, Goto, TypeOK
  <2>2. /\ pc'[r] \notin {"report", "annotate"} => seen'[r] = Absent
        /\ seen'[r] \in Terminal => seen'[r] \in reached'[item'[r]]
        /\ pc'[r] = "refused" => item'[r] \in refused'
        /\ pc'[r] = "overdue" => item'[r] \in overdue'
        /\ pc'[r] = "annotate" => item'[r] \in asked'
    <3>i. item[r] \in Items
      BY DEF TypeOK
    <3>1. CASE ClaimWork(r)
      BY <3>1, <1>c DEF ClaimWork, Goto, RunInv, TypeOK
    <3>2. CASE Apply(r) \/ ReportRefused(r) \/ ReportRunning(r) \/ GetFails(r)
               \/ ReportOverdue(r) \/ Return(r)
      BY <3>2, <1>c DEF Apply, ReportRefused, ReportRunning, GetFails, ReportOverdue,
        Return, Goto, RunInv, TypeOK
    <3>3. CASE ApplyFails(r)
      BY <3>3, <1>c DEF ApplyFails, Goto, RunInv, TypeOK
    <3>4. CASE Get(r)
      BY <3>4, <3>i DEF Get, Goto, ClusterInv, TypeOK, clusterVars
    <3>t. ASSUME EndTurn(r), item' = item
          PROVE  /\ seen'[r] = Absent /\ pc'[r] \in {"ended", "overdue", "watch"}
                 /\ pc'[r] = "overdue" => item'[r] \in overdue'
      BY <3>t DEF EndTurn, AfterTurn, Goto, TypeOK
    <3>5. CASE ReportPhase(r)
      <4>1. item' = item /\ asked' = asked /\ reached' = reached /\ pc[r] = "report"
        BY <3>5 DEF ReportPhase, Send, clusterVars
      <4>2. CASE EndTurn(r)
        BY <4>1, <4>2, <3>t, <1>c
      <4>3. CASE WantsAbort(r) /\ Goto(r, "annotate") /\ UNCHANGED <<seen, overdue>>
        BY <4>1, <4>3 DEF WantsAbort, Goto, RunInv, TypeOK
      <4> QED
        BY <3>5, <4>2, <4>3 DEF ReportPhase
    <3>6. CASE AnnotateAbort(r)
      BY <3>6, <3>t, <1>c DEF AnnotateAbort
    <3>7. CASE Expire(r)
      BY <3>7, <1>g, OtherRuns DEF Expire
    <3> QED
      BY <1>1, <3>1, <3>2, <3>3, <3>4, <3>5, <3>6, <3>7 DEF Step
  <2>3. ASSUME NEW q \in Runs, q # r
        PROVE  /\ pc'[q] \notin {"report", "annotate"} => seen'[q] = Absent
               /\ seen'[q] \in Terminal => seen'[q] \in reached'[item'[q]]
               /\ pc'[q] = "refused" => item'[q] \in refused'
               /\ pc'[q] = "overdue" => item'[q] \in overdue'
               /\ pc'[q] = "annotate" => item'[q] \in asked'
    BY <2>1, <2>3, <1>g, OtherRuns
  <2> QED
    BY <2>2, <2>3 DEF RunInv
<1>2. CASE Restart
  BY <1>2, <1>c DEF Restart, RunInv
<1>3. ASSUME NEW i \in Items, Environment(i) PROVE RunInv'
  <2>1. pc' = pc /\ item' = item /\ seen' = seen
    BY <1>3 DEF Environment, Controller, UserDeletes, UserAborts, PlatformAborts, Arrive,
      runVars
  <2> QED
    BY <2>1, <1>g, OtherRuns DEF RunInv
<1>4. CASE UNCHANGED vars
  BY <1>4, <1>g, OtherRuns DEF vars, runVars, RunInv
<1> QED
  BY <1>1, <1>2, <1>3, <1>4 DEF Next

\* Each step keeps the count of the verdicts of a run.
LEMMA SaidStep == TypeOK /\ RunInv /\ SaidInv /\ [Next]_vars => SaidInv'
<1> SUFFICES ASSUME TypeOK, RunInv, SaidInv, [Next]_vars PROVE SaidInv'
  OBVIOUS
<1>c. /\ Absent \notin Terminal
      /\ "failed" \in Statuses /\ "running" \in Statuses
      /\ \A p : MapPhase(p) = "running" <=> p \notin Terminal
  BY DEF Absent, Statuses, MapPhase, Terminal, Completed, Failed, Aborted
<1>1. ASSUME NEW r \in Runs, ClaimWork(r) \/ Step(r) \/ Expire(r) PROVE SaidInv'
  <2>1. ASSUME NEW q \in Runs, q # r
        PROVE  pc'[q] = pc[q] /\ seen'[q] = seen[q] /\ said'[q] = said[q]
    BY <1>1, <2>1 DEF ClaimWork, Step, Expire, Apply, ApplyFails, ReportRefused,
      ReportRunning, Get, GetFails, ReportPhase, AnnotateAbort, ReportOverdue, Return,
      EndTurn, Send, Goto, TypeOK
  <2>2. /\ pc'[r] = "ended" => said'[r] = 1
        /\ pc'[r] = "annotate" => said'[r] = IF seen'[r] \in Terminal THEN 1 ELSE 0
        /\ pc'[r] \notin {"annotate", "ended"} => said'[r] = 0
    <3>1. CASE ClaimWork(r) \/ Apply(r) \/ ApplyFails(r) \/ Get(r) \/ GetFails(r) \/ Return(r)
      BY <3>1 DEF ClaimWork, Apply, ApplyFails, Get, GetFails, Return, Goto, SaidInv, TypeOK
    <3>2. CASE ReportRefused(r) \/ ReportOverdue(r)
      <4>1. pc'[r] = "ended" /\ said[r] = 0 /\ Send(r, "failed")
        BY <3>2 DEF ReportRefused, ReportOverdue, Goto, SaidInv, TypeOK
      <4> QED
        BY <4>1, <1>c, SendCounts
    <3>3. CASE ReportRunning(r)
      <4>1. pc'[r] = "watch" /\ said[r] = 0 /\ Send(r, "running")
        BY <3>3 DEF ReportRunning, Goto, SaidInv, TypeOK
      <4> QED
        BY <4>1, <1>c, SendCounts
    <3>4. CASE ReportPhase(r)
      <4>1. said[r] = 0 /\ Send(r, MapPhase(seen[r]))
        BY <3>4 DEF ReportPhase, SaidInv
      <4>2. said'[r] = IF seen[r] \in Terminal THEN 1 ELSE 0
        BY <4>1, <1>c, SendCounts, MapPhaseType
      <4>3. CASE EndTurn(r)
        BY <4>2, <4>3 DEF EndTurn, AfterTurn, Goto, TypeOK
      <4>4. CASE Goto(r, "annotate") /\ UNCHANGED <<seen, overdue>>
        BY <4>2, <4>4 DEF Goto, TypeOK
      <4> QED
        BY <3>4, <4>3, <4>4 DEF ReportPhase
    <3>5. CASE AnnotateAbort(r)
      <4>1. said'[r] = IF seen[r] \in Terminal THEN 1 ELSE 0
        BY <3>5 DEF AnnotateAbort, SaidInv
      <4>2. pc'[r] = AfterTurn(r)
        BY <3>5 DEF AnnotateAbort, EndTurn, Goto, TypeOK
      <4> QED
        BY <4>1, <4>2 DEF AfterTurn
    <3>6. CASE Expire(r)
      BY <3>6 DEF Expire, SaidInv
    <3> QED
      BY <1>1, <3>1, <3>2, <3>3, <3>4, <3>5, <3>6 DEF Step
  <2> QED
    BY <2>1, <2>2 DEF SaidInv
<1>2. CASE Restart
  BY <1>2 DEF Restart, SaidInv
<1>3. ASSUME NEW i \in Items, Environment(i) PROVE SaidInv'
  <2>1. pc' = pc /\ said' = said /\ seen' = seen
    BY <1>3 DEF Environment, Controller, UserDeletes, UserAborts, PlatformAborts, Arrive,
      runVars
  <2> QED
    BY <2>1 DEF SaidInv
<1>4. CASE UNCHANGED vars
  BY <1>4 DEF vars, runVars, SaidInv
<1> QED
  BY <1>1, <1>2, <1>3, <1>4 DEF Next
\* Each step keeps the reports true.
LEMMA ReportsStep ==
  TypeOK /\ RunInv /\ ReportsHold /\ [Next]_vars => ReportsHold'
<1> SUFFICES ASSUME TypeOK, RunInv, ReportsHold, [Next]_vars PROVE ReportsHold'
  OBVIOUS
<1>g. ASSUME NEW i \in Items, NEW status, Holds(i, status) PROVE Holds(i, status)'
  BY <1>g, Grows DEF Grow, Holds
<1>c. /\ "failed" \in Statuses /\ "running" \in Statuses
      /\ \A p : MapPhase(p) \in Statuses
  BY MapPhaseType DEF Statuses
<1>k. ASSUME \A i \in Items : heard'[i] \cup late'[i] \subseteq heard[i] \cup late[i]
      PROVE  ReportsHold'
  BY <1>k, <1>g DEF ReportsHold
<1>s. ASSUME NEW r \in Runs, NEW status \in Statuses, Send(r, status), Holds(item[r], status)
      PROVE  ReportsHold'
  <2>1. item[r] \in Items
    BY DEF TypeOK
  <2>2. ASSUME NEW i \in Items, NEW s \in heard'[i] \cup late'[i] PROVE Holds(i, s)
    <3>1. s \in heard[i] \cup late[i] \/ (i = item[r] /\ s = status)
      BY <1>s, <2>2, SendAdds
    <3>2. CASE s \in heard[i] \cup late[i]
      BY <3>2 DEF ReportsHold
    <3>3. CASE i = item[r] /\ s = status
      BY <3>3, <1>s
    <3> QED
      BY <3>1, <3>2, <3>3
  <2> QED
    BY <2>2, <1>g DEF ReportsHold
<1>1. ASSUME NEW r \in Runs, ClaimWork(r) \/ Step(r) \/ Expire(r) PROVE ReportsHold'
  <2>1. CASE ReportRefused(r)
    <3>1. Send(r, "failed") /\ Holds(item[r], "failed")
      BY <2>1 DEF ReportRefused, RunInv, Holds
    <3> QED
      BY <3>1, <1>s, <1>c
  <2>2. CASE ReportOverdue(r)
    <3>1. Send(r, "failed") /\ Holds(item[r], "failed")
      BY <2>2 DEF ReportOverdue, RunInv, Holds
    <3> QED
      BY <3>1, <1>s, <1>c
  <2>3. CASE ReportRunning(r)
    <3>1. Send(r, "running") /\ Holds(item[r], "running")
      BY <2>3 DEF ReportRunning, Holds
    <3> QED
      BY <3>1, <1>s, <1>c
  <2>4. CASE ReportPhase(r)
    <3>1. Holds(item[r], MapPhase(seen[r]))
      BY DEF RunInv, Holds, MapPhase, Terminal
    <3>2. Send(r, MapPhase(seen[r]))
      BY <2>4 DEF ReportPhase
    <3> QED
      BY <3>1, <3>2, <1>s, <1>c
  <2>5. CASE ~ReportRefused(r) /\ ~ReportOverdue(r) /\ ~ReportRunning(r) /\ ~ReportPhase(r)
    <3>1. heard' = heard /\ late' = late
      BY <1>1, <2>5 DEF ClaimWork, Step, Expire, Apply, ApplyFails, Get, GetFails,
        AnnotateAbort, Return, platformVars
    <3> QED
      BY <3>1, <1>k
  <2> QED
    BY <2>1, <2>2, <2>3, <2>4, <2>5
<1>2. CASE Restart
  BY <1>2, <1>k DEF Restart, platformVars
<1>3. ASSUME NEW i \in Items, Environment(i) PROVE ReportsHold'
  <2>1. CASE Arrive(i)
    <3>1. \A j \in Items : heard'[j] \cup late'[j] \subseteq heard[j] \cup late[j]
      BY <2>1 DEF Arrive, TypeOK
    <3> QED
      BY <3>1, <1>k
  <2>2. CASE ~Arrive(i)
    <3>1. heard' = heard /\ late' = late
      BY <1>3, <2>2 DEF Environment, Controller, UserDeletes, UserAborts, PlatformAborts,
        platformVars
    <3> QED
      BY <3>1, <1>k
  <2> QED
    BY <2>1, <2>2
<1>4. CASE UNCHANGED vars
  BY <1>4, <1>k DEF vars, platformVars
<1> QED
  BY <1>1, <1>2, <1>3, <1>4 DEF Next

\* The runs that have to apply an item are finitely many.
LEMMA ClaimedFinite ==
  \A i : IsFiniteSet(Claimed(i)) /\ Cardinality(Claimed(i)) \in Nat
<1> TAKE i
<1>1. Claimed(i) \subseteq Runs
  BY DEF Claimed
<1> QED
  BY <1>1, RunsAssumption, FS_Subset, FS_CardinalityType

\* Each step keeps the balance of hand-outs and experiments.
LEMMA CountStep == TypeOK /\ CountInv /\ [Next]_vars => CountInv'
<1> SUFFICES ASSUME TypeOK, CountInv, [Next]_vars PROVE CountInv'
  OBVIOUS
<1>t. \A i \in Items : created[i] \in Nat /\ claims[i] \in Nat
  BY DEF TypeOK
\* A step that starts no run and creates nothing.
<1>k. ASSUME created' = created, claims' = claims,
             \A i \in Items : Claimed(i)' \subseteq Claimed(i)
      PROVE  CountInv'
  <2>1. \A i \in Items : Cardinality(Claimed(i)') <= Cardinality(Claimed(i))
    BY <1>k, ClaimedFinite, FS_Subset
  <2>2. \A i \in Items : Cardinality(Claimed(i)') \in Nat /\ Cardinality(Claimed(i)) \in Nat
    BY <1>k, ClaimedFinite, FS_Subset, FS_CardinalityType
  <2>3. ASSUME NEW i \in Items
        PROVE  created'[i] + Cardinality(Claimed(i)') <= claims'[i]
    BY <1>k, <2>1, <2>2, <1>t DEF CountInv
  <2> QED
    BY <2>3 DEF CountInv
<1>1. ASSUME NEW r \in Runs, ClaimWork(r) PROVE CountInv'
  <2>1. PICK i \in Items : claims' = [claims EXCEPT ![i] = @ + 1]
                           /\ item' = [item EXCEPT ![r] = i]
    BY <1>1 DEF ClaimWork
  <2>2. created' = created /\ pc[r] = "idle" /\ pc' = [pc EXCEPT ![r] = "claimed"]
    BY <1>1 DEF ClaimWork, Goto, clusterVars
  <2>3. Claimed(i)' = Claimed(i) \cup {r} /\ r \notin Claimed(i)
    BY <2>1, <2>2 DEF Claimed, TypeOK
  <2>4. Cardinality(Claimed(i)') = Cardinality(Claimed(i)) + 1
    BY <2>3, ClaimedFinite, FS_AddElement
  <2>5. \A j \in Items : j # i => Claimed(j)' = Claimed(j)
    BY <2>1, <2>2 DEF Claimed, TypeOK
  <2>6. claims'[i] = claims[i] + 1 /\ \A j \in Items : j # i => claims'[j] = claims[j]
    BY <2>1 DEF TypeOK
  <2>7. ASSUME NEW j \in Items
        PROVE  created'[j] + Cardinality(Claimed(j)') <= claims'[j]
    <3>1. CASE j = i
      <4>1. Cardinality(Claimed(i)) \in Nat
        BY ClaimedFinite, FS_CardinalityType
      <4>2. created[i] + Cardinality(Claimed(i)) <= claims[i]
        BY DEF CountInv
      <4>3. created'[i] = created[i]
        BY <2>2
      <4>4. created[i] + (Cardinality(Claimed(i)) + 1) <= claims[i] + 1
        BY <4>1, <4>2, <1>t
      <4> QED
        BY <3>1, <4>3, <4>4, <2>4, <2>6
    <3>2. CASE j # i
      BY <3>2, <2>2, <2>5, <2>6 DEF CountInv
    <3> QED
      BY <3>1, <3>2
  <2> QED
    BY <2>7 DEF CountInv
<1>2. ASSUME NEW r \in Runs, Apply(r) \/ ApplyFails(r) PROVE CountInv'
  <2>i. item[r] \in Items
    BY DEF TypeOK
  <2>1. /\ claims' = claims /\ item' = item /\ pc[r] = "claimed"
        /\ \A q \in Runs : pc'[q] = "claimed" <=> q # r /\ pc[q] = "claimed"
    BY <1>2 DEF Apply, ApplyFails, Goto, TypeOK, platformVars
  <2>2. /\ \A j \in Items : j # item[r] => created'[j] = created[j]
        /\ created'[item[r]] \in Nat
        /\ created'[item[r]] <= created[item[r]] + 1
    <3>1. CASE created' = created
      BY <3>1, <2>i, <1>t
    <3>2. CASE created' = [created EXCEPT ![item[r]] = @ + 1]
      BY <3>2, <2>i, <1>t DEF TypeOK
    <3> QED
      BY <1>2, <3>1, <3>2 DEF Apply, ApplyFails, Patch, clusterVars
  <2>3. r \in Claimed(item[r]) /\ Claimed(item[r])' = Claimed(item[r]) \ {r}
    BY <2>1 DEF Claimed
  <2>4. Cardinality(Claimed(item[r])') = Cardinality(Claimed(item[r])) - 1
    BY <2>3, ClaimedFinite, FS_RemoveElement
  <2>5. \A j \in Items : j # item[r] => Claimed(j)' = Claimed(j)
    BY <2>1 DEF Claimed
  <2>6. ASSUME NEW j \in Items
        PROVE  created'[j] + Cardinality(Claimed(j)') <= claims'[j]
    <3>1. CASE j = item[r]
      BY <3>1, <2>1, <2>2, <2>4, <1>t, ClaimedFinite DEF CountInv
    <3>2. CASE j # item[r]
      BY <3>2, <2>1, <2>2, <2>5 DEF CountInv
    <3> QED
      BY <3>1, <3>2
  <2> QED
    BY <2>6 DEF CountInv
<1>3. ASSUME NEW r \in Runs, Step(r) \/ Expire(r), ~Apply(r), ~ApplyFails(r) PROVE CountInv'
  <2>1. created' = created /\ claims' = claims /\ item' = item
    BY <1>3 DEF Step, Expire, ReportRefused, ReportRunning, Get, GetFails, ReportPhase,
      AnnotateAbort, ReportOverdue, Return, Send, clusterVars, platformVars
  <2>2. \A q \in Runs : pc'[q] = "claimed" => pc[q] = "claimed"
    BY <1>3 DEF Step, Expire, ReportRefused, ReportRunning, Get, GetFails, ReportPhase,
      AnnotateAbort, ReportOverdue, Return, EndTurn, AfterTurn, Goto, TypeOK
  <2>3. \A i \in Items : Claimed(i)' \subseteq Claimed(i)
    BY <2>1, <2>2 DEF Claimed
  <2> QED
    BY <2>1, <2>3, <1>k
<1>4. CASE Restart
  <2>1. \A i \in Items : Claimed(i)' \subseteq Claimed(i)
    BY <1>4 DEF Restart, Claimed
  <2> QED
    BY <1>4, <2>1, <1>k DEF Restart, clusterVars, platformVars
<1>5. ASSUME NEW i \in Items, Environment(i) PROVE CountInv'
  <2>1. created' = created /\ claims' = claims /\ pc' = pc /\ item' = item
    BY <1>5 DEF Environment, Controller, UserDeletes, UserAborts, PlatformAborts, Arrive,
      runVars, clusterVars, platformVars
  <2>2. \A j \in Items : Claimed(j)' \subseteq Claimed(j)
    BY <2>1 DEF Claimed
  <2> QED
    BY <2>1, <2>2, <1>k
<1>6. CASE UNCHANGED vars
  <2>1. created' = created /\ claims' = claims /\ pc' = pc /\ item' = item
    BY <1>6 DEF vars, runVars, clusterVars, platformVars
  <2>2. \A j \in Items : Claimed(j)' \subseteq Claimed(j)
    BY <2>1 DEF Claimed
  <2> QED
    BY <2>1, <2>2, <1>k
<1> QED
  BY <1>1, <1>2, <1>3, <1>4, <1>5, <1>6 DEF Next
-----------------------------------------------------------------------------
\* The inductive invariant holds in every state.
THEOREM Invariance == Spec => []IInv
<1>1. IInv /\ [Next]_vars => IInv'
  BY Types, ClusterStep, RunStep, SaidStep, ReportsStep, CountStep DEF IInv
<1> QED
  BY <1>1, InitIInv, PTL DEF Spec

\* What the platform hears of an end is true: for any number of items, runs and
\* hand-outs, and whatever is lost or late.
THEOREM Truthful == Spec => []VerdictsAreTrue
<1>1. IInv => VerdictsAreTrue
  BY DEF IInv, ReportsHold, Holds, VerdictsAreTrue
<1> QED
  BY <1>1, Invariance, PTL

\* An experiment is reported aborted only when the platform or a user wanted it.
THEOREM AbortsAreWanted == Spec => []AbortedWasAsked
<1>1. IInv => AbortedWasAsked
  BY DEF IInv, ReportsHold, Holds, ClusterInv, AbortedWasAsked
<1> QED
  BY <1>1, Invariance, PTL

\* A run sends one verdict, as its last report.
THEOREM VerdictOnce == Spec => []OneVerdict
<1>1. IInv => OneVerdict
  BY DEF IInv, SaidInv, OneVerdict
<1> QED
  BY <1>1, Invariance, PTL

\* A hand-out of an item starts its fault at most once.
THEOREM FaultOncePerClaim == Spec => []OncePerClaim
<1>1. IInv => OncePerClaim
  BY ClaimedFinite DEF IInv, TypeOK, CountInv, OncePerClaim
<1> QED
  BY <1>1, Invariance, PTL
=============================================================================
