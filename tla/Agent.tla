-------------------------------- MODULE Agent --------------------------------
(***************************************************************************)
(* The agent (cmd/agent): it claims work items from the platform, applies  *)
(* each as a ChaosExperiment, and a goroutine of its own then watches the  *)
(* experiment, reports its phase to the platform over a network that loses *)
(* and delays, and passes on the platform's wish to abort, until the       *)
(* experiment ends or the watch is overdue.                                *)
(*                                                                         *)
(* The platform is not part of the repository: it may hand out an item     *)
(* more than once.  The experiment controller is what ExperimentPhases     *)
(* allows of it, for experiments without a steady state.                   *)
(***************************************************************************)
EXTENDS Naturals, FiniteSets, ExperimentPhases

CONSTANTS
  Items,      \* work items of the platform
  Runs,       \* goroutines that may run at a time
  MaxClaims,  \* bound: how often an item is handed out
  MaxChanges  \* bound: how often users delete or abort an item's experiment

ASSUME BoundsAssumption == MaxClaims \in Nat /\ MaxChanges \in Nat
ASSUME RunsAssumption == IsFiniteSet(Runs)

VARIABLES
  pc, item, seen, due, \* of a run: where it is, its item, the phase it read, deadline passed
  said,      \* of a run: the verdicts it has sent
  phase,     \* of an item's experiment in the cluster, or Absent
  abort,     \* its abort annotation
  byUser,    \* items whose experiment a user has asked to abort
  asked,     \* items that the platform wants aborted
  heard,     \* of an item: the statuses that reached the platform
  late,      \* of an item: the reports that are still on their way after a timeout
  claims, changes, created, \* of an item: handed out, changed by users, created so often
  reached,   \* of an item: the terminal phases its experiments were in
  refused, overdue \* items with a run that was refused, or past its deadline

runVars == <<pc, item, seen, due, said>>
clusterVars == <<phase, abort, byUser, changes, created, reached>>
platformVars == <<asked, heard, late, claims>>
vars == <<runVars, clusterVars, platformVars, refused, overdue>>

Absent == "Absent"
Statuses == {"running", "completed", "failed", "aborted"}
Verdicts == Statuses \ {"running"}
PCs == {"idle", "claimed", "refused", "applied", "watch", "report", "annotate",
        "overdue", "ended", "silent"}

Init ==
  /\ pc = [r \in Runs |-> "idle"]
  /\ item \in [Runs -> Items]
  /\ seen = [r \in Runs |-> Absent]
  /\ due = [r \in Runs |-> FALSE]
  /\ said = [r \in Runs |-> 0]
  /\ phase = [i \in Items |-> Absent]
  /\ abort = [i \in Items |-> FALSE]
  /\ asked = {} /\ byUser = {} /\ refused = {} /\ overdue = {}
  /\ heard = [i \in Items |-> {}] /\ late = [i \in Items |-> {}]
  /\ reached = [i \in Items |-> {}]
  /\ claims = [i \in Items |-> 0]
  /\ changes = [i \in Items |-> 0]
  /\ created = [i \in Items |-> 0]
-----------------------------------------------------------------------------
(* A goroutine of the agent.                                               *)

Goto(r, to) == pc' = [pc EXCEPT ![r] = to]

\* claimWork returned an item; workLoop starts a goroutine for it.
ClaimWork(r) ==
  /\ pc[r] = "idle"
  /\ \E i \in Items :
       /\ claims[i] < MaxClaims
       /\ claims' = [claims EXCEPT ![i] = @ + 1]
       /\ item' = [item EXCEPT ![r] = i]
  /\ Goto(r, "claimed")
  /\ UNCHANGED <<seen, due, said, clusterVars, asked, heard, late, refused, overdue>>

\* Server-side apply: creates the experiment, or leaves the one there is, whose
\* specification is the same and whose abort annotation is not the agent's.
Patch(i) ==
  IF phase[i] = Absent
  THEN /\ phase' = [phase EXCEPT ![i] = Pending]
       /\ abort' = [abort EXCEPT ![i] = FALSE]
       /\ created' = [created EXCEPT ![i] = @ + 1]
       /\ UNCHANGED <<byUser, changes, reached>>
  ELSE UNCHANGED clusterVars

Apply(r) ==
  /\ pc[r] = "claimed"
  /\ Patch(item[r])
  /\ Goto(r, "applied")
  /\ UNCHANGED <<item, seen, due, said, platformVars, refused, overdue>>

\* The item cannot be translated or the apply is refused; an apply whose reply
\* is lost has taken effect.
ApplyFails(r) ==
  /\ pc[r] = "claimed"
  /\ Patch(item[r]) \/ UNCHANGED clusterVars
  /\ Goto(r, "refused")
  /\ refused' = refused \cup {item[r]}
  /\ UNCHANGED <<item, seen, due, said, platformVars, overdue>>

\* reportStatus gives up after its timeout and does not try again.  The report is
\* heard, with or without an answer, lost, or still on its way: one of an item's
\* reports at a time, which bounds the model.
Send(r, status) ==
  /\ \/ heard' = [heard EXCEPT ![item[r]] = @ \cup {status}] /\ UNCHANGED late
     \/ /\ late[item[r]] = {}
        /\ late' = [late EXCEPT ![item[r]] = {status}]
        /\ UNCHANGED heard
     \/ UNCHANGED <<heard, late>>
  /\ said' = IF status \in Verdicts THEN [said EXCEPT ![r] = @ + 1] ELSE said
  /\ UNCHANGED <<asked, claims>>

ReportRefused(r) ==
  /\ pc[r] = "refused"
  /\ Send(r, "failed")
  /\ Goto(r, "ended")
  /\ UNCHANGED <<item, seen, due, clusterVars, refused, overdue>>

\* The answer to this first report is not looked at.
ReportRunning(r) ==
  /\ pc[r] = "applied"
  /\ Send(r, "running")
  /\ Goto(r, "watch")
  /\ UNCHANGED <<item, seen, due, clusterVars, refused, overdue>>

Get(r) ==
  /\ pc[r] = "watch" /\ phase[item[r]] # Absent
  /\ seen' = [seen EXCEPT ![r] = phase[item[r]]]
  /\ Goto(r, "report")
  /\ UNCHANGED <<item, due, said, clusterVars, platformVars, refused, overdue>>

\* Faulty variant: an experiment that is gone is applied again.
GetFailsReapplies(r) ==
  /\ pc[r] = "watch" /\ phase[item[r]] = Absent
  /\ Patch(item[r])
  /\ UNCHANGED <<runVars, platformVars, refused, overdue>>

\* Faulty variant: the deadline is not looked at when the experiment is not read.
GetFailsForever(r) ==
  /\ pc[r] = "watch"
  /\ UNCHANGED vars

\* The experiment is gone or cannot be read: past the deadline the watch ends
\* without a word, before it the next tick tries again.
GetFails(r) ==
  /\ pc[r] = "watch"
  /\ due[r]
  /\ Goto(r, "silent")
  /\ UNCHANGED <<item, seen, due, said, clusterVars, platformVars, refused, overdue>>

\* Faulty variant: the rollback counts as the end.
MapPhaseEarly(p) ==
  CASE p \in {Completing, Completed} -> "completed"
    [] p = Failed -> "failed"
    [] p = Aborted -> "aborted"
    [] OTHER -> "running"

MapPhase(p) ==
  CASE p = Completed -> "completed"
    [] p = Failed -> "failed"
    [] p = Aborted -> "aborted"
    [] OTHER -> "running"

\* Faulty variant: the deadline comes before the phase.
AfterTurnDeadlineFirst(r) ==
  IF due[r] THEN "overdue" ELSE IF seen[r] \in Terminal THEN "ended" ELSE "watch"

\* The end of a turn of the watch.
AfterTurn(r) ==
  IF seen[r] \in Terminal THEN "ended" ELSE IF due[r] THEN "overdue" ELSE "watch"

\* The deadline is compared at the end of the turn; that it passes earlier in the
\* turn makes no difference to the rest of it.
EndTurn(r) ==
  /\ Goto(r, AfterTurn(r))
  /\ seen' = [seen EXCEPT ![r] = Absent]
  /\ overdue' = IF AfterTurn(r) = "overdue" THEN overdue \cup {item[r]} ELSE overdue

\* Faulty variant: an answer that did not come counts as abort.
WantsAbortUnanswered(r) == TRUE

\* The answer says abort.
WantsAbort(r) == item[r] \in asked

ReportPhase(r) ==
  /\ pc[r] = "report"
  /\ Send(r, MapPhase(seen[r]))
  /\ \/ /\ heard' = [heard EXCEPT ![item[r]] = @ \cup {MapPhase(seen[r])}]
        /\ UNCHANGED late
        /\ WantsAbort(r)
        /\ Goto(r, "annotate") /\ UNCHANGED <<seen, overdue>>
     \/ EndTurn(r)
  /\ UNCHANGED <<item, due, clusterVars, refused>>

\* The patch goes by name, to whatever experiment has it now, or fails.
AnnotateAbort(r) ==
  /\ pc[r] = "annotate"
  /\ \/ /\ phase[item[r]] # Absent
        /\ abort' = [abort EXCEPT ![item[r]] = TRUE]
     \/ UNCHANGED abort
  /\ EndTurn(r)
  /\ UNCHANGED <<item, due, said, phase, byUser, changes, created,
                 reached, platformVars, refused>>

ReportOverdue(r) ==
  /\ pc[r] = "overdue"
  /\ Send(r, "failed")
  /\ Goto(r, "ended")
  /\ UNCHANGED <<item, seen, due, clusterVars, refused, overdue>>

Return(r) ==
  /\ pc[r] \in {"ended", "silent"}
  /\ Goto(r, "idle")
  /\ due' = [due EXCEPT ![r] = FALSE]
  /\ said' = [said EXCEPT ![r] = 0]
  /\ UNCHANGED <<item, seen, clusterVars, platformVars, refused, overdue>>

Step(r) ==
  \/ Apply(r) \/ ApplyFails(r) \/ ReportRefused(r) \/ ReportRunning(r) \/ Get(r)
  \/ GetFails(r) \/ ReportPhase(r) \/ AnnotateAbort(r) \/ ReportOverdue(r) \/ Return(r)

\* The deadline of the watch passes.
Expire(r) ==
  /\ pc[r] \in {"watch", "report", "annotate"} /\ ~due[r]
  /\ due' = [due EXCEPT ![r] = TRUE]
  /\ UNCHANGED <<pc, item, seen, said, clusterVars, platformVars, refused, overdue>>

\* The agent stops and starts again; no run is resumed.
Restart ==
  /\ pc' = [r \in Runs |-> "idle"]
  /\ seen' = [r \in Runs |-> Absent]
  /\ due' = [r \in Runs |-> FALSE]
  /\ said' = [r \in Runs |-> 0]
  /\ UNCHANGED <<item, clusterVars, platformVars, refused, overdue>>
-----------------------------------------------------------------------------
(* The cluster and the platform.                                           *)

\* The experiment controller, on an experiment without probes.
Controller(i) ==
  /\ \E next \in Phases \ {SteadyStateChecking, Recovering} :
       /\ <<phase[i], next>> \in Edges
       /\ next = Aborted => abort[i]
       /\ phase' = [phase EXCEPT ![i] = next]
       /\ reached' = [reached EXCEPT ![i] = @ \cup ({next} \cap Terminal)]
  /\ UNCHANGED <<abort, byUser, changes, created, runVars, platformVars, refused, overdue>>

UserDeletes(i) ==
  /\ phase[i] # Absent /\ changes[i] < MaxChanges
  /\ phase' = [phase EXCEPT ![i] = Absent]
  /\ abort' = [abort EXCEPT ![i] = FALSE]
  /\ changes' = [changes EXCEPT ![i] = @ + 1]
  /\ UNCHANGED <<byUser, created, reached, runVars, platformVars, refused, overdue>>

UserAborts(i) ==
  /\ phase[i] # Absent /\ ~abort[i] /\ changes[i] < MaxChanges
  /\ abort' = [abort EXCEPT ![i] = TRUE]
  /\ changes' = [changes EXCEPT ![i] = @ + 1]
  /\ byUser' = byUser \cup {i}
  /\ UNCHANGED <<phase, created, reached, runVars, platformVars, refused, overdue>>

PlatformAborts(i) ==
  /\ i \notin asked
  /\ asked' = asked \cup {i}
  /\ UNCHANGED <<heard, late, claims, runVars, clusterVars, refused, overdue>>

\* A report that its sender has given up on arrives.
Arrive(i) ==
  /\ \E status \in late[i] :
       /\ late' = [late EXCEPT ![i] = @ \ {status}]
       /\ heard' = [heard EXCEPT ![i] = @ \cup {status}]
  /\ UNCHANGED <<asked, claims, runVars, clusterVars, refused, overdue>>

Environment(i) ==
  Controller(i) \/ UserDeletes(i) \/ UserAborts(i) \/ PlatformAborts(i) \/ Arrive(i)

Next ==
  \/ \E r \in Runs : ClaimWork(r) \/ Step(r) \/ Expire(r)
  \/ Restart
  \/ \E i \in Items : Environment(i)

Spec == Init /\ [][Next]_vars

\* Tickers tick, every call returns or times out, and the clock goes on.
Fairness == \A r \in Runs : WF_vars(Step(r)) /\ WF_vars(Expire(r))

FairSpec == Spec /\ Fairness
-----------------------------------------------------------------------------
\* Every variable has its type; a report has one of the statuses of mapPhase.
TypeOK ==
  /\ pc \in [Runs -> PCs]
  /\ item \in [Runs -> Items]
  /\ seen \in [Runs -> Phases \cup {Absent}]
  /\ due \in [Runs -> BOOLEAN]
  /\ said \in [Runs -> Nat]
  /\ phase \in [Items -> Phases \cup {Absent}]
  /\ abort \in [Items -> BOOLEAN]
  /\ asked \subseteq Items /\ byUser \subseteq Items
  /\ refused \subseteq Items /\ overdue \subseteq Items
  /\ heard \in [Items -> SUBSET Statuses]
  /\ late \in [Items -> SUBSET Statuses]
  /\ reached \in [Items -> SUBSET Terminal]
  /\ claims \in [Items -> Nat]
  /\ changes \in [Items -> Nat]
  /\ created \in [Items -> Nat]

\* What the platform hears of an end is true, whatever is lost, late, repeated or
\* said by several runs of the item: completed and aborted mean that an experiment
\* of the item was in that phase; failed means so too, or that the item was not
\* applied or that the watch ran past its deadline.
VerdictsAreTrue ==
  \A i \in Items :
    /\ "completed" \in heard[i] => Completed \in reached[i]
    /\ "aborted" \in heard[i] => Aborted \in reached[i]
    /\ "failed" \in heard[i] =>
         Failed \in reached[i] \/ i \in refused \/ i \in overdue

\* An experiment is aborted only when the platform wanted it or a user of the
\* cluster asked for it: no other answer to a report, and no answer at all, leads
\* to the annotation.
AbortedWasAsked ==
  \A i \in Items : "aborted" \in heard[i] => i \in asked \cup byUser

\* A run sends one verdict and it is its last report, also when the experiment ends
\* as the deadline passes; a run without a verdict is on its way, or was cut short,
\* or ended without a word past its deadline.
OneVerdict ==
  \A r \in Runs :
    /\ pc[r] = "ended" => said[r] = 1
    /\ pc[r] = "annotate" => (said[r] = 1 <=> seen[r] \in Terminal)
    /\ pc[r] \notin {"annotate", "ended", "idle"} => said[r] = 0

\* An item's experiment is created at most once each time the item is handed out,
\* even when users delete the experiment while it is watched.
OncePerClaim == \A i \in Items : created[i] <= claims[i]

\* Every run comes to an end: the watch is left when the experiment has ended or
\* its deadline has passed, also when the experiment is gone.  This takes for
\* granted that every call returns: those to the Kubernetes API have no time limit
\* of their own.
WatchEnds == \A r \in Runs : pc[r] = "claimed" ~> pc[r] = "idle"
=============================================================================
