---------------------------- MODULE DaemonExecutor ----------------------------
(***************************************************************************)
(* The executors that act through the chaos daemons (internal/executor/    *)
(* network, pod, stress, node and cluster/etcd_latency.go): Execute calls  *)
(* the daemon of each target's node and keeps the execution id it gets in  *)
(* a map by experiment, Rollback takes the ids out of the map and cancels  *)
(* them.  One executor serves all experiments of its action.  The calls    *)
(* for one experiment do not overlap; those for different experiments may, *)
(* which the locks around the maps are for, although the manager as set up *)
(* in cmd/operator has a single worker.                                    *)
(*                                                                         *)
(* The daemons are seen from outside: an execution is in a daemon's store, *)
(* forgotten by a daemon that restarted, cancelled but perhaps still in    *)
(* effect, or no longer in effect.  Module Daemon looks inside.            *)
(***************************************************************************)
EXTENDS Naturals, FiniteSets

CONSTANTS
  Exps,               \* the experiments, by UID
  Targets,            \* the pods or nodes that target selectors match
  Ids,                \* bound: the executions that daemons accept
  MaxDaemonRestarts,  \* bound
  MaxRestarts,        \* bound: operator restarts
  MaxFailures         \* bound: Execute errors of each experiment

\* What tells the executors apart: what the daemon runs, "rules" for qdiscs and
\* iptables rules, "none" if it has no such action; whether ids are kept, and
\* cancelled by Rollback; whether Rollback looks at the reply, and whether it goes
\* on after an error.
ExecutorType ==
  [runs: {"rules", "ebpf", "stress", "none"},
   keeps: BOOLEAN, cancels: BOOLEAN, checks: BOOLEAN, goesOn: BOOLEAN]

NetworkExecutor(runs) ==
  [runs |-> runs, keeps |-> TRUE, cancels |-> TRUE, checks |-> TRUE, goesOn |-> TRUE]

DelayExecutor == NetworkExecutor("rules")
LossExecutor == NetworkExecutor("rules")
CorruptExecutor == NetworkExecutor("rules")
DuplicateExecutor == NetworkExecutor("rules")
BandwidthExecutor == NetworkExecutor("rules")
PartitionExecutor == NetworkExecutor("rules")
EBPFLossExecutor == NetworkExecutor("ebpf")

\* Both ask for mode ebpf, which the daemon has for loss only: netem is used.
EBPFDelayExecutor == NetworkExecutor("rules")
EBPFDNSExecutor == NetworkExecutor("rules")

\* The delay executor, pointed at the etcd pods; the UID is the same.  A spec
\* whose parameters are removed, which Rollback refuses, is left out.
EtcdLatencyExecutor == DelayExecutor

\* The other executors drop the reply of CancelChaos and stop at an error.
PlainExecutor(runs) ==
  [runs |-> runs, keeps |-> TRUE, cancels |-> TRUE, checks |-> FALSE, goesOn |-> FALSE]

PodCPUStressExecutor == PlainExecutor("stress")
PodMemoryStressExecutor == PlainExecutor("stress")
PodIOStressExecutor == PlainExecutor("stress")
DNSErrorExecutor == PlainExecutor("rules")
HTTPAbortExecutor == PlainExecutor("rules")
HTTPDelayExecutor == PlainExecutor("rules")
StressCPUExecutor == PlainExecutor("stress")
StressMemoryExecutor == PlainExecutor("stress")
NodeCPUStressExecutor == PlainExecutor("stress")

\* Sent as a stressor of its own name; no id is kept.
ContainerKillExecutor ==
  [runs |-> "stress", keeps |-> FALSE, cancels |-> FALSE, checks |-> FALSE, goesOn |-> FALSE]

\* ExecNodeChaos knows no "restart".  Rollback waits for the nodes, up to a
\* deadline that it ignores, and drops the ids.
NodeRestartExecutor ==
  [runs |-> "none", keeps |-> TRUE, cancels |-> FALSE, checks |-> FALSE, goesOn |-> FALSE]

AllExecutors ==
  {DelayExecutor, LossExecutor, CorruptExecutor, DuplicateExecutor, BandwidthExecutor,
   PartitionExecutor, EBPFLossExecutor, EBPFDelayExecutor, EBPFDNSExecutor,
   EtcdLatencyExecutor, PodCPUStressExecutor, PodMemoryStressExecutor,
   PodIOStressExecutor, DNSErrorExecutor, HTTPAbortExecutor, HTTPDelayExecutor,
   StressCPUExecutor, StressMemoryExecutor, NodeCPUStressExecutor,
   ContainerKillExecutor, NodeRestartExecutor}

ASSUME ExecutorAssumption ==
  /\ IsFiniteSet(Ids)
  /\ MaxDaemonRestarts \in Nat /\ MaxRestarts \in Nat /\ MaxFailures \in Nat

VARIABLES
  kind,      \* the executor
  records,   \* executionIDs: the ids kept for each experiment
  calls,     \* the Execute or Rollback in progress for each experiment
  exes,      \* the executions that daemons have accepted, by id
  sent,      \* history: the experiments whose Rollback cancelled each id
  twice,     \* history: the ids cancelled more than once
  failures,  \* history: the Execute errors of each experiment
  excused,   \* history: a Rollback failed, or the operator stopped, with ids kept
  restarts, daemonRestarts

vars == <<kind, records, calls, exes, sent, twice, failures, excused, restarts,
          daemonRestarts>>
history == <<sent, twice, failures, excused>>
bounds == <<restarts, daemonRestarts>>
-----------------------------------------------------------------------------
\* Execute has targets to do, Rollback ids; failed is what Rollback will return.
\* An operation that has returned nil leaves its outcome.
Returned == {"idle", "executed", "rolledBack"}
Call == [op: Returned \cup {"execute", "rollback"}, todo: SUBSET (Targets \cup Ids),
         all: SUBSET Targets, failed: BOOLEAN]
Idle(out) == [op |-> out, todo |-> {}, all |-> {}, failed |-> FALSE]

\* An execution: in a daemon's store (held), forgotten by a daemon that has
\* restarted (lost), cancelled although something of it may be in effect (left), or
\* not in effect any more (gone).  runs: what took effect.  acked: its id was kept.
Execution ==
  [exp: Exps, target: Targets, runs: {"rules", "ebpf", "stress"},
   stage: {"held", "lost", "left", "gone"}, acked: BOOLEAN]

Accepted == DOMAIN exes
Of(exp) == {id \in Accepted : exes[id].exp = exp}

\* The executions whose id nobody has.
Unnamed(exp) == {id \in Of(exp) : ~exes[id].acked}

\* The ids that the executor can still cancel for an experiment.
Known(exp) == records[exp] \cup IF calls[exp].op = "rollback" THEN calls[exp].todo ELSE {}

Init ==
  /\ kind \in AllExecutors
  /\ records = [exp \in Exps |-> {}]
  /\ calls = [exp \in Exps |-> Idle("idle")]
  /\ exes = [id \in {} |-> {}]
  /\ sent = [id \in Ids |-> {}] /\ twice = {}
  /\ failures = [exp \in Exps |-> 0]
  /\ excused = [exp \in Exps |-> FALSE]
  /\ restarts = 0 /\ daemonRestarts = 0
-----------------------------------------------------------------------------
(* Execute.                                                                *)

\* The targets are resolved: names, each listed once, or what the selector matches
\* now.
ResolveTargets ==
  \E exp \in Exps, all \in (SUBSET Targets) \ {{}} :
    /\ calls[exp].op \in Returned
    /\ calls' = [calls EXCEPT ![exp] = [op |-> "execute", todo |-> all, all |-> all,
                                        failed |-> FALSE]]
    /\ UNCHANGED <<kind, records, exes, history, bounds>>

\* What takes effect: a daemon that cannot load the program falls back to netem.
TakesEffect == IF kind.runs = "ebpf" THEN {"ebpf", "rules"} ELSE {kind.runs}

Accept(id, exp, target, acked) ==
  \E runs \in TakesEffect :
    exes' = [i \in Accepted \cup {id} |->
               IF i = id THEN [exp |-> exp, target |-> target, runs |-> runs,
                               stage |-> "held", acked |-> acked]
               ELSE exes[i]]

\* Faulty variant: the ids of the last Execute replace the ones of an earlier one.
storeExecutionFirst(exp, id) ==
  records' = [records EXCEPT ![exp] = IF calls[exp].todo = calls[exp].all THEN {id}
                                      ELSE @ \cup {id}]

storeExecution(exp, id) ==
  records' = [records EXCEPT ![exp] = IF kind.keeps THEN @ \cup {id} ELSE @]

\* Faulty variant: Execute goes on with the next target after a refusal.
ExecFailsGoesOn ==
  \E exp \in Exps : \E target \in calls[exp].todo :
    /\ calls[exp].op = "execute"
    /\ calls' = [calls EXCEPT ![exp].todo = @ \ {target}]
    /\ UNCHANGED <<kind, records, exes, history, bounds>>

\* Faulty variant: Execute goes on with the next target after a lost reply.
ExecFailsLost ==
  \E exp \in Exps : \E target \in calls[exp].todo, id \in Ids \ Accepted :
    /\ calls[exp].op = "execute"
    /\ calls' = [calls EXCEPT ![exp].todo = @ \ {target}]
    /\ Accept(id, exp, target, FALSE)
    /\ UNCHANGED <<kind, records, history, bounds>>

\* The daemon of the target's node cannot be reached, refuses, or its reply is
\* lost, in which case the fault may be in effect: Execute returns the error.
ExecFails ==
  \E exp \in Exps : \E target \in calls[exp].todo :
    /\ calls[exp].op = "execute"
    /\ failures[exp] < MaxFailures
    /\ calls' = [calls EXCEPT ![exp] = Idle("idle")]
    /\ failures' = [failures EXCEPT ![exp] = @ + 1]
    /\ \/ UNCHANGED exes
       \/ kind.runs # "none" /\ \E id \in Ids \ Accepted : Accept(id, exp, target, FALSE)
    /\ UNCHANGED <<kind, records, sent, twice, excused, bounds>>

\* The daemon applies the fault and replies with the id, which is kept.
Exec ==
  \E exp \in Exps : \E target \in calls[exp].todo, id \in Ids \ Accepted :
    /\ calls[exp].op = "execute"
    /\ kind.runs # "none"
    /\ Accept(id, exp, target, kind.keeps)
    /\ storeExecution(exp, id)
    /\ calls' = [calls EXCEPT ![exp].todo = @ \ {target}]
    /\ UNCHANGED <<kind, history, bounds>>

ExecuteReturns ==
  \E exp \in Exps :
    /\ calls[exp].op = "execute" /\ calls[exp].todo = {}
    /\ calls' = [calls EXCEPT ![exp] = [@ EXCEPT !.op = "executed"]]
    /\ UNCHANGED <<kind, records, exes, history, bounds>>
-----------------------------------------------------------------------------
(* Rollback.                                                               *)

\* Faulty variant: the ids stay in the map until they are cancelled.
TakeRecordsKept ==
  \E exp \in Exps :
    /\ calls[exp].op \in Returned
    /\ calls' = [calls EXCEPT ![exp] =
         [op |-> "rollback", todo |-> IF kind.cancels THEN records[exp] ELSE {},
          all |-> {}, failed |-> FALSE]]
    /\ UNCHANGED <<kind, records, exes, history, bounds>>

\* Under the lock the ids are taken out of the map.
TakeRecords ==
  \E exp \in Exps :
    /\ calls[exp].op \in Returned
    /\ calls' = [calls EXCEPT ![exp] =
         [op |-> "rollback", todo |-> IF kind.cancels THEN records[exp] ELSE {},
          all |-> {}, failed |-> FALSE]]
    /\ records' = [records EXCEPT ![exp] = {}]
    /\ UNCHANGED <<kind, exes, history, bounds>>

\* After an error Rollback goes on to the next id, or returns.
AfterError(exp, id) ==
  IF kind.goesOn THEN [calls[exp] EXCEPT !.todo = @ \ {id}, !.failed = TRUE]
  ELSE Idle("idle")

Send(exp, id) ==
  /\ sent' = [sent EXCEPT ![id] = @ \cup {exp}]
  /\ twice' = IF sent[id] = {} THEN twice ELSE twice \cup {id}

\* CancelChaos undoes an execution that the daemon has, and Success is true although
\* an undo command may have failed and a stress-ng is only signalled; a program is
\* unloaded.  The reply may be lost.
Cancel ==
  \E exp \in Exps : \E id \in calls[exp].todo, out \in {"gone", "left"} :
    /\ calls[exp].op = "rollback"
    /\ exes[id].stage = "held"
    /\ exes[id].runs = "ebpf" => out = "gone"
    /\ exes' = [exes EXCEPT ![id].stage = out]
    /\ Send(exp, id)
    /\ \/ /\ calls' = [calls EXCEPT ![exp].todo = @ \ {id}]
          /\ UNCHANGED excused
       \/ /\ calls' = [calls EXCEPT ![exp] = AfterError(exp, id)]
          /\ excused' = [excused EXCEPT ![exp] = TRUE]
    /\ UNCHANGED <<kind, records, failures, bounds>>

\* The daemon does not have it: Success is false, and not every executor looks.
CancelNotFound ==
  \E exp \in Exps : \E id \in calls[exp].todo :
    /\ calls[exp].op = "rollback"
    /\ exes[id].stage # "held"
    /\ Send(exp, id)
    /\ \/ /\ kind.checks
          /\ calls' = [calls EXCEPT ![exp] = AfterError(exp, id)]
          /\ excused' = [excused EXCEPT ![exp] = TRUE]
       \/ /\ ~kind.checks
          /\ calls' = [calls EXCEPT ![exp].todo = @ \ {id}]
          /\ UNCHANGED excused
    /\ UNCHANGED <<kind, records, exes, failures, bounds>>

\* No client, or the call does not reach the daemon.
CancelFails ==
  \E exp \in Exps : \E id \in calls[exp].todo :
    /\ calls[exp].op = "rollback"
    /\ Send(exp, id)
    /\ calls' = [calls EXCEPT ![exp] = AfterError(exp, id)]
    /\ excused' = [excused EXCEPT ![exp] = TRUE]
    /\ UNCHANGED <<kind, records, exes, failures, bounds>>

RollbackReturns ==
  \E exp \in Exps :
    /\ calls[exp].op = "rollback" /\ calls[exp].todo = {}
    /\ calls' = [calls EXCEPT ![exp] =
                   Idle(IF calls[exp].failed THEN "idle" ELSE "rolledBack")]
    /\ UNCHANGED <<kind, records, exes, history, bounds>>
-----------------------------------------------------------------------------
(* The daemons and the operator stop and start again.                      *)

\* The daemon of a node forgets its executions, those on the targets that are
\* here.  eBPF links close with it, a stress-ng may end with it, rules stay.
DaemonRestart ==
  /\ daemonRestarts < MaxDaemonRestarts
  /\ daemonRestarts' = daemonRestarts + 1
  /\ \E here \in SUBSET Targets, ended \in {{"ebpf"}, {"ebpf", "stress"}} :
       exes' = [id \in Accepted |->
                  IF exes[id].target \in here /\ exes[id].stage = "held"
                  THEN [exes[id] EXCEPT !.stage = IF exes[id].runs \in ended THEN "gone"
                                                  ELSE "lost"]
                  ELSE exes[id]]
  /\ UNCHANGED <<kind, records, calls, history, restarts>>

\* The operator stops anywhere: the map is gone.  A call that was under way is an
\* ExecFails or a CancelFails before it.
Restart ==
  /\ restarts < MaxRestarts
  /\ restarts' = restarts + 1
  /\ records' = [exp \in Exps |-> {}]
  /\ calls' = [exp \in Exps |-> Idle("idle")]
  /\ excused' = [exp \in Exps |-> excused[exp] \/ Known(exp) # {}]
  /\ UNCHANGED <<kind, exes, sent, twice, failures, daemonRestarts>>

Next ==
  \/ ResolveTargets \/ Exec \/ ExecFails \/ ExecuteReturns
  \/ TakeRecords \/ Cancel \/ CancelNotFound \/ CancelFails \/ RollbackReturns
  \/ DaemonRestart \/ Restart

Spec == Init /\ [][Next]_vars
-----------------------------------------------------------------------------
(* Properties.                                                             *)

\* Every variable has its type, and the ids are those of accepted executions.
TypeOK ==
  /\ kind \in AllExecutors
  /\ Accepted \subseteq Ids /\ exes \in [Accepted -> Execution]
  /\ records \in [Exps -> SUBSET Accepted]
  /\ calls \in [Exps -> Call]
  /\ \A exp \in Exps : calls[exp].todo \subseteq
       IF calls[exp].op = "execute" THEN calls[exp].all
       ELSE IF calls[exp].op = "rollback" THEN Accepted ELSE {}
  /\ sent \in [Ids -> SUBSET Exps] /\ twice \subseteq Ids
  /\ failures \in [Exps -> 0..MaxFailures] /\ excused \in [Exps -> BOOLEAN]
  /\ restarts \in 0..MaxRestarts /\ daemonRestarts \in 0..MaxDaemonRestarts

\* Module Daemon assumes of its clients that an execution is cancelled at most
\* once, after its id was returned.  Rollback does more: it cancels what its own
\* experiment has executed and nothing else, whatever overlaps with it and even
\* if it is called again after an error.
OneOwnCancel ==
  /\ twice = {}
  /\ \A id \in Ids : sent[id] # {} =>
       id \in Accepted /\ exes[id].acked /\ sent[id] = {exes[id].exp}

\* What module Experiment assumes when Execute returns nil: there is an id to
\* cancel for every target, until Rollback takes them.
ExecuteCovers ==
  \A exp \in Exps : calls[exp].op = "executed" /\ kind.keeps =>
    \A target \in calls[exp].all : \E id \in records[exp] : exes[id].target = target

\* What module Experiment assumes when Execute returns an error: the fault of at
\* most one target is in effect without an id to cancel it.
OneLostPerError ==
  \A exp \in Exps :
    kind.keeps => Cardinality(Unnamed(exp)) <= failures[exp]

\* When Rollback has returned nil, no daemon still has an execution of its experiment
\* whose id was kept, be it of this Execute or of an earlier one, unless an earlier
\* Rollback failed or the operator stopped meanwhile.  What ran as a program is gone.
\* An executor that looks at the reply has found each of them; one that drops it
\* takes what a restarted daemon has forgotten for cancelled.  Nil does not mean that
\* the fault is undone: CancelChaos says Success after an undo that failed.
NilMeansCancelled ==
  \A exp \in Exps : calls[exp].op = "rolledBack" /\ ~excused[exp] =>
    \A id \in Of(exp) : exes[id].acked =>
      /\ exes[id].stage # "held"
      /\ exes[id].runs = "ebpf" => exes[id].stage = "gone"
      /\ kind.checks => exes[id].stage # "lost"
-----------------------------------------------------------------------------
\* To the service what was cancelled is lost as long as something of it may be left.
Seen(id) == IF exes[id].stage = "left" THEN "lost" ELSE exes[id].stage

Service == INSTANCE DaemonService
             WITH stage <- [id \in Ids |-> IF id \in Accepted THEN Seen(id) ELSE "new"],
                  runs <- [id \in Ids |-> IF id \in Accepted THEN exes[id].runs ELSE "none"],
                  restarts <- daemonRestarts

\* The daemons that the executors see, several of them and from outside, do only
\* what module Daemon is shown to implement.
AssumesService == Service!Spec
=============================================================================
