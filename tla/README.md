# Chaosplane in TLA+

TLA+ models of chaosplane, the TLC configurations that check them on small
instances, and TLAPS proofs of what matters most for every instance.
`PROJECT.json` lists the components, the runs, the mutants, the source lines
each definition stands for, the hazards and the theorems.

## The system

Chaosplane injects faults into a Kubernetes cluster, into VMs and into cloud
services.

| Part | Source | What it does |
|---|---|---|
| experiment controller | `internal/controller/experiment_controller.go` | takes a `ChaosExperiment` through its phases, runs and rolls back the action, holds the object with a finalizer |
| workflow controller | `internal/controller/workflow_controller.go` | runs a `ChaosWorkflow`: templates with dependencies, retries, pauses, aborts; sorts the graph first |
| executors | `internal/executor/**` | `Execute`, `Rollback`, `Validate` per action type; what must be undone is kept in maps in the operator's memory |
| chaos daemon | `internal/daemon/**`, `cmd/daemon` | one per node; runs tc, iptables, eBPF and stress-ng for the executors over gRPC; keeps its executions in memory |
| webhook | `internal/webhook` | admits or denies writes of experiments by `BlastRadiusPolicy` |
| agent | `cmd/agent` | claims experiments from a platform, creates them, watches and reports |
| probes | `internal/probe` | steady-state probes and abort conditions |
| chaosctl | `cmd/chaosctl` | command line; `experiment stop` asks for an abort |
| extension registry | `pkg/extension` | a locked map, without a client in this repository |

How they interact: users, the agent and `chaosctl` write experiments to the API
server; the webhook may refuse the write. The experiment controller sees the
experiment through an informer cache that may be behind, calls the executor
that the registry has for the action, and writes the status. The executor calls
the daemons, or the Kubernetes and cloud APIs. The workflow controller reads
experiments that others have created and waits for their end.

## The modules

| Module | Models |
|---|---|
| `ExperimentPhases` | the phases and the edges between them |
| `ExperimentLifecycle` | abstract specification: the persisted phase moves along the edges |
| `Experiment` | the experiment controller with API server, watch, cache, queue, worker, executor records, user and restarts |
| `WorkflowDAG`, `Workflow` | the sortable graphs; the workflow controller, its templates, their experiments and the user |
| `TopologicalSort` | `buildDAG` and `TopologicalSort`, one loop iteration a step |
| `Daemon` | the gRPC handlers of one daemon as concurrent sequences of commands, the store, the eBPF manager and the host |
| `DaemonService` | abstract specification: what the daemons promise to the executors, execution by execution |
| `DaemonExecutor` | the executors that act through the daemons: ids kept per experiment, several experiments at once, lost replies, restarts |
| `ResourceExecutor` | the executors that change a Kubernetes object, a cloud setting or a host themselves: copies, caches, users, restarts |
| `AZFailure` | the executor `aws-az-failure`: EC2's associations and ACLs, the experiments on a zone, users, restarts |
| `BlastRadius` | the admission webhook: the list of policies, their checks, cron windows, and the clock |
| `Agent` | the agent's work loop and watchers, the experiments in the cluster, the platform and the reports on their way |
| `MC*` | instances for TLC: small sets of requests, workflows and graphs, symmetry |
| `*Proofs` | the theorems |

### Experiment

`api` is the stored object; every accepted write makes a new version, which
`watch` holds until `Deliver` brings it to `cache`. The worker reads `cache`
(`Get`) into `wk.obj` and goes on from this copy, so that every guard of
`reconcile*` reads a value that may be old. `Update` and `Status().Update` need
the current version (`Fresh`); the patch that sets the executed annotation does
not, as in the code. A reconcile is cut at its side effects: read, executor
call, write. Between two of them anything may happen, a restart included. One
worker serves a key at a time, as controller-runtime guarantees. `records` are
the faults that the executor remembers and can cancel, `orphans` those whose record
was lost before a nil Rollback (a lost reply, a failed rollback, a restart). Whether
a fault is off its target after a nil is a question to `DaemonExecutor` and
`ResourceExecutor`.

Left out: events, messages and conditions; edits of the spec other than the
removal of `steadyState`; an object that is created again under the same name;
an abort annotation that is removed again. Probes, abort conditions and
executors pass, fail or err at will. The annotation `chaosplane.io/abort` of `chaosctl`
is in the constant `AbortKeys` and so in the theorems, but of the runs only in
`execute_once`: it is read nowhere, and multiplies the versions in flight.

### Workflow and TopologicalSort

All that a reconcile changes is the workflow's status, in one write that is
refused when the copy is old, so a reconcile is one step. `st` has the phase of
each template and what its message carries: the retry count that `Sscanf` reads
back. Running templates are checked in Go's map order (`Orders`), which matters
to a parallel. Experiments move along `Edges` independently of the workflow and
their reads may be behind or fail.

`WorkflowDAG!Sortable` is the definition of an acyclic graph that
`ReconcilePending` uses; `TopologicalSort` shows that Kahn's algorithm as
written accepts exactly these. `TakeNode` takes the head of the queue and sets
`todo` to the entries that depend on it; each `VisitDependent` does one of them, in
the order of the list. The first queue is in any order, as Go's map iteration is.

Left out: two templates that refer to the same experiment; edits of the spec.

### Daemon

A call is cut at its commands, and calls interleave at will. `host` counts how
often each rule and qdisc is there: `tc` refuses a second root qdisc, iptables
does not refuse a second equal rule, and both delete by content. An execution
is stored after its last command, and is what `CancelChaos` finds later.

`DaemonService` is what a client may rely on: an execution is `new`, `held` (in
the store), `lost` (not in the store, though something of it may be in effect) or
`gone`; calls end, a cancellation takes one held execution out of the store, a lost
stress-ng ends, daemons restart. A cancellation makes a program gone, and anything
else lost or gone, which its reply does not tell.
`ImplementsService` maps the daemon to it: `StoreRemove` is where a cancellation
takes effect, and whether an execution that is not stored is lost or gone is read
off `programs`, `stress` and, for rules, the commands that were run. A rule is
gone when `CancelChaos` has run its undo commands and none has failed. pkill sends a
signal and its error is dropped, so the stress-ng of a node may end with it or not,
all or some.

`CancelChaos` unblocks the interface of every node execution that names one, a node
stress included (`NodeUndo`): the rules of a node partition on the same interface go
with it. `NothingStolen` has this as its exception (`Struck`), `HostIsExact` as one
of the events after which `clean` is false.

Left out: the text of arguments beyond what they match; a pod's veth that goes
away with its pod; a second cancellation of the same execution.

### DaemonExecutor

One executor, any of the 21 that call the daemons, serves several experiments at
once; `kind` has what tells them apart, read off each one's `Execute` and
`Rollback`. The manager as set up has a single worker; the model lets calls for
different experiments overlap all the same, as the
locks around the maps intend. `records` is the `executionIDs` map. `calls` has the operation in
progress for each experiment, cut at its gRPC calls. The daemons appear as the
set of executions they have accepted (`exes`), each held, lost with a daemon's
memory, cancelled with something left, or gone, as `DaemonService` has it
(`AssumesService`). A daemon that cannot load an eBPF program falls back to netem
(`TakesEffect`). The module states what its neighbours take for granted:
`Daemon` that an execution is cancelled at most once (`OneOwnCancel`),
`Experiment` that a nil from `Execute` covers every target (`ExecuteCovers`) and
that an error leaves at most one fault without a record (`OneLostPerError`).
`NilMeansCancelled` says what a nil from `Rollback` is worth: no daemon has an
execution left whose id was kept, and a program is gone. It is not worth more: the
undo may have failed, and the executors that drop the reply of `CancelChaos` take an
execution that a restarted daemon has forgotten for cancelled.

Left out: parameters and their validation; a name that is listed twice.

### ResourceExecutor

One resource that several experiments have as their target, and users who write
it at any time. `kind` is a row of a table with one entry per executor or mode: how
`Execute` reads (the manager's cache, live, or not at all) and writes (an update
that needs the current version, a put that does not, an add, a delete), what it
keeps, and how `Rollback` writes. Operations are cut between their read and
their write. They do not overlap, since the manager has a single worker.
`Execute` may fail after the fault is in place: the reply is lost, or a later
target or step fails. A `Rollback` that finds no record returns nil, as in the
code (`RollbackSkips`), so `FaultIsOwed` names the experiments that lost track
of a fault (`lost`). It excludes what the code does not promise: executors whose
`Rollback` does nothing or drops its errors, and copies that hold a fault
(`nested`). `RestoresBefore` is about an Execute that replaced what a user had put
there, and excludes unversioned writes that raced with a user (`raced`). What becomes
of an Execute that replaced a fault is the question of `RollbackReverses`, which the
code fails.

Left out: which pods a drain evicts; metadata that a recreated ConfigMap loses;
users who delete a claim that is in use.

### AZFailure

`net` has, for each subnet of the zone, its association id, its ACL and the one
before; every change gives a new id, as EC2 does, and a call with an old id is
refused. `op` is the Execute or the cleanup in progress, cut at its EC2 calls:
`CreateNetworkAcl`, `CurrentAssociations`, one `ReplaceAssociation` or `Restore`
a subnet, `DeleteNetworkAcl`. `CurrentAssociations` goes on with the associations
of some of the subnets, as the source asks for one at least. Any call may be refused, and may have taken effect
although its reply is lost. `untended` names the deny ACLs that the code cannot
see any more: a reply was lost, cleanup failed, the operator restarted, or
another Execute found the subnet on it and keeps it as the original.
`IsolationIsOwed` and `ACLIsOwed` are about all others.

Left out: the deny rules themselves; how a zone's subnets change over time.

### BlastRadius

One request at a time, since a request changes nothing that another reads. The
handler goes through the listed policies one by one (`Evaluate`) and reads the
clock for each, with `Tick` between any two of them. The checks are operators,
one per function of the source. A window is found open by the scan of the
source (`IsInTimeWindow`, minute by minute backwards, each minute in its local
time). `Opens` and `Open` say what a window denotes without the matcher: a "5-field
cron expression" (`blastradius_types.go:41`), with steps, ranges, names, 7 for Sunday
and either of two restricted day fields, and a duration that runs from each start.
`ScanFindsStarts` compares the two, and `AllowedInsideWindows` holds an allowed write
against the denotation. They differ in two ways, which both properties name: the scan
looks back one minute more than the duration has (`Overstays`), and some schedules are
not read as cron reads them (`Understood`). A glob is the set it matches.

Left out: the wording of the reasons; a validator without a client, which the
operator never makes.

### Agent

`pc[r]` is where a goroutine of `runExperiment` is, `seen[r]` the phase it read
last. A report is one step in which the request may be lost, arrive, or stay on
its way after the client has given up (`late`), and the answer may be lost. The
platform hands an item out up to `MaxClaims` times, since nothing in the
repository says that it does not. The experiment in the cluster moves along the
edges of `ExperimentPhases`. Claims, applies and reads that fail, users who
delete or abort the experiment, and restarts of the agent happen at any time.

Left out: the translation of an item into a spec, beyond its failure; the
heartbeat and topology loops, which post what they read and keep nothing.

## The runs

Passing:

| Run | Question | Bounds |
|---|---|---|
| `experiment` | do stale copies, refused writes, aborts, deletions and a restart ever break what the phases promise, and does the controller implement the lifecycle? | two targets (a partial Execute needs two), duration and recovery of one tick (before, at), one restart; symmetric targets |
| `experiment_live` | does every experiment with a recovery timeout end and every deletion go through, with abort conditions that fire at any check? | one target, no restart |
| `workflow` | order, retry, gates and parallels; where alone does a workflow that does not end wait? | three templates, all types; chain, join, side by side under a parallel that may name no template, and a cycle |
| `topological_sort` | is the order right, and are exactly the sortable graphs accepted? | up to four templates, with a repeated name, repeated and unknown dependencies, cycles |
| `daemon` | can one execution take another's rules, when is the host as the executions say, and does the daemon implement `DaemonService`? | two executions (enough for one to disturb the other) of every kind, four interfaces, any command failing, one restart |
| `daemon_executor` | does every executor keep the promises that `Daemon` and `Experiment` rely on? | two experiments, two targets, two accepted executions, two errors each, one restart of a daemon and one of the operator; symmetric |
| `resource_executor` | is every fault on a resource rolled back by somebody, and is what was there before put back? | two experiments (one on top of the other), two contents, 26 executors (ConfigMap chaos in both its modes); no bound on steps, errors or restarts |
| `az_failure` | is every subnet that is cut off, and every deny ACL, in somebody's hands, and does cleanup put back the right thing? | two subnets (Execute stops half way) in one or two VPCs, two experiments, three deny ACLs, ids up to two for users; symmetric |
| `blast_radius` | does an allowed write obey every policy, whatever the order of policies and the passing of time, and are windows open when their cron expression says, up to the closing minute? | three experiments, eleven policies (one per check), lists of up to two, 30 minutes over a short calendar with a weekend, the end of a month and two changes of the clocks |
| `agent` | is what the platform hears true, is every abort wanted, does every watch end? | one item handed out twice, two runs, one deletion or abort by a user |

Violations, each a disagreement of the code with a line of the repository
(`findings` in `PROJECT.json`):

| Run | What happens |
|---|---|
| `execute_once` | a reconcile that reads a copy older than its own annotation patch runs the action again |
| `rollback_reverses` | a rollback of `pvc-chaos` that still reads the claim, from an old cache or since its deletion waits, returns nil and recreates nothing; a second Execute of `configmap-chaos` copies the fault, and the rollback puts it back. TLC reports the shorter trace, of the claim; with `Kinds <- Corrupted` it reports the other |

Met while modelling, without a run: the retry count of a template is overwritten
when it starts again, so `maxRetries` never ends the retries (theorem
`RetriesNeverEnd`); the resume annotation stays, and a later suspend goes through
at once; a failed rollback whose `Failed` status is not stored is forgotten, and
the retry reports `Completed` over a live fault; an abort by a metric condition can be
followed by an Execute from a copy that is still `Running`; `chaosctl
experiment stop` sets `chaosplane.io/abort` where the controller reads
`chaosplane.dev/abort`; a suspend's timeout has no effect while the workflow is
`Paused`, though `workflow_basic.yaml:31` sets one; a parallel that names no template,
or one that depends on it, never ends; an experiment without a `recoveryTimeout`
stays `Recovering` while its probes fail, and its workflow waits; the experiments of a workflow run as soon as they exist; both
branches of a condition start; a node partition without an interface is applied
to `eth0` and not undone; a failed undo is reported as success; cancelling a node
stress deletes the rules of a node partition on its interface; cancelling one stress
ends every stress-ng of the node, or none if pkill fails or they take their time; container-kill makes the daemon start
stress-ng without a stressor and reports success; ebpf-dns-chaos and
ebpf-network-delay run as netem; node-restart is refused by the daemon always;
network-bandwidth requires parameters that the daemon ignores, pod-dns-error
does not require the domains that the daemon does; when the second rule of a
partition fails the first stays, with nothing to undo it; a second Execute of EKS,
Lambda or S3 block copies the fault of the first and restores it at the end; a cordon, a taint or a stopped instance that was there
before is cleared by `Rollback`; the VM executors return nil over a failed ssh;
AKS and GKE scaling and the Cloud Run stop are never undone.

Of the webhook: a window stays open for a minute more than its duration, so that four
hours from 18:00 have a write allowed during 22:00 (`blastradius_webhook_test.go:523`
says 18:00-22:00); `lo-hi/n` in a cron field, names, a `*` in a list and 7 for Sunday
never match, and where both day fields are restricted a day must match both, while
cron takes either; a blocked window with a
timezone that does not load blocks nothing; `maxTargets` does not count targets
that a selector finds, and `maxPercentage` is compared with `parallelism`; since
it is called for updates too, a window that closes makes it deny the abort
annotation, the executed annotation and the removal of the finalizer.

Of the agent: at the deadline it reports a failure while the experiment goes on,
and nobody passes on aborts from then; an experiment that is gone at the deadline
ends the run without a report; a verdict that is lost is not sent again, and a
late `running` may follow it; an apply whose reply is lost is reported as a
failure while the experiment runs; the answer to the first report is not looked
at; the watchers are gone after a restart.

Of `aws-az-failure`: a zone whose subnets are in two VPCs cannot be cut off,
Execute fails and undoes itself unless it is shown the subnets of one VPC only; it cuts
off the subnets whose associations EC2 lists, if there is one, not "every subnet"; after a second Execute on the same zone
the first deny ACL is kept as an original.

### Fairness

`Experiment!Fairness`: the informer, the queue and the clock make progress, and
every call of a reconcile is assumed to return. Strong fairness of
`Handle` and `Finish` says that a write which is retried with the current
version again and again is accepted some time; the rate limited queue retries
every error. A policy that denies every update for ever would break this.
`Terminates` is for experiments with a `recoveryTimeout`; without one, the default
(`experiment_controller.go:343`), an experiment stays `Recovering` while its probes
fail.
`Workflow!Fairness`: the controller polls every five seconds, and delays elapse.
Nothing makes a user act or an experiment end, so `EndsOrWaits` names what a workflow
that does not end waits for: a suspend that is paused or has no timeout, an experiment
that is not there or has not ended, or a parallel that cannot end (`NeverEnds`). Under
`retry` a template that fails each time is started again for ever.
`Agent!Fairness`: the ticker of a watch ticks every three seconds, a report times
out after ten, calls of the API server, which have no time limit of their own, are
assumed to return, and the deadline
passes. Nothing makes the platform, a user or the experiment controller act, so
`WatchEnds` rests on the deadline alone.

## The proofs

`tlapm` checks all of them; the constants are arbitrary up to the named
assumptions (`ConstantsAssumption`, `WorkflowsAssumption`, `DaemonAssumption`,
`ExecutorAssumption`, `KindsAssumption`, `ZoneAssumption`, `NoneAssumption`,
`TimeAssumption`, `CalendarAssumption`, `WindowsAssumption`, `ListsAssumption`,
`BoundsAssumption`, `RunsAssumption`, `InputsAssumption`).

- `ExperimentProofs`: the inductive invariant `IInv` adds to the types
  `Versions` (the cache and the watch hold older versions of `api`, and equal
  version numbers mean equal versions), `Shape` (what a phase says of the other
  fields), `Worker` (what the place in a reconcile says of its copy), `Undone`
  and `Veto` (the invariants, also for the copies in flight), `Wakeups`. The
  invariants alone are not inductive: whether a write goes through depends on
  the copy it carries. Theorems: each invariant of the run `experiment`, the
  action property of deletions, and that the controller implements
  `ExperimentLifecycle`.
- `WorkflowProofs`: `DependenciesRespected` and `CompletedMeansPassed` are
  inductive only with `CountsLost`: outside `Pending` no message carries a retry
  count, so under `retry` every failed template is set back and none counts as
  completed: `RetriesNeverEnd`. A pass does one of four things to a template (`Stays`, `Ends`,
  `Begins`, `Resets`), and the invariants follow from these. Holds for every
  finite set of templates, every graph and strategy.
- `WorkflowProofs`, second part: `TopologicalSort` for
  every list of templates, of any length and with any names and dependencies.
  `SortInv`: the `inDegree` of a node is the number of its entries that are not
  yet met (`Unmet`), a node is in the queue or the order exactly when that is
  zero, both are without repetition, and no set of nodes in which each waits for
  another (`Stuck`) has a node in the order. A list that ends with nodes left over
  leaves such a set, so it is not sortable; a sortable list leaves none:
  `SortAccepts` and `SortOrders`. `SortShrinks`: the nodes, the entries and the
  return that are left get fewer with every step, which bounds the number of steps
  for cyclic lists too; that a step is taken is `SortEnds` (fairness).
- `DaemonProofs`: for every rule or qdisc, the set of command occurrences held
  by live executions; every step keeps the set or loses elements of it and
  leaves `host` alone, or adds one element with the command that adds one to
  `host`, or removes one with at most one removal from `host`, or is a removal for a
  node stress, after which the rule is `Struck` for good. From this `NeverSteals`, and,
  while `clean`, equality. `Attached` says, execution by execution, when a program is
  attached; it is inductive and gives `ProgramsAreExact`. `RefinesService`: a call that
  ends is `End`, `StoreRemove` is `Cancel`, where `Attached` shows that no program is
  left, and every other step of a handler is hidden or ends lost stress-ng.
- `DaemonExecutorProofs`: what a call can still cancel (`Known`) is acknowledged,
  its experiment's own and never sent before (`KnownAreOwn`); `Rollback` leaves
  the map empty until it is over (`RecordsTaken`); every execution to undo is
  `Known` unless a rollback failed or the operator stopped (`Accounted`). With
  `DoneTargetsCovered` and the table of executors these are inductive and give
  the invariants of the run. `OneLostPerError` is inductive with the types.
  `RelyOnService`: what the module lets daemons do, `DaemonService` allows. Together
  with `RefinesService` and `OneOwnCancel`, which `Daemon` takes for granted, the
  two modules fit together.
- `ResourceExecutorProofs`: a copy with the current version has the current
  content (`FreshIsCurrent`), which together with `ReadsAreCopied` makes the
  accepted update replace what was copied (`KeptIsBefore`); a fault that is owed
  has its record, is being rolled back, or is lost (`OwedIsKept`); no record has
  a fault unless `nested` (`KeptIsClean`). `FaultIsOwed` and `RestoresBefore` are
  inductive with these.
- `AZFailureProofs`: an association id never comes back, so while a kept id is
  current the subnet is on the deny ACL that replaced the kept original
  (`HeldExact`, `ReadExact`); a kept original is a user's ACL or `untended`
  (`TakenOver`); every subnet on a deny ACL has its record (`Owed`). These are
  inductive and give the invariants and `RestoresOriginal` for every zone and any
  number of experiments.
- `BlastRadiusProofs`: every policy before `at` was looked at between `begun` and
  `last`, and an enforcing one did not object then (`Progress`). Holds for all
  policies, lists, calendars and zones. For the windows (`ScanIsExact`,
  `WindowsHold`) the part, field and schedule matchers are shown to agree with the
  sets they denote, where `Understood` (`PartsAgree`, `FieldsAgree`, `SchedulesAgree`); that
  `(value-start)%step == 0` finds the multiples needs that a remainder is in
  `0..step-1` (`StepsCounted`, `RemainderRange`). `CalendarAssumption` says that days, months
  and weekdays are numbered as Go numbers them and that each minute considered has
  an offset and a date in every zone; `WindowsAssumption` that windows have the
  type that parsing gives them and that a scan does not reach back before the
  calendar.
- `AgentProofs`: every report that is out was true when it was sent, and what
  makes it true is never undone (`ReportsHold`), so losses and delays do not
  matter; an abort annotation was wanted (`ClusterInv`); experiments created and
  runs that have still to apply do not exceed the claims (`CountInv`).

Proved and therefore in no run: the type invariant `TypeOK` of each of these
modules, `Workflow!CompletedStays`, `BlastRadius!DeniedIsJustified` and
`DaemonExecutor!AssumesService`.

Only model-checked: liveness, since fairness and ENABLED are outside the prover's
reach (`Terminates`, `DeletionCompletes`, `EndsOrWaits`, `SortEnds`, `WatchEnds`).
Every safety property of a passing run is a theorem.

## The plan

1. `DaemonExecutor` composed with `Experiment` for the executors that drop a
   reply: an abstract executor that both use, as `DaemonService` is for the daemon.
2. `BlastRadius` composed with `Experiment`: the controller's own updates under
   a policy that comes and goes.
3. The safety half of the other liveness properties: measures that decrease, as
   `SortShrinks` does.

## Not modelled

Generated code, charts and manifests; what probes, the CRI and netlink ask of
the outside (their outcome is a choice); printing commands of `chaosctl`; the
extension registry and the resource types without a controller.
