-------------------------------- MODULE Daemon --------------------------------
(***************************************************************************)
(* The chaos daemon of one node (internal/daemon): its gRPC handlers, which *)
(* run concurrently, the execution store, the eBPF manager, and the state  *)
(* of the host that tc, iptables and stress-ng change.                     *)
(*                                                                         *)
(* A handler is cut at its commands: each command of an Exec call or of    *)
(* CancelChaos is a step, and so is the access to the store that follows.  *)
(***************************************************************************)
EXTENDS Naturals, Sequences, FiniteSets

CONSTANTS
  Ids,          \* the executions, by the UUID that their handler draws
  Ifaces,       \* the names of network interfaces
  Args,         \* CIDRs, ports and domains
  Requests,     \* the requests considered
  MayFail,      \* the tools whose commands may fail for reasons of their own
  MaxRestarts   \* bound: daemon restarts considered

\* A request: the call and its action, the interface it acts on (the host-side
\* veth that the resolver found, or the one the request names, which may be none),
\* the direction of a partition, and what its rules match: the target CIDR, the
\* port, or the domains.
Rpcs == {"netem", "ebpf", "partition", "dns", "http-abort", "http-delay", "stress",
         "node-partition", "node-stress"}
RequestType ==
  [rpc: Rpcs, iface: Ifaces \cup {""}, dir: {"egress", "ingress", "both"},
   args: Seq(Args)]

Tools == {"tc", "iptables", "stress-ng"}

ASSUME DaemonAssumption ==
  /\ {"eth0", "lo", "host"} \subseteq Ifaces
  /\ Requests \subseteq RequestType
  /\ MayFail \subseteq Tools
  /\ MaxRestarts \in Nat

VARIABLES
  calls,      \* the Exec handler of each execution
  store,      \* the ExecutionStore: the executions it holds
  cancels,    \* the CancelChaos handler of each execution
  host,       \* how often each rule is in iptables, each root qdisc in tc
  programs,   \* the executions with an eBPF link
  stress,     \* the executions whose stress-ng runs
  clean,      \* history: nothing was left on the host so far, see HostIsExact
  restarts

vars == <<calls, store, cancels, host, programs, stress, clean, restarts>>

\* What a command adds to the host: a root qdisc, or a rule in a chain.  A rule
\* that is not scoped to a pod names no interface: it has "host" for one.
Fact(tool, iface, what, arg) == [tool |-> tool, iface |-> iface, what |-> what, arg |-> arg]
Qdisc(iface) == Fact("tc", iface, "root", "")
Rule(iface, what, arg) == Fact("iptables", iface, what, arg)

Or(iface, default) == IF iface = "" THEN default ELSE iface

PartitionRules(iface, dir, cidr) ==
  LET egress == Rule(iface, "egress", cidr)
      ingress == Rule(iface, "ingress", cidr)
  IN IF dir = "egress" THEN <<egress>>
     ELSE IF dir = "ingress" THEN <<ingress>>
     ELSE <<egress, ingress>>

\* A rule for UDP and one for TCP, for each domain in turn.
DnsRules(iface, domains) ==
  [k \in 1..(2 * Len(domains)) |->
     Rule(iface, IF k % 2 = 1 THEN "udp" ELSE "tcp", domains[(k + 1) \div 2])]

NodeRules(iface) == <<Rule(iface, "input", ""), Rule(iface, "output", "")>>

\* The commands of a request, in order; stress-ng and the eBPF link apart.
Commands(req) ==
  IF req.rpc = "netem" THEN <<Qdisc(Or(req.iface, "eth0"))>>
  ELSE IF req.rpc = "http-delay" THEN <<Qdisc(Or(req.iface, "lo"))>>
  ELSE IF req.rpc = "partition" THEN PartitionRules(Or(req.iface, "eth0"), req.dir, req.args[1])
  ELSE IF req.rpc = "dns" THEN DnsRules(Or(req.iface, "host"), req.args)
  ELSE IF req.rpc = "http-abort" THEN <<Rule(Or(req.iface, "host"), "reject", req.args[1])>>
  ELSE IF req.rpc = "node-partition" THEN NodeRules(Or(req.iface, "eth0"))
  ELSE <<>>

\* A node partition that names no interface.
Unnamed(req) == req.rpc = "node-partition" /\ req.iface = ""

\* Every node request is undone by iptablesUnblock on the interface that it came
\* with, a stress too, if it came with one.
OfNode(req) == req.rpc \in {"node-partition", "node-stress"}
NodeUndo(req) == IF req.iface = "" THEN <<>> ELSE NodeRules(req.iface)

\* Faulty variant: the qdisc is deleted whatever datapath took effect.
UndoCommandsAnyDatapath(req) ==
  IF req.rpc = "ebpf" THEN <<Qdisc(Or(req.iface, "eth0"))>>
  ELSE IF OfNode(req) THEN NodeUndo(req) ELSE Commands(req)

\* Faulty variant: the direction is not recorded, and one rule is deleted.
UndoCommandsOneRule(req) ==
  IF OfNode(req) THEN NodeUndo(req)
  ELSE IF req.rpc = "partition" THEN <<Commands(req)[1]>> ELSE Commands(req)

\* CancelChaos undoes what the recorded parameters say: the datapath that took
\* effect, on the interface it took effect on.  Of a node request they are the
\* parameters it came with.
UndoCommands(req) ==
  IF OfNode(req) THEN NodeUndo(req) ELSE Commands(req)

\* The requests as they are executed: a loss fault may fall back to netem.
Executed == Requests \cup {[req EXCEPT !.rpc = "netem"] : req \in Requests}

\* Everything that commands can add or delete.
Facts ==
  LET of(commands) == {commands[j] : j \in DOMAIN commands}
  IN UNION {of(Commands(req)) \cup of(UndoCommands(req)) : req \in Executed}

Stresses(req) == req.rpc \in {"stress", "node-stress"}

\* stressNGStop follows for stress and for every node request.
StopsStress(req) == req.rpc \in {"stress", "node-stress", "node-partition"}

NoRequest == [rpc |-> "none", iface |-> "", dir |-> "both", args |-> <<>>]
NoCall == [pc |-> "none", req |-> NoRequest, k |-> 0]
NoCancel == [pc |-> "none", k |-> 0, missed |-> FALSE]

Init ==
  /\ calls = [id \in Ids |-> NoCall]
  /\ store = {}
  /\ cancels = [id \in Ids |-> NoCancel]
  /\ host = [f \in Facts |-> 0]
  /\ programs = {} /\ stress = {}
  /\ clean = TRUE /\ restarts = 0
-----------------------------------------------------------------------------
(* ExecNetworkChaos, ExecStressChaos, ExecDNSChaos, ExecHTTPChaos and      *)
(* ExecNodeChaos.                                                          *)

\* A call arrives.  The target is resolved or the call is refused at once: no
\* resolver, no such pod, no cgroup path, no port, CIDR or domain, an action it
\* does not support.
Call ==
  \E id \in Ids, req \in Requests, pc \in {"applying", "failed"} :
    /\ calls[id].pc = "none"
    /\ calls' = [calls EXCEPT ![id] = [pc |-> pc, req |-> req, k |-> 0]]
    /\ UNCHANGED <<store, cancels, host, programs, stress, clean, restarts>>

\* tc refuses a second root qdisc.
CanAdd(f) == f.tool = "tc" => host[f] = 0

\* The next command of the call succeeds.
Command ==
  \E id \in Ids :
    /\ calls[id].pc = "applying" /\ calls[id].k < Len(Commands(calls[id].req))
    /\ LET f == Commands(calls[id].req)[calls[id].k + 1]
       IN CanAdd(f) /\ host' = [host EXCEPT ![f] = @ + 1]
    /\ calls' = [calls EXCEPT ![id].k = @ + 1]
    /\ UNCHANGED <<store, cancels, programs, stress, clean, restarts>>

\* It fails: the call returns Success and Applied false.
CommandFails ==
  \E id \in Ids :
    /\ calls[id].pc = "applying" /\ calls[id].k < Len(Commands(calls[id].req))
    /\ LET f == Commands(calls[id].req)[calls[id].k + 1]
       IN ~CanAdd(f) \/ f.tool \in MayFail
    /\ calls' = [calls EXCEPT ![id].pc = "failed"]
    /\ clean' = (clean /\ calls[id].k = 0)
    /\ UNCHANGED <<store, cancels, host, programs, stress, restarts>>

\* LoadTCDrop attaches the program, or fails and netem is used instead: the
\* datapath that is recorded decides what CancelChaos undoes.
LoadTCDrop ==
  \E id \in Ids :
    /\ calls[id].pc = "applying" /\ calls[id].req.rpc = "ebpf" /\ id \notin programs
    /\ \/ programs' = programs \cup {id} /\ UNCHANGED calls
       \/ calls' = [calls EXCEPT ![id].req.rpc = "netem"] /\ UNCHANGED programs
    /\ UNCHANGED <<store, cancels, host, stress, clean, restarts>>

\* stress-ng is started, or cannot be.
StressNGStart ==
  \E id \in Ids :
    /\ calls[id].pc = "applying" /\ Stresses(calls[id].req) /\ calls[id].k = 0
    /\ \/ /\ stress' = stress \cup {id}
          /\ calls' = [calls EXCEPT ![id].k = 1]
       \/ /\ "stress-ng" \in MayFail
          /\ calls' = [calls EXCEPT ![id].pc = "failed"]
          /\ UNCHANGED stress
    /\ UNCHANGED <<store, cancels, host, programs, clean, restarts>>

Applied(id) ==
  /\ calls[id].k = IF Stresses(calls[id].req) THEN 1 ELSE Len(Commands(calls[id].req))
  /\ calls[id].req.rpc = "ebpf" => id \in programs

\* Everything was applied: the execution is stored and the call returns its id.
StoreAdd ==
  \E id \in Ids :
    /\ calls[id].pc = "applying" /\ Applied(id)
    /\ store' = store \cup {id}
    /\ calls' = [calls EXCEPT ![id].pc = "applied"]
    /\ UNCHANGED <<cancels, host, programs, stress, clean, restarts>>
-----------------------------------------------------------------------------
(* CancelChaos.  A client cancels an execution once, after it got its id:  *)
(* Rollback takes the ids out of the executor's map before it cancels.     *)

CancelGet ==
  \E id \in Ids :
    /\ calls[id].pc = "applied" /\ cancels[id].pc = "none"
    /\ cancels' = [cancels EXCEPT ![id].pc = IF id \in store THEN "undoing" ELSE "notFound"]
    /\ UNCHANGED <<calls, store, host, programs, stress, clean, restarts>>

\* The next undo command; one that fails is logged or ignored.  missed: one has
\* failed although there was something to delete.  A node stress has put no rule
\* there: what its command deletes is a node partition's.
UndoCommand ==
  \E id \in Ids :
    /\ cancels[id].pc = "undoing"
    /\ cancels[id].k < Len(UndoCommands(calls[id].req))
    /\ LET f == UndoCommands(calls[id].req)[cancels[id].k + 1]
       IN \/ /\ host[f] > 0
             /\ host' = [host EXCEPT ![f] = @ - 1]
             /\ cancels' = [cancels EXCEPT ![id].k = @ + 1]
             /\ clean' = (clean /\ calls[id].req.rpc # "node-stress")
          \/ /\ host[f] = 0 \/ f.tool \in MayFail
             /\ cancels' = [cancels EXCEPT ![id].k = @ + 1, ![id].missed = @ \/ host[f] > 0]
             /\ clean' = (clean /\ host[f] = 0)
             /\ UNCHANGED host
    /\ UNCHANGED <<calls, store, programs, stress, restarts>>

\* Faulty variant: the program is not unloaded.
UndoRestNoUnload ==
  \E id \in Ids :
    /\ cancels[id].pc = "undoing"
    /\ cancels[id].k = Len(UndoCommands(calls[id].req))
    /\ stress' \in IF StopsStress(calls[id].req) THEN SUBSET stress ELSE {stress}
    /\ cancels' = [cancels EXCEPT ![id].pc = "undone"]
    /\ UNCHANGED <<calls, store, host, programs, clean, restarts>>

\* Unload the program, or pkill -f stress-ng, which signals every stress-ng and
\* waits for none; its error is ignored.
UndoRest ==
  \E id \in Ids :
    /\ cancels[id].pc = "undoing"
    /\ cancels[id].k = Len(UndoCommands(calls[id].req))
    /\ programs' = programs \ {id}
    /\ stress' \in IF StopsStress(calls[id].req) THEN SUBSET stress ELSE {stress}
    /\ cancels' = [cancels EXCEPT ![id].pc = "undone"]
    /\ UNCHANGED <<calls, store, host, clean, restarts>>

\* Faulty variant: with the pkill that every stress-ng gets, all of them leave the
\* store.
StoreRemoveStresses ==
  \E id \in Ids :
    /\ cancels[id].pc = "undone"
    /\ store' = {i \in store \ {id} : ~(StopsStress(calls[id].req) /\ Stresses(calls[i].req))}
    /\ cancels' = [cancels EXCEPT ![id].pc = "cancelled"]
    /\ clean' = (clean /\ ~Unnamed(calls[id].req))
    /\ UNCHANGED <<calls, host, programs, stress, restarts>>

\* The execution leaves the store and the call returns Success.
StoreRemove ==
  \E id \in Ids :
    /\ cancels[id].pc = "undone"
    /\ store' = store \ {id}
    /\ cancels' = [cancels EXCEPT ![id].pc = "cancelled"]
    /\ clean' = (clean /\ ~Unnamed(calls[id].req))
    /\ UNCHANGED <<calls, host, programs, stress, restarts>>
-----------------------------------------------------------------------------
\* stress-ng reaches its --timeout, ends on a signal it got, or ends early: the
\* shell that moves itself into the cgroup first may fail after Start has returned.
StressEnds ==
  \E id \in stress :
    /\ stress' = stress \ {id}
    /\ UNCHANGED <<calls, store, cancels, host, programs, clean, restarts>>

\* The daemon stops and starts again: the store is gone and so are the calls in
\* progress, the eBPF links close with their file descriptors, qdiscs and rules
\* stay, and so may stress-ng, which runs in the pod's cgroup.
Restart ==
  /\ restarts < MaxRestarts
  /\ restarts' = restarts + 1
  /\ store' = {} /\ programs' = {}
  /\ calls' = [id \in Ids |-> IF calls[id].pc = "applying"
                              THEN [calls[id] EXCEPT !.pc = "failed"] ELSE calls[id]]
  /\ cancels' = [id \in Ids |-> IF cancels[id].pc \in {"undoing", "undone"}
                                THEN [cancels[id] EXCEPT !.pc = "failed"] ELSE cancels[id]]
  /\ stress' \in {stress, {}}
  /\ clean' = FALSE
  /\ UNCHANGED host

Next ==
  \/ Call \/ Command \/ CommandFails \/ LoadTCDrop \/ StressNGStart \/ StoreAdd
  \/ CancelGet \/ UndoCommand \/ UndoRest \/ StoreRemove
  \/ StressEnds \/ Restart

Spec == Init /\ [][Next]_vars
-----------------------------------------------------------------------------
(* Properties.                                                             *)

CallType ==
  [pc: {"none", "applying", "applied", "failed"}, req: Executed \cup {NoRequest}, k: Nat]
CancelType ==
  [pc: {"none", "undoing", "undone", "cancelled", "notFound", "failed"}, k: Nat,
   missed: BOOLEAN]

\* Every variable has its type.
TypeOK ==
  /\ calls \in [Ids -> CallType]
  /\ store \subseteq Ids
  /\ cancels \in [Ids -> CancelType]
  /\ host \in [Facts -> Nat]
  /\ programs \subseteq Ids /\ stress \subseteq Ids
  /\ clean \in BOOLEAN
  /\ restarts \in 0..MaxRestarts

\* An execution is live while its call is applying it and while it is stored.
\* What it holds is the effect of the commands that its call has run and that
\* its cancellation has not yet undone.
Live(id) == calls[id].pc = "applying" \/ id \in store

Holds(id, f) ==
  {j \in (cancels[id].k + 1)..calls[id].k :
     /\ Live(id)
     /\ j \in DOMAIN Commands(calls[id].req) /\ Commands(calls[id].req)[j] = f}

Holders(f) == UNION {{id} \X Holds(id, f) : id \in Ids}

\* The cancellation of a node stress has deleted this rule, or tried to.
Struck(f) ==
  \E id \in Ids :
    /\ calls[id].req.rpc = "node-stress"
    /\ \E j \in DOMAIN UndoCommands(calls[id].req) :
         j <= cancels[id].k /\ UndoCommands(calls[id].req)[j] = f

\* Whatever the interleaving of Exec and Cancel calls on the same interfaces,
\* whichever of their commands fail, and across restarts: each rule and qdisc
\* that a live execution holds is on the host, once for every one that holds it,
\* although "tc qdisc del" and "iptables -D" do not say whose they delete.  There is
\* one exception: CancelChaos unblocks the interface that a node stress came with,
\* and so deletes the rules of a node partition on it.
NothingStolen == \A f \in Facts : Struck(f) \/ host[f] >= Cardinality(Holders(f))

\* Only five things make the host differ from what live executions hold: a call
\* that fails past its first command, an undo command that fails, the cancellation
\* of a node partition that named no interface or of a node stress that names one
\* a node partition is on, and a restart.  Until one of them has happened the host
\* has what live executions hold and nothing else, so that CancelChaos has undone
\* what is no longer stored.
HostIsExact == clean => \A f \in Facts : host[f] = Cardinality(Holders(f))

\* The recorded datapath tells how to undo a loss fault: a program is attached
\* for every execution stored with the eBPF datapath, and for no execution that
\* fell back to netem or is no longer live.
ProgramsAreExact ==
  /\ \A id \in programs : Live(id) /\ calls[id].req.rpc = "ebpf"
  /\ \A id \in store : calls[id].req.rpc = "ebpf" /\ cancels[id].pc # "undone"
       => id \in programs
-----------------------------------------------------------------------------
(* What the executors see.                                                 *)

Over(id) == calls[id].pc \in {"applied", "failed"}

Kind(id) ==
  IF calls[id].req.rpc = "ebpf" THEN "ebpf"
  ELSE IF Stresses(calls[id].req) THEN "stress"
  ELSE IF Unnamed(calls[id].req) THEN "unscoped" ELSE "rules"

\* Something of an execution that is not stored may be in effect.  Rules that are
\* no longer stored may be, unless CancelChaos has run through their undo commands
\* and none of them has failed.
Remains(id) ==
  IF Kind(id) = "ebpf" THEN id \in programs
  ELSE IF Kind(id) = "stress" THEN id \in stress
  ELSE /\ calls[id].pc = "failed" => calls[id].k > 0
       /\ cancels[id].pc = "cancelled" => Unnamed(calls[id].req) \/ cancels[id].missed

Stage(id) ==
  IF ~Over(id) THEN "new"
  ELSE IF id \in store THEN "held"
  ELSE IF Remains(id) THEN "lost" ELSE "gone"

Runs(id) == IF Over(id) THEN Kind(id) ELSE "none"

Service == INSTANCE DaemonService
             WITH stage <- [id \in Ids |-> Stage(id)], runs <- [id \in Ids |-> Runs(id)]

\* The daemon keeps its promise to the executors.  Although CancelChaos works by
\* "pkill -f stress-ng", "tc qdisc del" and "iptables -D", each cancellation takes
\* one execution out of the store and no other; what has left the store never comes
\* back, nor does what is no longer in effect; a program never outlives its
\* execution, while rules whose undo failed and a stress-ng that was only signalled
\* do, although CancelChaos returns Success.
ImplementsService == Service!Spec
=============================================================================
