--------------------------- MODULE ResourceExecutor ---------------------------
(***************************************************************************)
(* The executors that change a resource themselves: a Kubernetes object    *)
(* through the manager's client (internal/executor/cluster, timechaos,     *)
(* node, pod/kill.go), a cloud resource through its API (aws, azure, gcp)  *)
(* or a host through ssh (vm).  Execute reads the resource, puts the fault *)
(* in place and keeps what Rollback needs, for some a copy of what was     *)
(* there, in a map by experiment.                                          *)
(*                                                                         *)
(* One resource, several experiments that have it as their target, and a   *)
(* user who changes it at any time.  The controller has one worker, so one *)
(* operation is in progress at a time.  A further target that fails is an  *)
(* error after the fault is in place.                                      *)
(***************************************************************************)
CONSTANTS
  Exps,     \* the experiments, by UID
  Values,   \* what users put into the resource
  Kinds     \* the executors considered

Bad == "bad"        \* the content that the fault puts there
Clear == "clear"    \* the content that a Rollback without a copy puts there
Absent == "absent"  \* no such object
None == "none"      \* nothing kept

\* How Execute reads the resource and writes the fault: an update needs the
\* current version, an add a resource without it.  Whether it refuses a copy
\* that has the fault.  What it keeps, and how Rollback writes.  Whether Rollback
\* creates an object that it does not find, and whether it reports its errors.
KindType ==
  [reads: {"cache", "live", "nothing"}, writes: {"update", "put", "add", "delete"},
   refuses: BOOLEAN, keeps: {"copy", "mark", "nothing"},
   undo: {"update", "put", "recreate", "nothing"}, creates: BOOLEAN, reports: BOOLEAN]

ConfigMapCorrupt ==
  [reads |-> "cache", writes |-> "update", refuses |-> FALSE, keeps |-> "copy",
   undo |-> "update", creates |-> TRUE, reports |-> TRUE]
ConfigMapDelete ==
  [reads |-> "cache", writes |-> "delete", refuses |-> FALSE, keeps |-> "copy",
   undo |-> "update", creates |-> TRUE, reports |-> TRUE]
PVCChaosExecutor ==
  [reads |-> "cache", writes |-> "delete", refuses |-> FALSE, keeps |-> "copy",
   undo |-> "recreate", creates |-> TRUE, reports |-> TRUE]
TimeChaosExecutor ==
  [reads |-> "cache", writes |-> "update", refuses |-> TRUE, keeps |-> "copy",
   undo |-> "update", creates |-> FALSE, reports |-> TRUE]

\* Nodes: the flag or the taint is set, and cleared, without a note of what was
\* there.  A node that has the taint is passed over.
DrainExecutor ==
  [reads |-> "cache", writes |-> "update", refuses |-> FALSE, keeps |-> "nothing",
   undo |-> "update", creates |-> FALSE, reports |-> TRUE]
TaintExecutor ==
  [reads |-> "cache", writes |-> "update", refuses |-> TRUE, keeps |-> "nothing",
   undo |-> "update", creates |-> FALSE, reports |-> TRUE]

\* Cloud settings: the old one, or that there was none, is read, and put back.
SettingExecutor ==
  [reads |-> "live", writes |-> "put", refuses |-> FALSE, keeps |-> "copy",
   undo |-> "put", creates |-> FALSE, reports |-> TRUE]
EKSNodegroupScaleExecutor == SettingExecutor
LambdaThrottleExecutor == SettingExecutor
S3BlockExecutor == SettingExecutor

\* Instances: stopped, and started again if it was this executor.
StopExecutor ==
  [reads |-> "nothing", writes |-> "put", refuses |-> FALSE, keeps |-> "mark",
   undo |-> "put", creates |-> FALSE, reports |-> TRUE]
EC2StopExecutor == StopExecutor
VMStopExecutor == StopExecutor

\* Hosts: a command does it, and one undoes it, whose error is dropped.
HostExecutor(writes) ==
  [reads |-> "nothing", writes |-> writes, refuses |-> FALSE, keeps |-> "nothing",
   undo |-> "put", creates |-> FALSE, reports |-> FALSE]
CPUStressExecutor == HostExecutor("put")
MemoryStressExecutor == HostExecutor("put")
DiskStressExecutor == HostExecutor("put")
ProcessSuspendExecutor == HostExecutor("put")
NetworkDelayExecutor == HostExecutor("add")

\* Rollback does nothing.
OneShotExecutor ==
  [reads |-> "nothing", writes |-> "put", refuses |-> FALSE, keeps |-> "nothing",
   undo |-> "nothing", creates |-> FALSE, reports |-> TRUE]
EC2TerminateExecutor == OneShotExecutor
RDSFailoverExecutor == OneShotExecutor
ECSStopTaskExecutor == OneShotExecutor
ElastiCacheFailoverExecutor == OneShotExecutor
AKSNodePoolScaleExecutor == OneShotExecutor
CosmosDBFailoverExecutor == OneShotExecutor
GKENodePoolScaleExecutor == OneShotExecutor
CloudSQLFailoverExecutor == OneShotExecutor
CloudRunStopExecutor == OneShotExecutor
ProcessKillExecutor == OneShotExecutor
PodKillExecutor == OneShotExecutor

AllKinds ==
  {ConfigMapCorrupt, ConfigMapDelete, PVCChaosExecutor, TimeChaosExecutor, DrainExecutor,
   TaintExecutor, EKSNodegroupScaleExecutor, LambdaThrottleExecutor, S3BlockExecutor,
   EC2StopExecutor, VMStopExecutor, CPUStressExecutor, MemoryStressExecutor,
   DiskStressExecutor, ProcessSuspendExecutor, NetworkDelayExecutor, EC2TerminateExecutor,
   RDSFailoverExecutor, ECSStopTaskExecutor, ElastiCacheFailoverExecutor,
   AKSNodePoolScaleExecutor, CosmosDBFailoverExecutor, GKENodePoolScaleExecutor,
   CloudSQLFailoverExecutor, CloudRunStopExecutor, ProcessKillExecutor, PodKillExecutor}

ASSUME KindsAssumption ==
  /\ Kinds \subseteq AllKinds
  /\ Values \cap {Bad, Clear, Absent, None} = {} /\ Values # {}
  /\ None \notin Exps

VARIABLES
  kind,      \* the executor
  data,      \* the content of the resource
  ending,    \* its deletion waits for a finalizer
  cache,     \* the manager's copy, and whether it is the current version
  call,      \* the operation in progress
  records,   \* state: what is kept for each experiment
  byUser,    \* history: a user made the content what it is
  owes,      \* history: the experiments with a fault that no nil Rollback followed
  lost,      \* history: the experiments with a fault whose record is gone
  before,    \* history: what the last nil Execute of each experiment replaced
  raced,     \* history: it was not what Execute had read
  nested,    \* history: a kept copy has a fault in it
  restored   \* history: the experiment whose Rollback made the last change

vars == <<kind, data, ending, cache, call, records, byUser, owes, lost, before, raced,
          nested, restored>>
resource == <<data, ending, cache, byUser, restored>>
history == <<owes, lost, before, raced, nested>>
-----------------------------------------------------------------------------
Contents == Values \cup {Bad, Clear, Absent}

\* copy: what Execute will keep, or Rollback write.  seen: what was read of the
\* resource, fresh: it is still the current version.
Idle == [op |-> "idle", exp |-> None, copy |-> None, seen |-> None, fresh |-> FALSE]
Begin(op, exp, copy, cached) ==
  call' = [op |-> op, exp |-> exp, copy |-> copy, seen |-> IF cached THEN cache.data ELSE data,
           fresh |-> cached => cache.fresh]

\* The content that shows the fault.
Fault == IF kind.writes = "delete" THEN Absent ELSE Bad

\* An object may be missing; a flag may be set by a user too.
UserContents ==
  IF kind.keeps # "copy" THEN {Clear, Bad}
  ELSE Values \cup IF kind.reads = "cache" THEN {Absent} ELSE {}

Init ==
  /\ kind \in Kinds
  /\ data \in UserContents /\ ending = FALSE
  /\ cache = [data |-> data, fresh |-> TRUE]
  /\ call = Idle
  /\ records = [exp \in Exps |-> None]
  /\ byUser = TRUE /\ nested = FALSE /\ restored = None
  /\ owes = [exp \in Exps |-> FALSE]
  /\ lost = [exp \in Exps |-> FALSE]
  /\ before = [exp \in Exps |-> None]
  /\ raced = [exp \in Exps |-> FALSE]

\* Every accepted write makes a new version.
Write(content) ==
  /\ data' = content /\ UNCHANGED ending
  /\ cache' = [cache EXCEPT !.fresh = FALSE]

\* The operation returns an error, and nothing is kept for another Rollback.
LoseTrack ==
  lost' = [lost EXCEPT ![call.exp] =
             @ \/ (kind.keeps # "nothing" /\ records[call.exp] = None)]
-----------------------------------------------------------------------------
(* Execute.                                                                *)

\* Faulty variant: time chaos is put on top of time chaos.
ExecuteReadsAny ==
  \E exp \in Exps :
    /\ call = Idle
    /\ LET seen == IF kind.reads = "cache" THEN cache.data ELSE data
       IN  seen # Absent /\ Begin("execute", exp, seen, kind.reads = "cache")
    /\ UNCHANGED <<kind, resource, records, history>>

\* The resource is read, where the executor does, and copied.  Execute returns if
\* it is not there, or has the fault and the executor looks for it.
ExecuteReads ==
  \E exp \in Exps :
    /\ call = Idle
    /\ LET seen == IF kind.reads = "cache" THEN cache.data ELSE data
       IN  /\ seen # Absent
           /\ kind.refuses => seen # Bad
           /\ Begin("execute", exp, seen, kind.reads = "cache")
    /\ UNCHANGED <<kind, resource, records, history>>

\* Faulty variant: an update with an old version is accepted.
PutFaultBlindly ==
  /\ kind.writes = "add" => data # Bad
  /\ data # Absent
  /\ \/ ~ending /\ Write(Fault)
     \/ /\ kind.undo = "recreate" /\ ending' = TRUE
        /\ cache' = [cache EXCEPT !.fresh = FALSE]
        /\ UNCHANGED data
  /\ byUser' = FALSE /\ restored' = None

\* The fault is put there.  The deletion of a claim in use waits for its pods.
PutFault ==
  /\ kind.writes = "update" => call.fresh
  /\ kind.writes = "add" => data # Bad
  /\ data # Absent
  /\ \/ ~ending /\ Write(Fault)
     \/ /\ kind.undo = "recreate" /\ ending' = TRUE
        /\ cache' = [cache EXCEPT !.fresh = FALSE]
        /\ UNCHANGED data
  /\ byUser' = FALSE /\ restored' = None

\* What Execute keeps once the fault is in place.
Kept == IF kind.keeps = "copy" THEN call.copy ELSE IF kind.keeps = "mark" THEN Clear ELSE None

\* Execute returns nil, or an error since the reply is lost or a later step fails.
ExecuteWrites ==
  /\ call.op = "execute"
  /\ PutFault
  /\ owes' = [owes EXCEPT ![call.exp] = TRUE]
  /\ \/ /\ records' = [records EXCEPT ![call.exp] = Kept]
        /\ before' = [before EXCEPT ![call.exp] = data]
        /\ raced' = [raced EXCEPT ![call.exp] = ~call.fresh]
        /\ nested' = (nested \/ Kept = Bad)
        /\ UNCHANGED lost
     \/ LoseTrack /\ UNCHANGED <<records, before, raced, nested>>
  /\ call' = Idle
  /\ UNCHANGED kind

\* The write is refused, for an old version or another reason.
ExecuteFails ==
  /\ call.op = "execute"
  /\ call' = Idle
  /\ UNCHANGED <<kind, resource, records, history>>
-----------------------------------------------------------------------------
(* Rollback.                                                               *)

\* Nothing is kept, or Rollback has nothing to do: it returns nil.
RollbackSkips ==
  \E exp \in Exps :
    /\ call = Idle
    /\ kind.undo = "nothing" \/ (kind.keeps # "nothing" /\ records[exp] = None)
    /\ owes' = [owes EXCEPT ![exp] = FALSE]
    /\ UNCHANGED <<kind, resource, call, records, lost, before, raced, nested>>

\* What was kept is taken out of the map.  Kubernetes objects are read again.
RollbackReads ==
  \E exp \in Exps :
    /\ call = Idle /\ kind.undo # "nothing"
    /\ kind.keeps # "nothing" => records[exp] # None
    /\ records' = [records EXCEPT ![exp] = None]
    /\ Begin("rollback", exp, IF kind.keeps = "copy" THEN records[exp] ELSE Clear,
             kind.undo # "put")
    /\ UNCHANGED <<kind, resource, history>>

\* The write that undoes the fault.
PutBack ==
  /\ \/ kind.undo = "put"
     \/ kind.undo = "update" /\ call.seen # Absent /\ call.fresh
     \/ kind.creates /\ call.seen = Absent /\ data = Absent
  /\ Write(call.copy)
  /\ byUser' = FALSE /\ restored' = call.exp

\* The reply may be lost, after which Rollback returns an error.
RollbackWrites ==
  /\ call.op = "rollback"
  /\ PutBack
  /\ \/ /\ owes' = [owes EXCEPT ![call.exp] = FALSE]
        /\ lost' = [lost EXCEPT ![call.exp] = FALSE]
     \/ LoseTrack /\ UNCHANGED owes
  /\ call' = Idle
  /\ UNCHANGED <<kind, records, before, raced, nested>>

\* A claim that is still there is taken for restored.
RollbackFinds ==
  /\ call.op = "rollback" /\ kind.undo = "recreate" /\ call.seen # Absent
  /\ owes' = [owes EXCEPT ![call.exp] = FALSE]
  /\ call' = Idle
  /\ UNCHANGED <<kind, resource, records, lost, before, raced, nested>>

\* The read or the write fails.
RollbackFails ==
  /\ call.op = "rollback"
  /\ owes' = [owes EXCEPT ![call.exp] = @ /\ kind.reports]
  /\ LoseTrack
  /\ call' = Idle
  /\ UNCHANGED <<kind, resource, records, before, raced, nested>>
-----------------------------------------------------------------------------
(* The environment.                                                        *)

\* A user, or another controller, changes, deletes or creates the resource.
UserWrites ==
  \E content \in UserContents \ {data} :
    /\ ~ending
    /\ Write(content)
    /\ byUser' = TRUE /\ restored' = None
    /\ call' = [call EXCEPT !.fresh = FALSE]
    /\ UNCHANGED <<kind, records, history>>

\* The last pod releases the claim.
ClaimReleased ==
  /\ ending
  /\ data' = Absent /\ ending' = FALSE
  /\ cache' = [cache EXCEPT !.fresh = FALSE]
  /\ call' = [call EXCEPT !.fresh = FALSE]
  /\ restored' = None
  /\ UNCHANGED <<kind, records, byUser, history>>

Sync ==
  /\ cache' = [data |-> data, fresh |-> TRUE]
  /\ UNCHANGED <<kind, data, ending, call, records, byUser, restored, history>>

\* The operator stops and starts again: the maps are empty.
Restart ==
  /\ call' = Idle
  /\ records' = [exp \in Exps |-> None]
  /\ lost' = [exp \in Exps |-> lost[exp] \/ (kind.keeps # "nothing" /\ owes[exp])]
  /\ UNCHANGED <<kind, resource, owes, before, raced, nested>>

Next ==
  \/ ExecuteReads \/ ExecuteWrites \/ ExecuteFails
  \/ RollbackSkips \/ RollbackReads \/ RollbackWrites \/ RollbackFinds \/ RollbackFails
  \/ UserWrites \/ ClaimReleased \/ Sync \/ Restart

Spec == Init /\ [][Next]_vars
-----------------------------------------------------------------------------
(* Properties.                                                             *)

\* Every variable has its type; only a claim waits for its deletion, and what is
\* kept is something that Execute can have read.
TypeOK ==
  /\ kind \in Kinds
  /\ data \in Contents /\ ending \in BOOLEAN
  /\ ending => kind.undo = "recreate" /\ data # Absent
  /\ cache \in [data: Contents, fresh: BOOLEAN]
  /\ call \in [op: {"idle", "execute", "rollback"}, exp: Exps \cup {None},
               copy: (Contents \ {Absent}) \cup {None}, seen: Contents \cup {None},
               fresh: BOOLEAN]
  /\ call.op # "idle" => call.exp \in Exps /\ call.copy # None
  /\ records \in [Exps -> (Contents \ {Absent}) \cup {None}]
  /\ byUser \in BOOLEAN /\ nested \in BOOLEAN /\ restored \in Exps \cup {None}
  /\ owes \in [Exps -> BOOLEAN] /\ lost \in [Exps -> BOOLEAN] /\ raced \in [Exps -> BOOLEAN]
  /\ before \in [Exps -> Contents \cup {None}]

\* The fault is in place, or will be once the claim is released.
Faulty == ~byUser /\ (data = Fault \/ ending)

\* A fault is in place only while some experiment has yet to roll it back or has
\* lost its record of it, to a restart or with an error, however experiments on
\* one resource overlap, are executed again, and users write in between.  The
\* executors without a record lose none.  Not so for those whose Rollback does
\* nothing, drops its errors or takes a claim that is there for restored; and
\* where Execute does not refuse a resource that has the fault, a copy of the
\* fault may be kept and put back.
FaultIsOwed ==
  /\ Faulty
  /\ kind.reports /\ kind.undo \notin {"recreate", "nothing"}
  /\ nested => kind.refuses
  => \E exp \in Exps : owes[exp] \/ lost[exp]

\* "The pre-fault state is snapshotted so Rollback restores it": where the last
\* Execute replaced what a user had put there, its Rollback puts that back, although
\* Execute reads a cache and users write.  Where the write of the fault does not
\* need the current version, this needs that nobody wrote between its read and its
\* write.  An Execute that replaced a fault is left to RollbackReverses.
RestoresBefore ==
  \A exp \in Exps :
    /\ restored = exp /\ kind.keeps = "copy"
    /\ before[exp] \in Values
    /\ kind.writes = "update" \/ ~raced[exp]
    => data = before[exp]

\* "Rollback reverses the chaos action, restoring the target to its original
\* state": for the executors that keep a copy, once every Rollback that had its
\* record has returned nil no fault is in place, and no claim is on its way out.
RollbackReverses ==
  kind.keeps = "copy" /\ Faulty => \E exp \in Exps : owes[exp] \/ lost[exp]
=============================================================================
