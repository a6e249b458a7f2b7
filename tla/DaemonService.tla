----------------------------- MODULE DaemonService -----------------------------
(***************************************************************************)
(* What the chaos daemons promise to the executors that call them.  Module *)
(* Daemon implements it from inside one daemon; module DaemonExecutor,     *)
(* which sees the daemons from outside, assumes no other behaviour.        *)
(***************************************************************************)
EXTENDS Naturals

CONSTANT Ids   \* the executions

VARIABLES
  stage,    \* how far each execution is
  runs,     \* what it runs, once its call is over
  restarts  \* how often a daemon has started again

vars == <<stage, runs, restarts>>

\* new: its call is not over.  held: CancelChaos will find it, and it is in effect
\* unless it has ended by itself or was cut short.  lost: CancelChaos will not find it, although
\* something of it may be in effect.  gone: it is neither found nor in effect.
Stages == {"new", "held", "lost", "gone"}

\* Qdiscs and iptables rules, those of a node partition that names no interface,
\* an eBPF program, a stress-ng.
Kinds == {"rules", "unscoped", "ebpf", "stress"}

Init ==
  /\ stage = [id \in Ids |-> "new"]
  /\ runs = [id \in Ids |-> "none"]
  /\ restarts = 0

\* A call ends with an execution that is held, or with an error, after which an
\* eBPF program is not in effect and anything else may be.
End ==
  \E id \in Ids, what \in Kinds, out \in {"held", "lost", "gone"} :
    /\ stage[id] = "new"
    /\ what = "ebpf" => out # "lost"
    /\ stage' = [stage EXCEPT ![id] = out]
    /\ runs' = [runs EXCEPT ![id] = what]
    /\ UNCHANGED restarts

\* CancelChaos takes one execution that is held out of the store, and no other.
\* A program is gone.  An undo command may fail and a stress-ng take its time, which
\* the reply does not tell, and the rules that name no interface stay.
Cancel ==
  \E id \in Ids, out \in {"lost", "gone"} :
    /\ stage[id] = "held"
    /\ runs[id] = "ebpf" => out = "gone"
    /\ runs[id] = "unscoped" => out = "lost"
    /\ stage' = [stage EXCEPT ![id] = out]
    /\ UNCHANGED <<runs, restarts>>

\* A stress-ng that was lost reaches its timeout, or ends on the signal of its own
\* or of another cancellation.
Expires(id) == stage[id] = "lost" /\ runs[id] = "stress"
Expire ==
  \E ids \in SUBSET {id \in Ids : Expires(id)} :
    /\ stage' = [id \in Ids |-> IF id \in ids THEN "gone" ELSE stage[id]]
    /\ UNCHANGED <<runs, restarts>>

\* What a restart makes of an execution: eBPF links close, rules stay, stress-ng
\* may end.  A call in progress may have done any part of its work.
Left(id, what) ==
  IF stage[id] = "held" THEN CASE what = "ebpf" -> {"gone"}
                               [] what = "stress" -> {"lost", "gone"}
                               [] OTHER -> {"lost"}
  ELSE IF stage[id] = "new" THEN IF what = "ebpf" THEN {"gone"} ELSE {"lost", "gone"}
  ELSE IF Expires(id) THEN {"lost", "gone"} ELSE {stage[id]}

\* Daemons stop and start again, those that the executions ids were sent to.
Restart ==
  \E ids \in SUBSET Ids :
    /\ restarts' = restarts + 1
    /\ runs' \in [Ids -> Kinds \cup {"none"}]
    /\ stage' \in [Ids -> Stages]
    /\ \A id \in Ids :
         IF id \in ids
         THEN /\ stage[id] = "new" => runs'[id] \in Kinds
              /\ stage[id] # "new" => runs'[id] = runs[id]
              /\ stage'[id] \in Left(id, runs'[id])
         ELSE stage'[id] = stage[id] /\ runs'[id] = runs[id]

Next == End \/ Cancel \/ Expire \/ Restart

Spec == Init /\ [][Next]_vars
=============================================================================
