------------------------------ MODULE MCWorkflow ------------------------------
(* Small workflows for TLC: three templates of every type, in a chain, in a  *)
(* join, or side by side under a parallel.                                   *)
EXTENDS Workflow

CONSTANTS MCStrategies, MCTypes

Names == {"a", "b", "c"}

Chain == [t \in Names |-> CASE t = "a" -> {} [] t = "b" -> {"a"} [] t = "c" -> {"b"}]
Join == [t \in Names |-> IF t = "c" THEN {"a", "b"} ELSE {}]
Loose == [t \in Names |-> {}]
Cycle == [Chain EXCEPT !["a"] = {"c"}]

\* The templates named in a parallel, and a name that no template has.
Subs == [t \in Names |-> IF t = "a" THEN {"b", "c"} ELSE {"a"}]
Misnamed == [t \in Names |-> {"b", "unknown"}]

\* One experiment, one condition, one parallel and two suspends at most.
\* A malformed template fails when it starts, whatever its type, and nothing starts
\* in a cycle.  What is retried is an experiment that fails, in a chain or a join.
AllWorkflows ==
  {w \in [type: [Names -> MCTypes], deps: {Chain, Join, Loose, Cycle},
          subs: {Subs, Misnamed}, malformed: {{}, {"b"}}, timed: {{}, {"c"}},
          strategy: MCStrategies] :
     /\ w.malformed # {} => w.type["b"] = "delay" /\ w.deps = Chain
     /\ w.deps = Loose => w.type["a"] = "parallel"
     /\ w.subs = Misnamed => w.deps = Loose
     /\ w.deps = Cycle => \A t \in Names : w.type[t] = w.type["a"]
     /\ w.strategy = "retry" => w.malformed = {} /\ w.deps # Loose
     /\ w.timed = {} <=> w.type["c"] # "suspend"
     /\ \A k \in {"experiment", "condition", "parallel"} :
          Cardinality({t \in Names : w.type[t] = k}) <= 1
     /\ Cardinality({t \in Names : w.type[t] = "suspend"}) <= 2}
=============================================================================
