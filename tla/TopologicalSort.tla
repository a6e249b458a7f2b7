---------------------------- MODULE TopologicalSort ----------------------------
(***************************************************************************)
(* buildDAG and TopologicalSort of the workflow controller: Kahn's         *)
(* algorithm on a list of templates in which names may be repeated and     *)
(* dependencies may be unknown or listed twice.  One step per iteration of *)
(* the inner loop, the one over the dependents of the node taken.          *)
(***************************************************************************)
EXTENDS Naturals, Sequences, FiniteSets, Functions, WorkflowDAG

CONSTANT Inputs    \* the lists of templates considered

TemplateLists == Seq([name: STRING, deps: Seq(STRING)])

ASSUME InputsAssumption == Inputs \subseteq TemplateLists

VARIABLES
  templates,   \* the argument
  inDegree,    \* of each node
  queue,       \* the nodes found ready
  todo,        \* the dependents of the node taken that are not yet visited, each as
               \* the entry that names the node
  order,       \* the result so far
  result       \* "running", then "ok", "unknown" or "cycle"

sortVars == <<templates, inDegree, queue, todo, order, result>>

Nodes == {templates[i].name : i \in DOMAIN templates}

\* Every dependency entry, as a pair of positions.
Entries == UNION {{i} \X DOMAIN templates[i].deps : i \in DOMAIN templates}
Waits(e) == templates[e[1]].name
On(e) == templates[e[1]].deps[e[2]]

\* buildDAG, and the initial queue, which is filled in map order.
SortInit ==
  /\ templates \in Inputs
  /\ inDegree = [n \in Nodes |-> Cardinality({e \in Entries : Waits(e) = n})]
  /\ todo = {}
  /\ order = <<>>
  /\ IF \A e \in Entries : On(e) \in Nodes
     THEN /\ LET ready == {n \in Nodes : inDegree[n] = 0}
             IN queue \in Injection(1..Cardinality(ready), ready)
          /\ result = "running"
     ELSE queue = <<>> /\ result = "unknown"

\* Faulty variant: the head of the queue is read and not removed.
TakeNodePeek ==
  /\ result = "running" /\ todo = {} /\ queue # <<>>
  /\ order' = <<Head(queue)>>
  /\ todo' = {e \in Entries : On(e) = Head(queue)}
  /\ UNCHANGED <<templates, inDegree, queue, result>>

\* Its dependents are one for each entry that names it.
TakeNode ==
  /\ result = "running" /\ todo = {} /\ queue # <<>>
  /\ queue' = Tail(queue)
  /\ order' = Append(order, Head(queue))
  /\ todo' = {e \in Entries : On(e) = Head(queue)}
  /\ UNCHANGED <<templates, inDegree, result>>

\* Dependents are listed in the order of the templates and of their entries.
NextDependent(e) ==
  e \in todo /\ \A f \in todo : e[1] < f[1] \/ (e[1] = f[1] /\ e[2] <= f[2])

\* Faulty variant: a dependent is queued when its first dependency is met.
VisitDependentEager ==
  /\ result = "running"
  /\ \E e \in todo :
       /\ NextDependent(e)
       /\ inDegree' = [inDegree EXCEPT ![Waits(e)] = @ - 1]
       /\ queue' = Append(queue, Waits(e))
       /\ todo' = todo \ {e}
  /\ UNCHANGED <<templates, order, result>>

VisitDependent ==
  /\ result = "running"
  /\ \E e \in todo :
       /\ NextDependent(e)
       /\ inDegree' = [inDegree EXCEPT ![Waits(e)] = @ - 1]
       /\ queue' = IF inDegree[Waits(e)] = 1 THEN Append(queue, Waits(e)) ELSE queue
       /\ todo' = todo \ {e}
  /\ UNCHANGED <<templates, order, result>>

\* Faulty variant: what was not reached is counted against the nodes.
ReturnIfReached ==
  /\ result = "running" /\ todo = {} /\ queue = <<>>
  /\ result' = IF Len(order) # Cardinality(Nodes) THEN "cycle" ELSE "ok"
  /\ UNCHANGED <<templates, inDegree, queue, todo, order>>

Return ==
  /\ result = "running" /\ todo = {} /\ queue = <<>>
  /\ result' = IF Len(order) # Len(templates) THEN "cycle" ELSE "ok"
  /\ UNCHANGED <<templates, inDegree, queue, todo, order>>

SortNext == TakeNode \/ VisitDependent \/ Return

SortSpec == SortInit /\ [][SortNext]_sortVars /\ WF_sortVars(SortNext)
-----------------------------------------------------------------------------
\* The dependencies of a node, from all the templates of its name.
Deps == [n \in Nodes |-> {On(e) : e \in {f \in Entries : Waits(f) = n}}]

\* TopologicalSort accepts a list just when the names are distinct and known
\* and some order of the templates meets every dependency.
AcceptsSortable ==
  result \in {"ok", "cycle"} =>
    (result = "ok" <=> Cardinality(Nodes) = Len(templates) /\ Sortable(Nodes, Deps))

\* The order returned, and every prefix of it on the way, has each template once
\* and after all it depends on.
OrderRespectsDependencies ==
  /\ IsInjective(order)
  /\ \A k \in DOMAIN order : Deps[order[k]] \subseteq {order[l] : l \in 1..(k - 1)}

\* The sort ends for every list, cyclic or not.
SortEnds == <>(result # "running")
=============================================================================
