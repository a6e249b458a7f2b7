----------------------------- MODULE DaemonProofs -----------------------------
(***************************************************************************)
(* Proofs about Daemon, for any number of executions and any requests.     *)
(*                                                                         *)
(* A count of the executions that hold a rule is an invariant only with    *)
(* what a handler knows at each point: that a stored execution has run all *)
(* of its commands, and that a cancellation deletes from its execution     *)
(* only, in the order in which the commands ran, unless it is that of a    *)
(* node stress.  That the holders of a rule are finitely many is carried   *)
(* along: each step adds at most one.                                      *)
(***************************************************************************)
EXTENDS Daemon, FiniteSetTheorems, TLAPS

\* What is known of an execution at each point of its two handlers.
Progress(id) ==
  /\ calls[id].pc = "none" => calls[id] = NoCall
  /\ calls[id].pc # "none" => calls[id].req \in Executed
  /\ calls[id].pc # "applied" => id \notin store /\ cancels[id] = NoCancel
  /\ calls[id].pc = "applied" => calls[id].k >= Len(Commands(calls[id].req))
  /\ calls[id].pc = "applying" /\ calls[id].req.rpc = "ebpf" => calls[id].k = 0
  /\ cancels[id].pc \in {"undoing", "undone"} => id \in store
  /\ id \in store => cancels[id].pc \in {"none", "undoing", "undone"}
  /\ cancels[id].pc = "none" => cancels[id].k = 0
  /\ cancels[id].pc = "undone" => cancels[id].k = Len(UndoCommands(calls[id].req))

Counted(f) ==
  /\ IsFiniteSet(Holders(f))
  /\ Struck(f) \/ host[f] >= Cardinality(Holders(f))

IInv ==
  /\ TypeOK
  /\ \A id \in Ids : Progress(id)
  /\ \A f \in Facts : Counted(f)
-----------------------------------------------------------------------------
\* The commands of a request that is executed add facts.
LEMMA CommandsAreFacts ==
  ASSUME NEW req \in Executed, NEW j \in DOMAIN Commands(req)
  PROVE  Commands(req)[j] \in Facts
BY DEF Facts

IsSequence(s) == Len(s) \in Nat /\ DOMAIN s = 1..Len(s)

\* The tuples that the command lists are written as are sequences.
LEMMA Tuples ==
  ASSUME NEW a, NEW b
  PROVE  IsSequence(<<>>) /\ IsSequence(<<a>>) /\ IsSequence(<<a, b>>)
BY DEF IsSequence

\* A request that is executed is a request, as it came or fallen back to netem.
LEMMA ExecutedType ==
  ASSUME NEW req \in Executed
  PROVE  req \in RequestType
<1>1. CASE req \in Requests
  BY <1>1, DaemonAssumption
<1>2. ASSUME NEW r \in Requests, req = [r EXCEPT !.rpc = "netem"]
      PROVE  req \in RequestType
  <2>1. r \in RequestType
    BY DaemonAssumption
  <2> QED BY <1>2, <2>1 DEF RequestType, Rpcs
<1> QED BY <1>1, <1>2 DEF Executed

\* The commands of a request are a sequence.
LEMMA CommandsType ==
  ASSUME NEW req \in Executed
  PROVE  IsSequence(Commands(req))
<1>1. req \in RequestType
  BY ExecutedType
<1>2. req.args \in Seq(Args)
  BY <1>1 DEF RequestType
<1>3. IsSequence(DnsRules(Or(req.iface, "host"), req.args))
  <2>1. Len(req.args) \in Nat
    BY <1>2
  <2> DEFINE n == 2 * Len(req.args)
             r(k) == Rule(Or(req.iface, "host"), IF k % 2 = 1 THEN "udp" ELSE "tcp",
                          req.args[(k + 1) \div 2])
             T == {r(k) : k \in 1..n}
  <2>2. DnsRules(Or(req.iface, "host"), req.args) = [k \in 1..n |-> r(k)]
    BY DEF DnsRules
  <2>3. n \in Nat
    BY <2>1
  <2> HIDE DEF n, r
  <2>4. [k \in 1..n |-> r(k)] \in [1..n -> T]
    OBVIOUS
  <2> HIDE DEF T
  <2>5. [k \in 1..n |-> r(k)] \in Seq(T)
    BY <2>3, <2>4
  <2> QED BY <2>2, <2>5 DEF IsSequence
<1>4. IsSequence(PartitionRules(Or(req.iface, "eth0"), req.dir, req.args[1]))
  BY Tuples DEF PartitionRules
<1> QED BY <1>3, <1>4, Tuples DEF Commands, NodeRules

\* So are its undo commands, and they are its commands unless it is a node request
\* that has rules to delete which it did not add, or the other way round.
LEMMA UndoCommandsType ==
  ASSUME NEW req \in Executed
  PROVE  /\ IsSequence(UndoCommands(req))
         /\ \A j \in DOMAIN UndoCommands(req) : UndoCommands(req)[j] \in Facts
         /\ req.rpc # "node-stress" /\ ~Unnamed(req) => UndoCommands(req) = Commands(req)
<1>1. IsSequence(UndoCommands(req))
  BY CommandsType, Tuples DEF UndoCommands, NodeUndo, NodeRules
<1>2. \A j \in DOMAIN UndoCommands(req) : UndoCommands(req)[j] \in Facts
  BY DEF Facts
<1>3. ASSUME req.rpc # "node-stress", ~Unnamed(req)
      PROVE  UndoCommands(req) = Commands(req)
  BY <1>3 DEF UndoCommands, NodeUndo, OfNode, Unnamed, Commands, Or
<1> QED BY <1>1, <1>2, <1>3
-----------------------------------------------------------------------------
(* How a step changes who holds a fact.                                    *)

Keeps(f) == Holders(f)' \subseteq Holders(f) /\ host'[f] = host[f]

Gains(f) ==
  \E x : x \notin Holders(f) /\ Holders(f)' = Holders(f) \cup {x} /\ host'[f] = host[f] + 1

Loses(f) ==
  \E x \in Holders(f) : Holders(f)' = Holders(f) \ {x} /\ host'[f] = host[f] - 1

Strikes(f) == Holders(f)' = Holders(f) /\ Struck(f)'

\* When no execution comes to hold more of a fact, its holders are a subset.
LEMMA HoldersKept ==
  ASSUME NEW f, \A id \in Ids : Holds(id, f)' \subseteq Holds(id, f)
  PROVE  Holders(f)' \subseteq Holders(f)
BY DEF Holders

\* When one execution comes to hold a command more, so does the set of holders.
LEMMA HoldersGained ==
  ASSUME NEW f, NEW i \in Ids, NEW j,
         \A id \in Ids \ {i} : Holds(id, f)' = Holds(id, f),
         j \notin Holds(i, f), Holds(i, f)' = Holds(i, f) \cup {j}
  PROVE  <<i, j>> \notin Holders(f) /\ Holders(f)' = Holders(f) \cup {<<i, j>>}
BY DEF Holders

\* The same for a command less.
LEMMA HoldersLost ==
  ASSUME NEW f, NEW i \in Ids, NEW j,
         \A id \in Ids \ {i} : Holds(id, f)' = Holds(id, f),
         j \in Holds(i, f), Holds(i, f)' = Holds(i, f) \ {j}
  PROVE  <<i, j>> \in Holders(f) /\ Holders(f)' = Holders(f) \ {<<i, j>>}
BY DEF Holders

\* Each of the four changes preserves the count.
LEMMA CountedNext ==
  ASSUME NEW f, host[f] \in Nat, Counted(f), Struck(f) => Struck(f)',
         Keeps(f) \/ Gains(f) \/ Loses(f) \/ Strikes(f)
  PROVE  Counted(f)'
<1>1. Cardinality(Holders(f)) \in Nat
  BY FS_CardinalityType DEF Counted
<1>2. CASE Keeps(f)
  <2>1. IsFiniteSet(Holders(f)') /\ Cardinality(Holders(f)') <= Cardinality(Holders(f))
    BY <1>2, FS_Subset DEF Keeps, Counted
  <2>2. Cardinality(Holders(f)') \in Nat
    BY <2>1, FS_CardinalityType
  <2> QED BY <1>1, <1>2, <2>1, <2>2 DEF Keeps, Counted
<1>3. CASE Gains(f)
  <2>1. PICK x : x \notin Holders(f) /\ Holders(f)' = Holders(f) \cup {x} /\ host'[f] = host[f] + 1
    BY <1>3 DEF Gains
  <2>2. IsFiniteSet(Holders(f)') /\ Cardinality(Holders(f)') = Cardinality(Holders(f)) + 1
    BY <2>1, FS_AddElement DEF Counted
  <2> QED BY <1>1, <2>1, <2>2 DEF Counted
<1>4. CASE Loses(f)
  <2>1. PICK x \in Holders(f) : Holders(f)' = Holders(f) \ {x} /\ host'[f] = host[f] - 1
    BY <1>4 DEF Loses
  <2>2. IsFiniteSet(Holders(f)') /\ Cardinality(Holders(f)') = Cardinality(Holders(f)) - 1
    BY <2>1, FS_RemoveElement DEF Counted
  <2> QED BY <1>1, <2>1, <2>2 DEF Counted
<1>5. CASE Strikes(f)
  BY <1>5 DEF Strikes, Counted
<1> QED BY <1>2, <1>3, <1>4, <1>5
-----------------------------------------------------------------------------
(* The types, and what the handlers know.                                  *)

\* A fallback is one of the requests that are executed.
LEMMA FallbackIsExecuted ==
  ASSUME NEW req \in Executed
  PROVE  [req EXCEPT !.rpc = "netem"] \in Executed
<1>1. CASE req \in Requests
  BY <1>1 DEF Executed
<1>2. ASSUME NEW r \in Requests, req = [r EXCEPT !.rpc = "netem"]
      PROVE  [req EXCEPT !.rpc = "netem"] \in Executed
  <2>1. r \in RequestType
    BY DaemonAssumption
  <2>2. [req EXCEPT !.rpc = "netem"] = req
    BY <1>2, <2>1 DEF RequestType
  <2> QED BY <2>2
<1> QED BY <1>1, <1>2 DEF Executed

\* The records of a call and of a cancellation with one field updated.
LEMMA CallUpdates ==
  ASSUME NEW c \in CallType
  PROVE  /\ [c EXCEPT !.k = @ + 1] \in CallType
         /\ [c EXCEPT !.k = 1] \in CallType
         /\ \A pc \in {"applied", "failed"} : [c EXCEPT !.pc = pc] \in CallType
         /\ c.req \in Executed => [c EXCEPT !.req.rpc = "netem"] \in CallType
<1>1. c.req \in Executed => [c.req EXCEPT !.rpc = "netem"] \in Executed
  BY FallbackIsExecuted
<1>2. c.req \in Executed => [c EXCEPT !.req.rpc = "netem"] \in CallType
  BY <1>1 DEF CallType
<1> QED BY <1>2 DEF CallType

\* The next command of a call that is being applied adds a fact.
LEMMA CommandInFacts ==
  ASSUME IInv, NEW id \in Ids, calls[id].pc = "applying",
         calls[id].k < Len(Commands(calls[id].req))
  PROVE  /\ calls[id].k + 1 \in DOMAIN Commands(calls[id].req)
         /\ Commands(calls[id].req)[calls[id].k + 1] \in Facts
<1>1. calls[id].req \in Executed /\ calls[id].k \in Nat
  BY DEF IInv, TypeOK, Progress, CallType
<1>2. calls[id].k + 1 \in DOMAIN Commands(calls[id].req)
  BY <1>1, CommandsType DEF IsSequence
<1> QED BY <1>1, <1>2, CommandsAreFacts

\* The next undo command of a cancellation deletes a fact.
LEMMA UndoInFacts ==
  ASSUME IInv, NEW id \in Ids, cancels[id].pc = "undoing",
         cancels[id].k < Len(UndoCommands(calls[id].req))
  PROVE  /\ calls[id].pc = "applied" /\ calls[id].req \in Executed
         /\ cancels[id].k + 1 \in DOMAIN UndoCommands(calls[id].req)
         /\ UndoCommands(calls[id].req)[cancels[id].k + 1] \in Facts
<1>1. calls[id].pc = "applied" /\ calls[id].req \in Executed /\ cancels[id].k \in Nat
  BY DEF IInv, TypeOK, Progress, CallType, CancelType
<1>2. cancels[id].k + 1 \in DOMAIN UndoCommands(calls[id].req)
  BY <1>1, UndoCommandsType DEF IsSequence
<1> QED BY <1>1, <1>2, UndoCommandsType

\* What an undo command changes: the fact is deleted, or it fails.
UndoEffect(i, f) ==
  /\ cancels[i].pc = "undoing"
  /\ cancels[i].k < Len(UndoCommands(calls[i].req))
  /\ f = UndoCommands(calls[i].req)[cancels[i].k + 1]
  /\ \/ /\ host[f] > 0 /\ host' = [host EXCEPT ![f] = @ - 1]
        /\ clean' = (clean /\ calls[i].req.rpc # "node-stress")
     \/ host' = host /\ clean' = (clean /\ host[f] = 0)
  /\ \A id \in Ids \ {i} : cancels'[id] = cancels[id]
  /\ cancels'[i].pc = "undoing" /\ cancels'[i].k = cancels[i].k + 1
  /\ cancels' \in [Ids -> CancelType]
  /\ UNCHANGED <<calls, store, programs, stress, restarts>>

\* The step of an undo command.
LEMMA UndoStep ==
  ASSUME IInv, UndoCommand
  PROVE  \E i \in Ids, f \in Facts : UndoEffect(i, f)
<1>1. PICK i \in Ids :
        /\ cancels[i].pc = "undoing"
        /\ cancels[i].k < Len(UndoCommands(calls[i].req))
        /\ LET f == UndoCommands(calls[i].req)[cancels[i].k + 1]
           IN \/ /\ host[f] > 0
                 /\ host' = [host EXCEPT ![f] = @ - 1]
                 /\ cancels' = [cancels EXCEPT ![i].k = @ + 1]
                 /\ clean' = (clean /\ calls[i].req.rpc # "node-stress")
              \/ /\ cancels' = [cancels EXCEPT ![i].k = @ + 1, ![i].missed = @ \/ host[f] > 0]
                 /\ clean' = (clean /\ host[f] = 0)
                 /\ UNCHANGED host
        /\ UNCHANGED <<calls, store, programs, stress, restarts>>
  BY DEF UndoCommand
<1>2. PICK f \in Facts : f = UndoCommands(calls[i].req)[cancels[i].k + 1]
  BY <1>1, UndoInFacts
<1>3. cancels \in [Ids -> CancelType]
  BY DEF IInv, TypeOK
<1>4. PICK b \in BOOLEAN : b = (cancels[i].missed \/ host[f] > 0)
  OBVIOUS
<1>5. /\ \A id \in Ids \ {i} : cancels'[id] = cancels[id]
      /\ cancels'[i].pc = "undoing" /\ cancels'[i].k = cancels[i].k + 1
      /\ cancels' \in [Ids -> CancelType]
  <2>1. CASE cancels' = [cancels EXCEPT ![i].k = @ + 1]
    BY <1>1, <1>3, <2>1 DEF CancelType
  <2>2. CASE cancels' = [cancels EXCEPT ![i].k = @ + 1, ![i].missed = @ \/ host[f] > 0]
    <3>1. cancels'[i] = [pc |-> cancels[i].pc, k |-> cancels[i].k + 1, missed |-> b]
      BY <1>3, <1>4, <2>2 DEF CancelType
    <3>2. \A id \in Ids \ {i} : cancels'[id] = cancels[id]
      BY <1>3, <2>2
    <3>3. cancels'[i] \in CancelType
      BY <1>3, <3>1 DEF CancelType
    <3>4. cancels' \in [Ids -> CancelType]
      BY <1>3, <2>2, <3>2, <3>3
    <3> QED BY <1>1, <3>1, <3>2, <3>4
  <2> QED BY <1>1, <1>2, <2>1, <2>2
<1>6. UndoEffect(i, f)
  BY <1>1, <1>2, <1>5 DEF UndoEffect
<1> QED BY <1>6

\* Every step preserves the types.
LEMMA TypeNext ==
  ASSUME IInv, [Next]_vars
  PROVE  TypeOK'
<1> USE DEF IInv, TypeOK
<1>0. clean' \in BOOLEAN
  BY DEF Next, vars, Call, Command, CommandFails, LoadTCDrop, StressNGStart, StoreAdd,
         CancelGet, UndoCommand, UndoRest, StoreRemove, StressEnds, Restart
<1>1. CASE Call
  BY <1>1 DEF Call, Executed, CallType
<1>2. CASE Command
  <2>1. PICK id \in Ids :
          /\ calls[id].pc = "applying" /\ calls[id].k < Len(Commands(calls[id].req))
          /\ host' = [host EXCEPT ![Commands(calls[id].req)[calls[id].k + 1]] = @ + 1]
          /\ calls' = [calls EXCEPT ![id].k = @ + 1]
          /\ UNCHANGED <<store, cancels, programs, stress, restarts>>
    BY <1>2 DEF Command
  <2>2. calls' \in [Ids -> CallType]
    BY <2>1, CallUpdates
  <2>3. Commands(calls[id].req)[calls[id].k + 1] \in Facts
    BY <2>1, CommandInFacts
  <2>4. ASSUME NEW f \in Facts PROVE [host EXCEPT ![f] = @ + 1] \in [Facts -> Nat]
    OBVIOUS
  <2> QED BY <1>0, <2>1, <2>2, <2>3, <2>4
<1>3. CASE CommandFails
  <2>1. PICK id \in Ids :
          /\ calls' = [calls EXCEPT ![id].pc = "failed"]
          /\ UNCHANGED <<store, cancels, host, programs, stress, restarts>>
    BY <1>3 DEF CommandFails
  <2>2. calls' \in [Ids -> CallType]
    BY <2>1, CallUpdates
  <2> QED BY <1>0, <2>1, <2>2
<1>4. CASE LoadTCDrop
  <2>1. PICK id \in Ids :
          /\ calls[id].pc = "applying"
          /\ \/ programs' = programs \cup {id} /\ UNCHANGED calls
             \/ calls' = [calls EXCEPT ![id].req.rpc = "netem"] /\ UNCHANGED programs
          /\ UNCHANGED <<store, cancels, host, stress, restarts>>
    BY <1>4 DEF LoadTCDrop
  <2>2. calls[id].req \in Executed
    BY <2>1 DEF Progress
  <2>3. [calls[id] EXCEPT !.req.rpc = "netem"] \in CallType
    BY <2>2, CallUpdates
  <2>4. calls' \in [Ids -> CallType]
    BY <2>1, <2>3
  <2> QED BY <1>0, <2>1, <2>4
<1>5. CASE StressNGStart
  <2>1. PICK id \in Ids :
          /\ \/ /\ stress' = stress \cup {id}
                /\ calls' = [calls EXCEPT ![id].k = 1]
             \/ /\ calls' = [calls EXCEPT ![id].pc = "failed"]
                /\ UNCHANGED stress
          /\ UNCHANGED <<store, cancels, host, programs, restarts>>
    BY <1>5 DEF StressNGStart
  <2>2. [calls[id] EXCEPT !.k = 1] \in CallType /\ [calls[id] EXCEPT !.pc = "failed"] \in CallType
    BY CallUpdates
  <2>3. calls' \in [Ids -> CallType]
    BY <2>1, <2>2
  <2> QED BY <1>0, <2>1, <2>3
<1>6. CASE StoreAdd
  <2>1. PICK id \in Ids :
          /\ store' = store \cup {id}
          /\ calls' = [calls EXCEPT ![id].pc = "applied"]
          /\ UNCHANGED <<cancels, host, programs, stress, restarts>>
    BY <1>6 DEF StoreAdd
  <2>2. [calls[id] EXCEPT !.pc = "applied"] \in CallType
    BY CallUpdates
  <2>3. calls' \in [Ids -> CallType]
    BY <2>1, <2>2
  <2> QED BY <1>0, <2>1, <2>3
<1>7. CASE CancelGet
  BY <1>7 DEF CancelGet, CancelType
<1>8. CASE UndoCommand
  <2>1. PICK id \in Ids, f \in Facts : UndoEffect(id, f)
    BY <1>8, UndoStep
  <2> QED BY <1>0, <2>1 DEF UndoEffect
<1>9. CASE UndoRest
  <2>1. PICK id \in Ids :
          /\ programs' = programs \ {id}
          /\ stress' \in IF StopsStress(calls[id].req) THEN SUBSET stress ELSE {stress}
          /\ cancels' = [cancels EXCEPT ![id].pc = "undone"]
          /\ UNCHANGED <<calls, store, host, clean, restarts>>
    BY <1>9 DEF UndoRest
  <2>2. stress' \subseteq Ids
    BY <1>0, <2>1
  <2> QED BY <1>0, <2>1, <2>2 DEF CancelType
<1>10. CASE StoreRemove
  BY <1>10 DEF StoreRemove, CancelType
<1>11. CASE StressEnds
  BY <1>11 DEF StressEnds
<1>12. CASE Restart
  <2>1. calls' \in [Ids -> CallType]
    BY <1>12, CallUpdates DEF Restart
  <2>2. cancels' \in [Ids -> CancelType]
    BY <1>12 DEF Restart, CancelType
  <2> QED BY <1>0, <1>12, <2>1, <2>2, DaemonAssumption DEF Restart
<1>13. CASE UNCHANGED vars
  BY <1>13 DEF vars
<1> QED BY <1>1, <1>2, <1>3, <1>4, <1>5, <1>6, <1>7, <1>8, <1>9, <1>10, <1>11, <1>12, <1>13
        DEF Next

\* Every step preserves what is known of an execution.
LEMMA ProgressNext ==
  ASSUME IInv, [Next]_vars, NEW i \in Ids
  PROVE  Progress(i)'
<1>0. /\ calls \in [Ids -> CallType] /\ cancels \in [Ids -> CancelType] /\ store \subseteq Ids
      /\ Progress(i)
  BY DEF IInv, TypeOK
<1> USE DEF Progress
<1>1. CASE Call
  BY <1>0, <1>1 DEF Call, Executed, NoCall
<1>2. CASE Command
  <2>1. PICK id \in Ids :
          /\ calls[id].pc = "applying" /\ calls[id].k < Len(Commands(calls[id].req))
          /\ calls' = [calls EXCEPT ![id].k = @ + 1]
          /\ UNCHANGED <<store, cancels>>
    BY <1>2 DEF Command
  <2>2. calls[id].req.rpc # "ebpf"
    BY <1>0, <2>1 DEF IInv, Commands, CallType
  <2>3. CASE i # id
    BY <1>0, <2>1, <2>3
  <2>4. CASE i = id
    BY <1>0, <2>1, <2>2, <2>4 DEF CallType
  <2> QED BY <2>3, <2>4
<1>3. CASE CommandFails
  BY <1>0, <1>3 DEF CommandFails, CallType
<1>4. CASE LoadTCDrop
  <2>1. PICK id \in Ids :
          /\ calls[id].pc = "applying"
          /\ \/ UNCHANGED calls
             \/ calls' = [calls EXCEPT ![id].req.rpc = "netem"]
          /\ UNCHANGED <<store, cancels>>
    BY <1>4 DEF LoadTCDrop
  <2>2. [calls[id].req EXCEPT !.rpc = "netem"] \in Executed
    BY <2>1, FallbackIsExecuted DEF IInv
  <2>3. CASE calls' = calls
    BY <1>0, <2>1, <2>3
  <2>4. CASE i # id
    BY <1>0, <2>1, <2>4
  <2>5. CASE i = id /\ calls' = [calls EXCEPT ![id].req.rpc = "netem"]
    <3>1. /\ calls'[id].pc = "applying"
          /\ calls'[id].req = [calls[id].req EXCEPT !.rpc = "netem"]
      BY <1>0, <2>1, <2>5 DEF CallType
    <3>2. calls[id].req \in RequestType
      BY <2>1, ExecutedType DEF IInv
    <3>3. calls'[id].req.rpc = "netem"
      BY <3>1, <3>2 DEF RequestType
    <3>4. id \notin store /\ cancels[id] = NoCancel
      BY <1>0, <2>1, <2>5
    <3> QED BY <2>1, <2>2, <2>5, <3>1, <3>3, <3>4 DEF NoCancel
  <2> QED BY <2>1, <2>3, <2>4, <2>5
<1>5. CASE StressNGStart
  <2>1. PICK id \in Ids :
          /\ calls[id].pc = "applying" /\ Stresses(calls[id].req)
          /\ \/ calls' = [calls EXCEPT ![id].k = 1]
             \/ calls' = [calls EXCEPT ![id].pc = "failed"]
          /\ UNCHANGED <<store, cancels>>
    BY <1>5 DEF StressNGStart
  <2>2. CASE i # id
    BY <1>0, <2>1, <2>2
  <2>3. CASE i = id
    BY <1>0, <2>1, <2>3 DEF CallType, Stresses
  <2> QED BY <2>2, <2>3
<1>6. CASE StoreAdd
  BY <1>0, <1>6 DEF StoreAdd, Applied, Stresses, Commands, NoCancel, CallType
<1>7. CASE CancelGet
  <2>1. PICK id \in Ids :
          /\ calls[id].pc = "applied" /\ cancels[id].pc = "none"
          /\ cancels' = [cancels EXCEPT ![id].pc = IF id \in store THEN "undoing" ELSE "notFound"]
          /\ UNCHANGED <<calls, store>>
    BY <1>7 DEF CancelGet
  <2>2. CASE i # id
    BY <1>0, <2>1, <2>2
  <2>3. CASE i = id
    BY <1>0, <2>1, <2>3 DEF CancelType
  <2> QED BY <2>2, <2>3
<1>8. CASE UndoCommand
  <2>1. PICK id \in Ids, f \in Facts : UndoEffect(id, f)
    BY <1>8, UndoStep
  <2> QED BY <1>0, <2>1, UndoInFacts DEF UndoEffect
<1>9. CASE UndoRest
  BY <1>0, <1>9 DEF UndoRest, CancelType
<1>10. CASE StoreRemove
  BY <1>0, <1>10 DEF StoreRemove, CancelType
<1>11. CASE StressEnds
  BY <1>0, <1>11 DEF StressEnds
<1>12. CASE Restart
  BY <1>0, <1>12 DEF Restart, NoCall, NoCancel, CallType, CancelType
<1>13. CASE UNCHANGED vars
  BY <1>0, <1>13 DEF vars
<1> QED BY <1>1, <1>2, <1>3, <1>4, <1>5, <1>6, <1>7, <1>8, <1>9, <1>10, <1>11, <1>12, <1>13
        DEF Next
-----------------------------------------------------------------------------
(* Who holds a fact after each step.                                       *)

Leaves(f) == Holders(f)' = Holders(f) /\ host'[f] = host[f]

\* A call's command makes its execution hold one fact more, on the host as well.
LEMMA CommandHolds ==
  ASSUME IInv, Command, NEW f \in Facts
  PROVE  Leaves(f) \/ Gains(f)
<1>1. PICK i \in Ids :
        /\ calls[i].pc = "applying" /\ calls[i].k < Len(Commands(calls[i].req))
        /\ host' = [host EXCEPT ![Commands(calls[i].req)[calls[i].k + 1]] = @ + 1]
        /\ calls' = [calls EXCEPT ![i].k = @ + 1]
        /\ UNCHANGED <<store, cancels>>
  BY DEF Command
<1> DEFINE j == calls[i].k + 1
           g == Commands(calls[i].req)[j]
<1>2. /\ calls \in [Ids -> CallType] /\ host \in [Facts -> Nat]
      /\ calls[i].k \in Nat /\ cancels[i].k = 0
  BY <1>1 DEF IInv, TypeOK, CallType, Progress, NoCancel
<1>3. j \in DOMAIN Commands(calls[i].req) /\ g \in Facts
  BY <1>1, CommandInFacts
<1>4. \A id \in Ids \ {i} : Holds(id, f)' = Holds(id, f)
  BY <1>1, <1>2 DEF Holds, Live
<1>5. calls'[i].pc = "applying" /\ calls'[i].req = calls[i].req /\ calls'[i].k = j
  BY <1>1, <1>2 DEF CallType
<1>6. Live(i) /\ Live(i)'
  BY <1>1, <1>5 DEF Live
<1>7. CASE f # g
  <2>1. Holds(i, f)' = Holds(i, f)
    BY <1>1, <1>2, <1>5, <1>6, <1>7 DEF Holds
  <2>2. Holders(f)' = Holders(f)
    BY <1>4, <2>1 DEF Holders
  <2>3. host'[f] = host[f]
    BY <1>1, <1>2, <1>3, <1>7
  <2> QED BY <2>2, <2>3 DEF Leaves
<1>8. CASE f = g
  <2>1. j \notin Holds(i, f)
    BY <1>2 DEF Holds
  <2>2. Holds(i, f)' = Holds(i, f) \cup {j}
    BY <1>1, <1>2, <1>3, <1>5, <1>6, <1>8 DEF Holds
  <2>3. host'[f] = host[f] + 1
    BY <1>1, <1>2, <1>3, <1>8
  <2> HIDE DEF j
  <2>4. <<i, j>> \notin Holders(f) /\ Holders(f)' = Holders(f) \cup {<<i, j>>}
    BY <1>4, <2>1, <2>2, HoldersGained
  <2> QED BY <2>3, <2>4 DEF Gains
<1> QED BY <1>7, <1>8

\* What the cancellation of a node stress has struck stays struck: its request does
\* not change any more, and its undo goes on.
LEMMA StruckStays ==
  ASSUME IInv, [Next]_vars, NEW f, Struck(f)
  PROVE  Struck(f)'
<1>0. PICK i \in Ids :
        /\ calls[i].req.rpc = "node-stress"
        /\ \E j \in DOMAIN UndoCommands(calls[i].req) :
             j <= cancels[i].k /\ UndoCommands(calls[i].req)[j] = f
  BY DEF Struck
<1>1. PICK j \in DOMAIN UndoCommands(calls[i].req) :
        /\ calls[i].req.rpc = "node-stress"
        /\ j <= cancels[i].k /\ UndoCommands(calls[i].req)[j] = f
  BY <1>0
<1>2. /\ calls \in [Ids -> CallType] /\ cancels \in [Ids -> CancelType]
      /\ \A id \in Ids : Progress(id)
  BY DEF IInv, TypeOK
<1>3. calls[i].pc # "none"
  <2>1. NoCall.req.rpc = "none"
    BY DEF NoCall, NoRequest
  <2>2. calls[i].pc = "none" => calls[i] = NoCall
    BY <1>2 DEF Progress
  <2> QED BY <1>1, <2>1, <2>2
<1>4. cancels[i].k \in Nat /\ j \in Nat /\ j >= 1
  BY <1>1, <1>2, <1>3, UndoCommandsType DEF Progress, IsSequence, CancelType
<1>5. calls[i].pc = "applied"
  BY <1>1, <1>2, <1>4 DEF Progress, NoCancel
<1>6. calls'[i].req = calls[i].req
  BY <1>2, <1>5 DEF Next, vars, Call, Command, CommandFails, LoadTCDrop, StressNGStart, StoreAdd,
         CancelGet, UndoCommand, UndoRest, StoreRemove, StressEnds, Restart, CallType
<1>7. cancels'[i].k >= cancels[i].k
  <2>1. CASE UndoCommand
    <3>1. PICK id \in Ids, g \in Facts : UndoEffect(id, g)
      BY <2>1, UndoStep
    <3> QED BY <1>2, <1>4, <3>1 DEF UndoEffect
  <2>2. CASE ~UndoCommand
    <3>1. CASE UNCHANGED cancels
      BY <1>4, <3>1
    <3>2. CASE CancelGet
      BY <1>2, <1>4, <3>2 DEF CancelGet, CancelType
    <3>3. CASE UndoRest
      BY <1>2, <1>4, <3>3 DEF UndoRest, CancelType
    <3>4. CASE StoreRemove
      BY <1>2, <1>4, <3>4 DEF StoreRemove, CancelType
    <3>5. CASE Restart
      BY <1>2, <1>4, <3>5 DEF Restart, CancelType
    <3> QED BY <2>2, <3>1, <3>2, <3>3, <3>4, <3>5 DEF Next, vars, Call, Command, CommandFails,
              LoadTCDrop, StressNGStart, StoreAdd, StressEnds
  <2> QED BY <2>1, <2>2
<1>8. cancels'[i].k \in Int
  BY TypeNext DEF TypeOK, CancelType
<1>9. j \in DOMAIN UndoCommands(calls'[i].req) /\ j <= cancels'[i].k
  BY <1>1, <1>4, <1>6, <1>7, <1>8
<1> QED BY <1>1, <1>6, <1>9 DEF Struck

\* An undo command deletes a fact that its own execution holds, or it fails, or it
\* is a node stress's.
LEMMA UndoHolds ==
  ASSUME IInv, UndoCommand, NEW f \in Facts
  PROVE  \/ Leaves(f) \/ Loses(f)
         \/ Keeps(f) /\ (~clean' \/ (host[f] = 0 /\ Holders(f) # {}))
         \/ Strikes(f) /\ ~clean'
<1>1. PICK i \in Ids, g \in Facts : UndoEffect(i, g)
  BY UndoStep
<1> DEFINE j == cancels[i].k + 1
<1>2. /\ cancels \in [Ids -> CancelType] /\ host \in [Facts -> Nat]
      /\ calls[i].k \in Nat /\ cancels[i].k \in Nat
  BY DEF IInv, TypeOK, CallType, CancelType
<1>3. /\ i \in store /\ calls[i].pc = "applied" /\ calls[i].req \in Executed
      /\ calls[i].k >= Len(Commands(calls[i].req))
  BY <1>1 DEF IInv, Progress, UndoEffect
<1>4. j \in DOMAIN UndoCommands(calls[i].req) /\ g = UndoCommands(calls[i].req)[j]
  BY <1>1, UndoInFacts DEF UndoEffect
<1>5. \A id \in Ids \ {i} : Holds(id, f)' = Holds(id, f)
  BY <1>1 DEF Holds, Live, UndoEffect
<1>6. cancels'[i].k = j /\ calls' = calls /\ Live(i) /\ Live(i)'
  BY <1>1, <1>3 DEF Live, UndoEffect
<1>7. \/ host'[f] = host[f]
      \/ f = g /\ host'[f] = host[f] - 1
  BY <1>1, <1>2 DEF UndoEffect
<1>8. CASE calls[i].req.rpc = "node-stress"
  <2>1. Commands(calls[i].req) = <<>>
    BY <1>8 DEF Commands
  <2>2. DOMAIN <<>> = {}
    OBVIOUS
  <2>3. Holds(i, f) = {} /\ Holds(i, f)' = {}
    BY <1>6, <2>1, <2>2 DEF Holds
  <2>4. Holders(f)' = Holders(f)
    BY <1>5, <2>3 DEF Holders
  <2>5. CASE host'[f] = host[f]
    BY <2>4, <2>5 DEF Leaves
  <2>6. CASE f = g /\ host'[f] # host[f]
    <3>1. ~clean'
      BY <1>1, <1>8, <2>6 DEF UndoEffect
    <3>2. j <= cancels'[i].k
      BY <1>2, <1>6
    <3>3. Struck(f)'
      BY <1>4, <1>6, <1>8, <2>6, <3>2 DEF Struck
    <3> QED BY <2>4, <3>1, <3>3 DEF Strikes
  <2> QED BY <1>7, <2>5, <2>6
<1>9. CASE calls[i].req.rpc # "node-stress"
  <2>1. UndoCommands(calls[i].req) = Commands(calls[i].req)
    <3>1. DOMAIN <<>> = {}
      OBVIOUS
    <3>2. ~Unnamed(calls[i].req)
      BY <1>4, <3>1 DEF Unnamed, UndoCommands, OfNode, NodeUndo
    <3> QED BY <1>3, <1>9, <3>2, UndoCommandsType
  <2>2. j \in DOMAIN Commands(calls[i].req) /\ Commands(calls[i].req)[j] = g /\ j <= calls[i].k
    BY <1>2, <1>3, <1>4, <2>1, CommandsType DEF IsSequence
  <2>3. CASE f # g
    <3>1. Holds(i, f)' = Holds(i, f)
      BY <1>2, <1>6, <2>2, <2>3 DEF Holds
    <3>2. Holders(f)' = Holders(f)
      BY <1>5, <3>1 DEF Holders
    <3> QED BY <1>7, <2>3, <3>2 DEF Leaves
  <2>4. CASE f = g
    <3>1. j \in Holds(i, f)
      BY <1>2, <1>6, <2>2, <2>4 DEF Holds
    <3>2. Holds(i, f)' = Holds(i, f) \ {j}
      BY <1>2, <1>6 DEF Holds
    <3>3. host'[f] = host[f] => host[f] = 0 \/ ~clean'
      <4>1. CASE host' = [host EXCEPT ![f] = @ - 1]
        BY <1>2, <4>1
      <4>2. CASE clean' = (clean /\ host[f] = 0)
        BY <4>2
      <4> QED BY <1>1, <2>4, <4>1, <4>2 DEF UndoEffect
    <3> HIDE DEF j
    <3>4. <<i, j>> \in Holders(f) /\ Holders(f)' = Holders(f) \ {<<i, j>>}
      BY <1>5, <3>1, <3>2, HoldersLost
    <3> QED BY <1>7, <3>3, <3>4 DEF Loses, Keeps
  <2> QED BY <2>3, <2>4
<1> QED BY <1>8, <1>9

\* Every other step leaves what is held, or drops an execution that is not live
\* any more.
LEMMA OthersHold ==
  ASSUME IInv, [Next]_vars, ~Command, ~UndoCommand, NEW f \in Facts
  PROVE  Keeps(f)
<1>0. /\ calls \in [Ids -> CallType] /\ cancels \in [Ids -> CancelType] /\ store \subseteq Ids
      /\ \A id \in Ids : Progress(id)
  BY DEF IInv, TypeOK
<1>1. ASSUME NEW id \in Ids
      PROVE  Holds(id, f)' \subseteq Holds(id, f)
  <2>1. CASE Call
    <3>1. PICK i \in Ids, req \in Requests, pc \in {"applying", "failed"} :
            /\ calls[i].pc = "none"
            /\ calls' = [calls EXCEPT ![i] = [pc |-> pc, req |-> req, k |-> 0]]
            /\ UNCHANGED <<store, cancels>>
      BY <2>1 DEF Call
    <3>2. CASE id # i
      BY <1>0, <3>1, <3>2 DEF Holds, Live
    <3>3. CASE id = i
      <4>1. calls'[i].k = 0 /\ cancels'[i].k = 0
        BY <1>0, <3>1 DEF Progress, NoCancel
      <4> QED BY <3>3, <4>1 DEF Holds
    <3> QED BY <3>2, <3>3
  <2>2. CASE CommandFails
    BY <1>0, <2>2 DEF CommandFails, Holds, Live, Progress, CallType
  <2>3. CASE LoadTCDrop
    <3>1. PICK i \in Ids :
            /\ calls[i].pc = "applying" /\ calls[i].req.rpc = "ebpf"
            /\ calls' = calls \/ calls' = [calls EXCEPT ![i].req.rpc = "netem"]
            /\ UNCHANGED <<store, cancels>>
      BY <2>3 DEF LoadTCDrop
    <3>2. CASE id # i \/ calls' = calls
      BY <1>0, <3>1, <3>2 DEF Holds, Live
    <3>3. CASE id = i
      <4>1. calls'[i].k = 0 /\ cancels'[i].k = 0
        BY <1>0, <3>1 DEF Progress, CallType, NoCancel
      <4> QED BY <3>3, <4>1 DEF Holds
    <3> QED BY <3>2, <3>3
  <2>4. CASE StressNGStart
    <3>1. PICK i \in Ids :
            /\ calls[i].pc = "applying" /\ Stresses(calls[i].req)
            /\ \/ calls' = [calls EXCEPT ![i].k = 1]
               \/ calls' = [calls EXCEPT ![i].pc = "failed"]
            /\ UNCHANGED <<store, cancels>>
      BY <2>4 DEF StressNGStart
    <3>2. CASE id # i
      BY <1>0, <3>1, <3>2 DEF Holds, Live
    <3>3. CASE id = i
      <4>1. calls'[i].req = calls[i].req
        BY <1>0, <3>1 DEF CallType
      <4>2. Commands(calls'[i].req) = <<>>
        BY <3>1, <4>1 DEF Commands, Stresses
      <4>3. DOMAIN <<>> = {}
        OBVIOUS
      <4> QED BY <3>3, <4>2, <4>3 DEF Holds
    <3> QED BY <3>2, <3>3
  <2>5. CASE StoreAdd
    BY <1>0, <2>5 DEF StoreAdd, Holds, Live, CallType
  <2>6. CASE CancelGet
    BY <1>0, <2>6 DEF CancelGet, Holds, Live, CancelType
  <2>7. CASE UndoRest
    BY <1>0, <2>7 DEF UndoRest, Holds, Live, CancelType
  <2>8. CASE StoreRemove
    BY <1>0, <2>8 DEF StoreRemove, Holds, Live, CancelType
  <2>9. CASE StressEnds \/ UNCHANGED vars
    BY <2>9 DEF StressEnds, vars, Holds, Live
  <2>10. CASE Restart
    <3>1. ~Live(id)'
      BY <1>0, <2>10 DEF Restart, Live, CallType
    <3> QED BY <3>1 DEF Holds
  <2> QED BY <2>1, <2>2, <2>3, <2>4, <2>5, <2>6, <2>7, <2>8, <2>9, <2>10 DEF Next
<1>2. host' = host
  BY DEF Next, vars, Call, CommandFails, LoadTCDrop, StressNGStart, StoreAdd, CancelGet,
         UndoRest, StoreRemove, StressEnds, Restart
<1> QED BY <1>1, <1>2, HoldersKept DEF Keeps

\* The invariant holds initially.
LEMMA InitIInv == Init => IInv
<1> SUFFICES ASSUME Init PROVE IInv
  OBVIOUS
<1>1. TypeOK
  BY DaemonAssumption DEF Init, TypeOK, CallType, CancelType, NoCall, NoCancel
<1>2. \A id \in Ids : Progress(id)
  BY DEF Init, Progress, NoCall, NoCancel
<1>3. ASSUME NEW f \in Facts PROVE Counted(f)
  <2>1. \A id \in Ids : Holds(id, f) = {}
    BY DEF Init, Holds, Live, NoCall
  <2>2. Holders(f) = {}
    BY <2>1 DEF Holders
  <2>3. host[f] = 0
    BY DEF Init
  <2> QED BY <2>2, <2>3, FS_EmptySet DEF Counted
<1> QED BY <1>1, <1>2, <1>3 DEF IInv

\* The invariant is inductive.
THEOREM Invariance == Spec => []IInv
<1>1. IInv /\ [Next]_vars => IInv'
  <2> SUFFICES ASSUME IInv, [Next]_vars PROVE IInv'
    OBVIOUS
  <2>1. TypeOK'
    BY TypeNext
  <2>2. (\A id \in Ids : Progress(id))'
    BY ProgressNext
  <2>3. ASSUME NEW f \in Facts PROVE Counted(f)'
    <3>1. host[f] \in Nat /\ Counted(f)
      BY DEF IInv, TypeOK
    <3>2. Keeps(f) \/ Gains(f) \/ Loses(f) \/ Strikes(f)
      BY CommandHolds, UndoHolds, OthersHold DEF Leaves, Keeps
    <3>3. Struck(f) => Struck(f)'
      BY StruckStays
    <3> QED BY <3>1, <3>2, <3>3, CountedNext
  <2> QED BY <2>1, <2>2, <2>3 DEF IInv
<1> QED BY <1>1, InitIInv, PTL DEF Spec

\* Type correctness.
THEOREM TypeCorrect == Spec => []TypeOK
<1>1. IInv => TypeOK
  BY DEF IInv
<1> QED BY <1>1, Invariance, PTL

\* Concurrent Exec and Cancel calls never delete each other's rules and qdiscs,
\* whichever commands fail and however often the daemon restarts, except that the
\* cancellation of a node stress may delete the rules of a node partition.
THEOREM NeverSteals == Spec => []NothingStolen
<1>1. IInv => NothingStolen
  BY DEF IInv, Counted, NothingStolen
<1> QED BY <1>1, Invariance, PTL
-----------------------------------------------------------------------------
(* What is left on the host.                                               *)

\* A step that leaves nothing behind changes the holders of a fact as it changes
\* the host.
LEMMA CleanHolds ==
  ASSUME IInv, [Next]_vars, clean', NEW f \in Facts,
         IsFiniteSet(Holders(f)), host[f] = Cardinality(Holders(f))
  PROVE  Leaves(f) \/ Gains(f) \/ Loses(f)
<1>0. /\ calls \in [Ids -> CallType] /\ cancels \in [Ids -> CancelType] /\ store \subseteq Ids
      /\ \A id \in Ids : Progress(id)
  BY DEF IInv, TypeOK
<1>1. CASE Command
  BY <1>1, CommandHolds
<1>2. CASE UndoCommand
  BY <1>2, UndoHolds, FS_EmptySet
<1>3. CASE ~Command /\ ~UndoCommand
  <2>1. Keeps(f)
    BY <1>3, OthersHold
  <2>2. ASSUME NEW id \in Ids PROVE Holds(id, f) \subseteq Holds(id, f)'
    <3>1. CASE Call
      BY <1>0, <3>1 DEF Call, Holds, Live, Progress, NoCall
    <3>2. CASE CommandFails
      <4>1. PICK i \in Ids :
              /\ calls[i].pc = "applying" /\ calls[i].k = 0
              /\ calls' = [calls EXCEPT ![i].pc = "failed"]
              /\ UNCHANGED <<store, cancels>>
        BY <3>2 DEF CommandFails
      <4>2. CASE id # i
        BY <1>0, <4>1, <4>2 DEF Holds, Live
      <4>3. CASE id = i
        <5>1. cancels[i].k = 0
          BY <1>0, <4>1 DEF Progress, NoCancel
        <5> QED BY <4>1, <4>3, <5>1 DEF Holds
      <4> QED BY <4>2, <4>3
    <3>3. CASE LoadTCDrop
      <4>1. PICK i \in Ids :
              /\ calls[i].pc = "applying" /\ calls[i].req.rpc = "ebpf"
              /\ calls' = calls \/ calls' = [calls EXCEPT ![i].req.rpc = "netem"]
              /\ UNCHANGED <<store, cancels>>
        BY <3>3 DEF LoadTCDrop
      <4>2. CASE id # i \/ calls' = calls
        BY <1>0, <4>1, <4>2 DEF Holds, Live
      <4>3. CASE id = i
        <5>1. calls[i].k = 0 /\ cancels[i].k = 0
          BY <1>0, <4>1 DEF Progress, NoCancel
        <5> QED BY <4>3, <5>1 DEF Holds
      <4> QED BY <4>2, <4>3
    <3>4. CASE StressNGStart
      <4>1. PICK i \in Ids :
              /\ calls[i].pc = "applying" /\ Stresses(calls[i].req)
              /\ \/ calls' = [calls EXCEPT ![i].k = 1]
                 \/ calls' = [calls EXCEPT ![i].pc = "failed"]
              /\ UNCHANGED <<store, cancels>>
        BY <3>4 DEF StressNGStart
      <4>2. CASE id # i
        BY <1>0, <4>1, <4>2 DEF Holds, Live
      <4>3. CASE id = i
        <5>1. Commands(calls[i].req) = <<>>
          BY <4>1 DEF Commands, Stresses
        <5>2. DOMAIN <<>> = {}
          OBVIOUS
        <5> QED BY <4>3, <5>1, <5>2 DEF Holds
      <4> QED BY <4>2, <4>3
    <3>5. CASE StoreAdd
      BY <1>0, <3>5 DEF StoreAdd, Holds, Live, CallType
    <3>6. CASE CancelGet
      BY <1>0, <3>6 DEF CancelGet, Holds, Live, CancelType
    <3>7. CASE UndoRest
      BY <1>0, <3>7 DEF UndoRest, Holds, Live, CancelType
    <3>8. CASE StoreRemove
      <4>1. PICK i \in Ids :
              /\ cancels[i].pc = "undone" /\ store' = store \ {i}
              /\ cancels' = [cancels EXCEPT ![i].pc = "cancelled"]
              /\ UNCHANGED calls
              /\ ~Unnamed(calls[i].req)
        BY <3>8 DEF StoreRemove
      <4>2. CASE id # i
        BY <1>0, <4>1, <4>2 DEF Holds, Live
      <4>3. CASE id = i
        <5>1. /\ calls[i].req \in Executed
              /\ cancels[i].k = Len(UndoCommands(calls[i].req))
          BY <1>0, <4>1 DEF Progress
        <5>2. calls[i].req.rpc = "node-stress" => Commands(calls[i].req) = <<>>
          BY DEF Commands
        <5>3. calls[i].req.rpc # "node-stress" => UndoCommands(calls[i].req) = Commands(calls[i].req)
          BY <4>1, <5>1, UndoCommandsType
        <5>4. IsSequence(Commands(calls[i].req)) /\ calls[i].k \in Nat /\ DOMAIN <<>> = {}
          BY <1>0, <5>1, CommandsType DEF CallType
        <5>5. Holds(i, f) = {}
          BY <5>1, <5>2, <5>3, <5>4 DEF Holds, IsSequence
        <5> QED BY <4>3, <5>5
      <4> QED BY <4>2, <4>3
    <3>9. CASE StressEnds \/ UNCHANGED vars
      BY <3>9 DEF StressEnds, vars, Holds, Live
    <3>10. CASE Restart
      BY <3>10 DEF Restart
    <3> QED BY <1>3, <3>1, <3>2, <3>3, <3>4, <3>5, <3>6, <3>7, <3>8, <3>9, <3>10 DEF Next
  <2>3. Holders(f) \subseteq Holders(f)'
    BY <2>2 DEF Holders
  <2> QED BY <2>1, <2>3 DEF Keeps, Leaves
<1> QED BY <1>1, <1>2, <1>3

\* Unless a call failed half way, an undo failed, a node partition without an
\* interface was cancelled, or a node stress with one that a node partition is on,
\* or the daemon restarted, the host holds what live executions hold and nothing
\* else: a cancelled execution is gone from it.
THEOREM CleanIsExact == Spec => []HostIsExact
<1>1. Init => HostIsExact
  <2> SUFFICES ASSUME Init, NEW f \in Facts PROVE host[f] = Cardinality(Holders(f))
    BY DEF HostIsExact
  <2>1. \A id \in Ids : Holds(id, f) = {}
    BY DEF Init, Holds, Live, NoCall
  <2>2. Holders(f) = {}
    BY <2>1 DEF Holders
  <2> QED BY <2>2, FS_EmptySet DEF Init
<1>2. [Next]_vars /\ clean' => clean
  BY DEF Next, vars, Call, Command, CommandFails, LoadTCDrop, StressNGStart, StoreAdd,
         CancelGet, UndoCommand, UndoRest, StoreRemove, StressEnds, Restart
<1>3. IInv /\ HostIsExact /\ [Next]_vars => HostIsExact'
  <2> SUFFICES ASSUME IInv, HostIsExact, [Next]_vars, clean', NEW f \in Facts
               PROVE  host'[f] = Cardinality(Holders(f)')
    BY DEF HostIsExact
  <2>1. host[f] = Cardinality(Holders(f)) /\ IsFiniteSet(Holders(f))
    BY <1>2 DEF HostIsExact, IInv, Counted
  <2>2. Leaves(f) \/ Gains(f) \/ Loses(f)
    BY <2>1, CleanHolds
  <2>3. CASE Leaves(f)
    BY <2>1, <2>3 DEF Leaves
  <2>4. CASE Gains(f)
    <3>1. PICK x : x \notin Holders(f) /\ Holders(f)' = Holders(f) \cup {x}
                   /\ host'[f] = host[f] + 1
      BY <2>4 DEF Gains
    <3> QED BY <2>1, <3>1, FS_AddElement
  <2>5. CASE Loses(f)
    <3>1. PICK x \in Holders(f) : Holders(f)' = Holders(f) \ {x} /\ host'[f] = host[f] - 1
      BY <2>5 DEF Loses
    <3> QED BY <2>1, <3>1, FS_RemoveElement
  <2> QED BY <2>2, <2>3, <2>4, <2>5
<1> QED BY <1>1, <1>3, Invariance, PTL DEF Spec
-----------------------------------------------------------------------------
(* eBPF programs.                                                          *)

\* A program is attached while its execution is live and not yet undone, and an
\* execution stored with the eBPF datapath keeps it until then.
Attached(id) ==
  /\ id \in programs =>
       Live(id) /\ calls[id].req.rpc = "ebpf" /\ cancels[id].pc # "undone"
  /\ id \in store /\ calls[id].req.rpc = "ebpf" /\ cancels[id].pc # "undone" =>
       id \in programs

\* Every step of the handlers keeps the programs in line with the store.
LEMMA AttachedNext ==
  ASSUME IInv, [Next]_vars, NEW i \in Ids, Attached(i)
  PROVE  Attached(i)'
<1>0. /\ calls \in [Ids -> CallType] /\ cancels \in [Ids -> CancelType] /\ store \subseteq Ids
      /\ Progress(i)
  BY DEF IInv, TypeOK
<1> USE <1>0 DEF Attached, Live
<1>1. CASE Call
  BY <1>1 DEF Call, Progress, NoCall
<1>2. CASE Command
  BY <1>2 DEF Command, CallType
<1>3. CASE CommandFails
  <2>1. PICK id \in Ids :
          /\ calls[id].pc = "applying" /\ calls[id].k < Len(Commands(calls[id].req))
          /\ calls' = [calls EXCEPT ![id].pc = "failed"]
          /\ UNCHANGED <<store, cancels, programs>>
    BY <1>3, Zenon DEF CommandFails
  <2>2. CASE i # id
    <3>1. calls'[i] = calls[i]
      BY <2>1, <2>2
    <3> QED BY <2>1, <3>1, Zenon
  <2>3. CASE i = id
    <3>1. Commands(calls[i].req) # <<>>
      BY <2>1, <2>3 DEF CallType
    <3>2. calls[i].req.rpc # "ebpf"
      BY <3>1 DEF Commands
    <3>3. i \notin store /\ i \notin programs
      BY <2>1, <2>3, <3>2 DEF Progress
    <3> QED BY <2>1, <3>3
  <2> QED BY <2>2, <2>3
<1>4. CASE LoadTCDrop
  <2>1. PICK id \in Ids :
          /\ calls[id].pc = "applying" /\ calls[id].req.rpc = "ebpf" /\ id \notin programs
          /\ \/ programs' = programs \cup {id} /\ UNCHANGED calls
             \/ calls' = [calls EXCEPT ![id].req.rpc = "netem"] /\ UNCHANGED programs
          /\ UNCHANGED <<store, cancels>>
    BY <1>4 DEF LoadTCDrop
  <2>2. CASE i # id
    BY <2>1, <2>2
  <2>3. CASE i = id
    BY <2>1, <2>3 DEF Progress, NoCancel
  <2> QED BY <2>2, <2>3
<1>5. CASE StressNGStart
  <2>1. PICK id \in Ids :
          /\ calls[id].pc = "applying" /\ Stresses(calls[id].req)
          /\ \/ calls' = [calls EXCEPT ![id].k = 1]
             \/ calls' = [calls EXCEPT ![id].pc = "failed"]
          /\ UNCHANGED <<store, cancels, programs>>
    BY <1>5 DEF StressNGStart
  <2>2. CASE i # id
    BY <2>1, <2>2
  <2>3. CASE i = id
    BY <2>1, <2>3 DEF Progress, Stresses
  <2> QED BY <2>2, <2>3
<1>6. CASE StoreAdd
  BY <1>6 DEF StoreAdd, Applied, CallType
<1>7. CASE CancelGet
  BY <1>7 DEF CancelGet, CancelType
<1>8. CASE UndoCommand
  <2>1. PICK id \in Ids, f \in Facts : UndoEffect(id, f)
    BY <1>8, UndoStep
  <2> QED BY <2>1 DEF UndoEffect
<1>9. CASE UndoRest
  BY <1>9 DEF UndoRest, CancelType
<1>10. CASE StoreRemove
  BY <1>10 DEF StoreRemove, CancelType
<1>11. CASE StressEnds
  BY <1>11 DEF StressEnds
<1>12. CASE Restart
  BY <1>12 DEF Restart
<1>13. CASE UNCHANGED vars
  BY <1>13 DEF vars
<1> QED BY <1>1, <1>2, <1>3, <1>4, <1>5, <1>6, <1>7, <1>8, <1>9, <1>10, <1>11, <1>12, <1>13
        DEF Next

\* A program is attached for every execution stored with the eBPF datapath until
\* its cancellation unloads it, and for none that fell back to netem or is gone.
THEOREM ProgramsFollowStore == Spec => []ProgramsAreExact
<1> DEFINE A == \A id \in Ids : Attached(id)
<1>1. Init => A
  BY DEF Init, Attached
<1>2. IInv /\ A /\ [Next]_vars => A'
  BY AttachedNext
<1>3. IInv /\ A => ProgramsAreExact
  BY DEF IInv, TypeOK, Attached, ProgramsAreExact
<1> QED BY <1>1, <1>2, <1>3, Invariance, PTL DEF Spec
-----------------------------------------------------------------------------
(* The daemon as its clients see it.                                       *)

\* A call of one execution ends while the others stay as they are.
LEMMA EndStep ==
  ASSUME NEW i \in Ids, ~Over(i), Over(i)', Attached(i)',
         \A id \in Ids \ {i} : Stage(id)' = Stage(id) /\ Runs(id)' = Runs(id),
         UNCHANGED restarts
  PROVE  Service!End
<1> DEFINE st == [id \in Ids |-> Stage(id)]
           rn == [id \in Ids |-> Runs(id)]
<1>1. Stage(i) = "new"
  BY DEF Stage
<1>2. Stage(i)' \in {"held", "lost", "gone"} /\ Runs(i)' = Kind(i)'
      /\ Kind(i)' \in Service!Kinds
  BY DEF Stage, Runs, Kind, Service!Kinds
<1>3. Kind(i)' = "ebpf" => Stage(i)' # "lost"
  BY DEF Stage, Kind, Remains, Attached, Live, Over, Stresses, Unnamed
<1>4. st' = [st EXCEPT ![i] = Stage(i)'] /\ rn' = [rn EXCEPT ![i] = Kind(i)']
  BY <1>2
<1>5. st[i] = "new"
  BY <1>1
<1> QED BY <1>2, <1>3, <1>4, <1>5 DEF Service!End

\* A step that changes neither calls nor store, and nothing else but that some
\* stress-ng end, is seen at most as the end of lost ones.
LEMMA ExpireStep ==
  ASSUME UNCHANGED <<calls, store, restarts>>, stress' \subseteq stress,
         \A id \in Ids : id \notin store => (id \in programs' <=> id \in programs),
         \A id \in Ids : /\ cancels'[id].pc = "cancelled" <=> cancels[id].pc = "cancelled"
                         /\ cancels[id].pc = "cancelled" => cancels'[id] = cancels[id]
  PROVE  Service!Expire
<1> DEFINE st == [id \in Ids |-> Stage(id)]
           rn == [id \in Ids |-> Runs(id)]
           S == {id \in Ids : Stage(id) = "lost" /\ Runs(id) = "stress" /\ id \notin stress'}
<1>1. \A id \in Ids : Kind(id)' = Kind(id) /\ Over(id)' = Over(id) /\ Runs(id)' = Runs(id)
  BY DEF Kind, Over, Runs
<1>2. ASSUME NEW id \in Ids
      PROVE  Stage(id)' = IF id \in S THEN "gone" ELSE Stage(id)
  <2>1. CASE id \in store \/ ~Over(id)
    BY <1>1, <2>1 DEF Stage
  <2>2. CASE id \notin store /\ Over(id) /\ Kind(id) = "stress"
    BY <1>1, <2>2 DEF Stage, Remains, Runs
  <2>3. CASE id \notin store /\ Over(id) /\ Kind(id) # "stress"
    <3>1. CASE cancels[id].pc = "cancelled"
      <4>1. Remains(id)' <=> Remains(id)
        BY <1>1, <2>3, <3>1 DEF Remains
      <4> QED BY <1>1, <2>3, <4>1 DEF Stage, Runs
    <3>2. CASE cancels[id].pc # "cancelled"
      <4>1. Remains(id)' <=> Remains(id)
        BY <1>1, <2>3, <3>2 DEF Remains
      <4> QED BY <1>1, <2>3, <4>1 DEF Stage, Runs
    <3> QED BY <3>1, <3>2
  <2> QED BY <2>1, <2>2, <2>3
<1>3. st' = [id \in Ids |-> IF id \in S THEN "gone" ELSE st[id]] /\ rn' = rn
  BY <1>1, <1>2
<1>4. S \subseteq {id \in Ids : Service!Expires(id)}
  BY DEF Service!Expires
<1> QED BY <1>3, <1>4 DEF Service!Expire

\* The restart of the daemon is a restart for every execution sent to it.
LEMMA RestartStep ==
  ASSUME IInv, Restart, \A id \in Ids : Attached(id)
  PROVE  Service!Restart
<1> DEFINE st == [id \in Ids |-> Stage(id)]
           rn == [id \in Ids |-> Runs(id)]
<1>0. /\ calls \in [Ids -> CallType] /\ cancels \in [Ids -> CancelType]
      /\ \A id \in Ids : Progress(id)
  BY DEF IInv, TypeOK
<1>1. /\ store' = {} /\ programs' = {} /\ stress' \subseteq stress
      /\ calls' = [id \in Ids |-> IF calls[id].pc = "applying"
                                  THEN [calls[id] EXCEPT !.pc = "failed"] ELSE calls[id]]
      /\ cancels' = [id \in Ids |-> IF cancels[id].pc \in {"undoing", "undone"}
                                    THEN [cancels[id] EXCEPT !.pc = "failed"] ELSE cancels[id]]
  BY DEF Restart
<1> DEFINE S == {id \in Ids : calls[id].pc # "none"}
<1>2. ASSUME NEW id \in Ids
      PROVE  /\ calls'[id].req = calls[id].req /\ calls'[id].k = calls[id].k
             /\ calls'[id].pc = IF calls[id].pc = "applying" THEN "failed" ELSE calls[id].pc
             /\ cancels'[id].pc = "cancelled" <=> cancels[id].pc = "cancelled"
             /\ cancels'[id].missed = cancels[id].missed
  BY <1>0, <1>1 DEF CallType, CancelType
<1>3. \A id \in Ids : Kind(id)' = Kind(id)
  BY <1>2 DEF Kind
<1>4. ASSUME NEW id \in Ids \ S
      PROVE  Stage(id)' = Stage(id) /\ Runs(id)' = Runs(id)
  BY <1>2 DEF Stage, Runs, Over
<1>5. ASSUME NEW id \in S
      PROVE  /\ Runs(id)' = Kind(id) /\ Kind(id) \in Service!Kinds
             /\ Over(id) => Runs(id) = Kind(id)
             /\ Stage(id)' = IF Remains(id)' THEN "lost" ELSE "gone"
  <2>1. Over(id)'
    BY <1>0, <1>2 DEF Over, CallType
  <2> QED BY <1>1, <1>3, <2>1 DEF Runs, Stage, Kind, Service!Kinds
<1>6. ASSUME NEW id \in S
      PROVE  Stage(id)' \in Service!Left(id, Kind(id))
  <2>1. calls[id].pc \in {"applying", "applied", "failed"}
    BY <1>0 DEF CallType
  <2>2. CASE Kind(id) = "ebpf"
    <3>1. Stage(id)' = "gone"
      BY <1>1, <1>3, <1>5, <2>2 DEF Remains
    <3>2. Stage(id) # "lost"
      BY <2>1, <2>2 DEF Stage, Over, Remains, Attached, Live
    <3> QED BY <3>1, <3>2, <2>2 DEF Service!Left, Stage
  <2>3. CASE Kind(id) = "stress"
    <3>1. Stage(id) = "gone" => Stage(id)' = "gone"
      BY <1>1, <1>3, <1>5, <2>3 DEF Remains, Stage
    <3> QED BY <1>5, <2>3, <3>1 DEF Service!Left, Service!Expires, Stage, Runs
  <2>4. CASE Kind(id) \notin {"ebpf", "stress"}
    <3>1. CASE calls[id].pc = "applying"
      BY <1>5, <2>4, <3>1 DEF Service!Left, Stage, Over
    <3>2. CASE id \in store
      <4>1. calls[id].pc = "applied" /\ cancels[id].pc # "cancelled"
        BY <1>0, <3>2 DEF Progress
      <4>2. Stage(id) = "held" /\ Stage(id)' = "lost"
        BY <1>2, <1>3, <1>5, <2>4, <3>2, <4>1 DEF Stage, Over, Remains
      <4> QED BY <2>4, <4>2 DEF Service!Left
    <3>3. CASE calls[id].pc # "applying" /\ id \notin store
      <4>1. Remains(id)' <=> Remains(id)
        BY <1>2, <1>3, <2>1, <2>4, <3>3 DEF Remains, Unnamed
      <4>2. Stage(id)' = Stage(id) /\ Stage(id) \in {"lost", "gone"}
        BY <1>5, <2>1, <3>3, <4>1 DEF Stage, Over
      <4> QED BY <1>5, <2>1, <2>4, <3>3, <4>2 DEF Service!Left, Service!Expires, Over
    <3> QED BY <3>1, <3>2, <3>3
  <2> QED BY <2>2, <2>3, <2>4
<1>7. rn' \in [Ids -> Service!Kinds \cup {"none"}] /\ st' \in [Ids -> Service!Stages]
  BY DEF Runs, Stage, Kind, Service!Kinds, Service!Stages
<1>8. ASSUME NEW id \in Ids
      PROVE  IF id \in S
             THEN /\ st[id] = "new" => rn'[id] \in Service!Kinds
                  /\ st[id] # "new" => rn'[id] = rn[id]
                  /\ st'[id] \in Service!Left(id, rn'[id])
             ELSE st'[id] = st[id] /\ rn'[id] = rn[id]
  <2>1. CASE id \in S
    <3>1. st'[id] = Stage(id)' /\ rn'[id] = Kind(id) /\ st[id] = Stage(id) /\ rn[id] = Runs(id)
      BY <1>5, <2>1
    <3>2. Stage(id) # "new" => Over(id)
      BY DEF Stage
    <3> QED BY <1>5, <1>6, <2>1, <3>1, <3>2
  <2>2. CASE id \notin S
    BY <1>4, <2>2
  <2> QED BY <2>1, <2>2
<1>9. S \in SUBSET Ids
  OBVIOUS
<1>10. restarts' = restarts + 1
  BY DEF Restart
<1> QED BY <1>7, <1>8, <1>9, <1>10, ZenonT(30) DEF Service!Restart

\* StoreRemove, the last step of CancelChaos, is where the service cancels: by then
\* the program is unloaded, and of anything else something may remain.
LEMMA CancelStep ==
  ASSUME IInv, StoreRemove, \A id \in Ids : Attached(id)
  PROVE  Service!Cancel
<1> DEFINE st == [id \in Ids |-> Stage(id)]
           rn == [id \in Ids |-> Runs(id)]
<1>0. cancels \in [Ids -> CancelType] /\ \A id \in Ids : Progress(id)
  BY DEF IInv, TypeOK
<1>1. PICK i \in Ids :
        /\ cancels[i].pc = "undone" /\ store' = store \ {i}
        /\ cancels' = [cancels EXCEPT ![i].pc = "cancelled"]
        /\ UNCHANGED <<calls, programs, stress, restarts>>
  BY DEF StoreRemove
<1>2. i \in store /\ calls[i].pc = "applied"
  BY <1>0, <1>1 DEF Progress
<1>3. \A id \in Ids : Kind(id)' = Kind(id) /\ Over(id)' = Over(id) /\ Runs(id)' = Runs(id)
  BY <1>1 DEF Kind, Over, Runs
<1>4. cancels'[i].pc = "cancelled"
  BY <1>0, <1>1 DEF CancelType
<1>5. /\ Kind(i) = "ebpf" => ~Remains(i)'
      /\ Kind(i) = "unscoped" => Remains(i)'
  <2>1. i \notin programs
    BY <1>1 DEF Attached
  <2> QED BY <1>1, <1>2, <1>3, <1>4, <2>1 DEF Remains, Kind, Unnamed
<1>6. PICK out : out = Stage(i)'
  OBVIOUS
<1>7. /\ Stage(i) = "held" /\ out \in {"lost", "gone"}
      /\ Runs(i) = "ebpf" => out = "gone"
      /\ Runs(i) = "unscoped" => out = "lost"
  BY <1>1, <1>2, <1>3, <1>5, <1>6 DEF Stage, Over, Runs
<1>8. \A id \in Ids \ {i} : Stage(id)' = Stage(id)
  BY <1>0, <1>1, <1>3 DEF Stage, Remains
<1>9. st' = [st EXCEPT ![i] = out] /\ rn' = rn
  BY <1>3, <1>6, <1>8
<1>10. st[i] = "held" /\ rn[i] = Runs(i)
  BY <1>7
<1> QED BY <1>1, <1>7, <1>9, <1>10 DEF Service!Cancel

\* Every step of a handler that is not the end of its call, the end of a
\* cancellation or a restart is hidden, but for the stress-ng that it may end.
LEMMA ServiceStep ==
  ASSUME IInv, [Next]_vars, \A id \in Ids : Attached(id), \A id \in Ids : Attached(id)'
  PROVE  \/ Service!Next
         \/ /\ \A id \in Ids : Stage(id)' = Stage(id) /\ Runs(id)' = Runs(id)
            /\ UNCHANGED restarts
<1>0. /\ calls \in [Ids -> CallType] /\ cancels \in [Ids -> CancelType]
      /\ \A id \in Ids : Progress(id)
  BY DEF IInv, TypeOK
<1>1. ASSUME NEW i \in Ids, calls[i].pc \in {"none", "applying"},
             calls' \in [Ids -> CallType],
             \A id \in Ids \ {i} :
               /\ calls'[id] = calls[id]
               /\ id \in store' <=> id \in store
               /\ id \in programs' <=> id \in programs
               /\ id \in stress' <=> id \in stress,
             UNCHANGED <<cancels, restarts>>
      PROVE  \/ Service!End
             \/ \A id \in Ids : Stage(id)' = Stage(id) /\ Runs(id)' = Runs(id)
  <2>1. \A id \in Ids \ {i} : Stage(id)' = Stage(id) /\ Runs(id)' = Runs(id)
    BY <1>1 DEF Stage, Runs, Over, Kind, Remains
  <2>2. ~Over(i)
    BY <1>1 DEF Over
  <2>3. CASE Over(i)'
    BY <1>1, <2>1, <2>2, <2>3, EndStep
  <2>4. CASE ~Over(i)'
    BY <2>1, <2>2, <2>4 DEF Stage, Runs
  <2> QED BY <2>3, <2>4
<1>2. calls' \in [Ids -> CallType]
  BY TypeNext DEF TypeOK, IInv
<1>3. CASE Call
  BY <1>1, <1>2, <1>3 DEF Call, Service!Next
<1>4. CASE Command
  BY <1>1, <1>2, <1>4 DEF Command, Service!Next
<1>5. CASE CommandFails
  BY <1>1, <1>2, <1>5 DEF CommandFails, Service!Next
<1>6. CASE LoadTCDrop
  BY <1>1, <1>2, <1>6 DEF LoadTCDrop, Service!Next
<1>7. CASE StressNGStart
  BY <1>1, <1>2, <1>7 DEF StressNGStart, Service!Next
<1>8. CASE StoreAdd
  <2>1. PICK i \in Ids :
          /\ calls[i].pc = "applying" /\ store' = store \cup {i}
          /\ calls' = [calls EXCEPT ![i].pc = "applied"]
          /\ UNCHANGED <<cancels, programs, stress, restarts>>
    BY <1>8 DEF StoreAdd
  <2> QED BY <1>1, <1>2, <2>1 DEF Service!Next
<1>9. CASE CancelGet
  BY <1>0, <1>9, ExpireStep DEF CancelGet, CancelType, Service!Next
<1>10. CASE UndoCommand
  <2>1. PICK i \in Ids, f \in Facts : UndoEffect(i, f)
    BY <1>10, UndoStep
  <2>2. \A id \in Ids : /\ cancels'[id].pc = "cancelled" <=> cancels[id].pc = "cancelled"
                        /\ cancels[id].pc = "cancelled" => cancels'[id] = cancels[id]
    BY <2>1 DEF UndoEffect
  <2>3. Service!Expire
    BY <2>1, <2>2, ExpireStep DEF UndoEffect
  <2> QED BY <2>3 DEF Service!Next
<1>11. CASE UndoRest
  <2>1. PICK i \in Ids :
          /\ cancels[i].pc = "undoing"
          /\ programs' = programs \ {i} /\ stress' \subseteq stress
          /\ cancels' = [cancels EXCEPT ![i].pc = "undone"]
          /\ UNCHANGED <<calls, store, restarts>>
    BY <1>11 DEF UndoRest
  <2>2. i \in store
    BY <1>0, <2>1 DEF Progress
  <2> QED BY <1>0, <2>1, <2>2, ExpireStep DEF CancelType, Service!Next
<1>12. CASE StoreRemove
  BY <1>12, CancelStep DEF Service!Next
<1>13. CASE StressEnds
  BY <1>13, ExpireStep DEF StressEnds, Service!Next
<1>14. CASE Restart
  BY <1>14, RestartStep DEF Service!Next
<1>15. CASE UNCHANGED vars
  BY <1>15, ExpireStep DEF vars, Service!Next
<1> QED BY <1>3, <1>4, <1>5, <1>6, <1>7, <1>8, <1>9, <1>10, <1>11, <1>12, <1>13, <1>14, <1>15,
           SMTT(30)
        DEF Next

\* The daemon implements the service that the executors rely on, for any number
\* of concurrent calls and any requests: a CancelChaos takes its own execution out
\* of the store and no other, unloads its program, and nothing that has ended comes
\* back.
THEOREM RefinesService == Spec => ImplementsService
<1> DEFINE A == \A id \in Ids : Attached(id)
           st == [id \in Ids |-> Stage(id)]
           rn == [id \in Ids |-> Runs(id)]
<1>1. Init => A
  BY DEF Init, Attached
<1>2. IInv /\ A /\ [Next]_vars => A'
  BY AttachedNext
<1>3. Init => Service!Init
  BY DEF Init, Service!Init, Stage, Runs, Over, NoCall
<1>4. IInv /\ A /\ A' /\ [Next]_vars => [Service!Next]_<<st, rn, restarts>>
  BY ServiceStep
<1> QED BY <1>1, <1>2, <1>3, <1>4, Invariance, PTL DEF Spec, ImplementsService, Service!Spec, Service!vars
=============================================================================
