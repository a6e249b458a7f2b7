------------------------- MODULE DaemonExecutorProofs -------------------------
(* What the executors promise to the daemons and to the experiment          *)
(* controller, for any number of experiments, targets and executions.       *)
EXTENDS DaemonExecutor, FiniteSetTheorems, TLAPS

\* The ids an executor can still cancel belong to their experiment, were
\* returned by a daemon and have not been cancelled.
KnownAreOwn ==
  \A exp \in Exps : \A id \in Known(exp) :
    exes[id].exp = exp /\ exes[id].acked /\ sent[id] = {}

\* Rollback has taken all the records, and none are made until it is over.
RecordsTaken ==
  \A exp \in Exps : calls[exp].op \in {"rollback", "rolledBack"} => records[exp] = {}

\* Each target that Execute is done with has an id.
DoneTargetsCovered ==
  \A exp \in Exps : calls[exp].op \in {"execute", "executed"} /\ kind.keeps =>
    \A target \in calls[exp].all \ calls[exp].todo :
      \E id \in records[exp] : exes[id].target = target

\* An execution that a Rollback has to undo can still be cancelled.
Accounted ==
  \A exp \in Exps : ~excused[exp] =>
    \A id \in Of(exp) :
      exes[id].acked /\ exes[id].stage \in (IF kind.checks THEN {"held", "lost"} ELSE {"held"})
      => id \in Known(exp)

\* No daemon accepts what it does not run, only an executor that keeps ids has ids
\* to keep, and a program does not outlive its execution.
FitsKind ==
  /\ Accepted # {} => kind.runs # "none"
  /\ \A id \in Accepted : exes[id].acked => kind.keeps
  /\ \A id \in Accepted : exes[id].runs = "ebpf" => exes[id].stage \in {"held", "gone"}

IInv ==
  /\ TypeOK /\ KnownAreOwn /\ OneOwnCancel /\ RecordsTaken
  /\ DoneTargetsCovered /\ Accounted /\ FitsKind

\* The table of executors: each has the type, and one that keeps ids of what a
\* daemon runs cancels them.
LEMMA Table ==
  \A k \in AllExecutors :
    /\ k \in ExecutorType
    /\ k.keeps /\ k.runs # "none" => k.cancels
PROOF
<1> TAKE k \in AllExecutors
<1>1. \/ k = NetworkExecutor("rules") \/ k = NetworkExecutor("ebpf")
      \/ k = PlainExecutor("rules") \/ k = PlainExecutor("stress")
      \/ k = ContainerKillExecutor \/ k = NodeRestartExecutor
  BY DEF AllExecutors, DelayExecutor, LossExecutor, CorruptExecutor, DuplicateExecutor,
    BandwidthExecutor, PartitionExecutor, EBPFLossExecutor, EBPFDelayExecutor,
    EBPFDNSExecutor, EtcdLatencyExecutor, PodCPUStressExecutor, PodMemoryStressExecutor,
    PodIOStressExecutor, DNSErrorExecutor, HTTPAbortExecutor, HTTPDelayExecutor,
    StressCPUExecutor, StressMemoryExecutor, NodeCPUStressExecutor
<1>2. k \in ExecutorType
  <2>1. NetworkExecutor("rules") \in ExecutorType /\ NetworkExecutor("ebpf") \in ExecutorType
    BY DEF ExecutorType, NetworkExecutor
  <2>2. PlainExecutor("rules") \in ExecutorType /\ PlainExecutor("stress") \in ExecutorType
    BY DEF ExecutorType, PlainExecutor
  <2>3. ContainerKillExecutor \in ExecutorType /\ NodeRestartExecutor \in ExecutorType
    BY DEF ExecutorType, ContainerKillExecutor, NodeRestartExecutor
  <2> QED
    BY <1>1, <2>1, <2>2, <2>3
<1>3. k.keeps /\ k.runs # "none" => k.cancels
  BY <1>1 DEF NetworkExecutor, PlainExecutor, ContainerKillExecutor, NodeRestartExecutor
<1> QED
  BY <1>2, <1>3

\* Nothing is known and nothing was sent at the start.
LEMMA InitIInv == Init => IInv
PROOF
<1> SUFFICES ASSUME Init PROVE IInv
  OBVIOUS
<1>1. Accepted = {}
  BY DEF Init, Accepted
<1>2. TypeOK
  BY <1>1, ExecutorAssumption DEF Init, TypeOK, Call, Returned, Idle, Execution, Accepted
<1>3. KnownAreOwn /\ RecordsTaken /\ DoneTargetsCovered
  BY DEF Init, KnownAreOwn, Known, Idle, RecordsTaken, DoneTargetsCovered
<1>4. OneOwnCancel /\ Accounted /\ FitsKind
  BY <1>1 DEF Init, OneOwnCancel, Accounted, Of, FitsKind
<1> QED
  BY <1>2, <1>3, <1>4 DEF IInv

\* What the acceptance of an execution does to exes.
LEMMA AcceptFacts ==
  ASSUME NEW id \in Ids \ Accepted, NEW exp \in Exps, NEW target \in Targets,
         NEW acked \in BOOLEAN, Accept(id, exp, target, acked),
         kind \in AllExecutors, kind.runs # "none",
         Accepted \subseteq Ids, exes \in [Accepted -> Execution]
  PROVE  /\ Accepted' = Accepted \cup {id}
         /\ exes' \in [Accepted' -> Execution]
         /\ \A i \in Accepted : exes'[i] = exes[i]
         /\ exes'[id].exp = exp /\ exes'[id].target = target
         /\ exes'[id].stage = "held" /\ exes'[id].acked = acked
         /\ exes'[id].runs \in TakesEffect
PROOF
<1>1. PICK runs \in TakesEffect :
        exes' = [i \in Accepted \cup {id} |->
                   IF i = id THEN [exp |-> exp, target |-> target, runs |-> runs,
                                   stage |-> "held", acked |-> acked]
                   ELSE exes[i]]
  BY DEF Accept
<1> DEFINE new == [exp |-> exp, target |-> target, runs |-> runs, stage |-> "held",
                   acked |-> acked]
<1>2. new \in Execution
  BY Table DEF Execution, TakesEffect, ExecutorType
<1>3. exes' = [i \in Accepted \cup {id} |-> IF i = id THEN new ELSE exes[i]]
  BY <1>1
<1>4. /\ new.exp = exp /\ new.target = target /\ new.runs = runs
      /\ new.stage = "held" /\ new.acked = acked
  OBVIOUS
<1> HIDE DEF new
<1>5. Accepted' = Accepted \cup {id}
  BY <1>3 DEF Accepted
<1>6. exes' \in [Accepted' -> Execution] /\ exes'[id] = new
  BY <1>2, <1>3, <1>5
<1>7. \A i \in Accepted : exes'[i] = exes[i]
  BY <1>3
<1> QED
  BY <1>4, <1>5, <1>6, <1>7

\* After an error Rollback is over or has one id less to do.
LEMMA AfterErrorFacts ==
  ASSUME NEW exp \in Exps, NEW id, calls \in [Exps -> Call], calls[exp].op = "rollback"
  PROVE  /\ AfterError(exp, id) \in Call
         /\ \/ /\ AfterError(exp, id).op = "rollback"
               /\ AfterError(exp, id).todo = calls[exp].todo \ {id}
            \/ /\ AfterError(exp, id).op = "idle"
               /\ AfterError(exp, id).todo = {}
PROOF
<1>1. CASE kind.goesOn
  BY <1>1 DEF AfterError, Call
<1>2. CASE ~kind.goesOn
  BY <1>2 DEF AfterError, Call, Idle, Returned
<1> QED
  BY <1>1, <1>2

\* A call with one id or target less to do.
LEMMA LessToDo ==
  ASSUME NEW exp \in Exps, NEW x, calls \in [Exps -> Call]
  PROVE  /\ [calls EXCEPT ![exp].todo = @ \ {x}] \in [Exps -> Call]
         /\ [calls EXCEPT ![exp].todo = @ \ {x}][exp].todo = calls[exp].todo \ {x}
         /\ [calls EXCEPT ![exp].todo = @ \ {x}][exp].op = calls[exp].op
         /\ [calls EXCEPT ![exp].todo = @ \ {x}][exp].all = calls[exp].all
         /\ \A e \in Exps \ {exp} : [calls EXCEPT ![exp].todo = @ \ {x}][e] = calls[e]
PROOF
BY DEF Call

\* Every step keeps the inductive invariant.
LEMMA NextIInv == IInv /\ [Next]_vars => IInv'
PROOF
<1> SUFFICES ASSUME IInv, [Next]_vars PROVE IInv'
  OBVIOUS
<1> USE ExecutorAssumption
<1>1. CASE ResolveTargets
  <2>1. TypeOK'
    BY <1>1, Table DEF IInv, TypeOK, KnownAreOwn, Call, Returned, Execution, Accepted,
      ResolveTargets, history, bounds
  <2>2. KnownAreOwn'
    BY <1>1 DEF IInv, TypeOK, KnownAreOwn, RecordsTaken, Known, Call, Returned, Accepted,
      ResolveTargets, history, bounds
  <2>3. OneOwnCancel'
    BY <1>1 DEF IInv, TypeOK, KnownAreOwn, OneOwnCancel, Execution, Accepted,
      ResolveTargets, history, bounds
  <2>4. RecordsTaken'
    BY <1>1 DEF IInv, TypeOK, RecordsTaken, Call, Returned, ResolveTargets, history, bounds
  <2>5. DoneTargetsCovered'
    BY <1>1 DEF IInv, TypeOK, DoneTargetsCovered, Call, Returned, Execution, Accepted,
      ResolveTargets, history, bounds
  <2>6. Accounted'
    BY <1>1 DEF IInv, TypeOK, KnownAreOwn, Accounted, RecordsTaken, Known, Of, Call,
      Returned, Execution, Accepted, ResolveTargets, history, bounds
  <2>7. FitsKind'
    BY <1>1 DEF IInv, TypeOK, FitsKind, Accepted, ResolveTargets, history, bounds
  <2> QED
    BY <2>1, <2>2, <2>3, <2>4, <2>5, <2>6, <2>7 DEF IInv
<1>2. CASE Exec
  <2>0. PICK exp \in Exps, target \in Targets, id \in Ids \ Accepted :
          /\ target \in calls[exp].todo
          /\ calls[exp].op = "execute" /\ kind.runs # "none"
          /\ Accept(id, exp, target, kind.keeps)
          /\ storeExecution(exp, id)
          /\ calls' = [calls EXCEPT ![exp].todo = @ \ {target}]
          /\ UNCHANGED <<kind, history, bounds>>
    BY <1>2 DEF Exec, IInv, TypeOK, Call
  <2>a. target \in Targets /\ kind.keeps \in BOOLEAN
    BY <2>0, Table DEF IInv, TypeOK, Call, ExecutorType
  <2>b. /\ Accepted' = Accepted \cup {id}
        /\ exes' \in [Accepted' -> Execution]
        /\ \A i \in Accepted : exes'[i] = exes[i]
        /\ exes'[id].exp = exp /\ exes'[id].target = target
        /\ exes'[id].stage = "held" /\ exes'[id].acked = kind.keeps
    BY <2>0, <2>a, AcceptFacts DEF IInv, TypeOK
  <2>c. /\ calls' \in [Exps -> Call]
        /\ calls'[exp].todo = calls[exp].todo \ {target}
        /\ calls'[exp].op = "execute" /\ calls'[exp].all = calls[exp].all
        /\ \A e \in Exps \ {exp} : calls'[e] = calls[e]
    BY <2>0, LessToDo DEF IInv, TypeOK
  <2>d. /\ records'[exp] = IF kind.keeps THEN records[exp] \cup {id} ELSE records[exp]
        /\ \A e \in Exps \ {exp} : records'[e] = records[e]
        /\ records' \in [Exps -> SUBSET Accepted']
    BY <2>0, <2>b DEF IInv, TypeOK, storeExecution
  <2>e. UNCHANGED <<kind, sent, twice, failures, excused, restarts, daemonRestarts>>
    BY <2>0 DEF history, bounds
  <2>1. TypeOK'
    <3>1. \A e \in Exps : calls'[e].todo \subseteq
            IF calls'[e].op = "execute" THEN calls'[e].all
            ELSE IF calls'[e].op = "rollback" THEN Accepted' ELSE {}
      BY <2>0, <2>b, <2>c DEF IInv, TypeOK
    <3>2. Accepted' \subseteq Ids
      BY <2>b DEF IInv, TypeOK
    <3> QED
      BY <2>b, <2>c, <2>d, <2>e, <3>1, <3>2 DEF IInv, TypeOK
  <2>2. KnownAreOwn'
    BY <2>b, <2>c, <2>d, <2>e DEF IInv, TypeOK, KnownAreOwn, OneOwnCancel, Known, Execution
  <2>3. OneOwnCancel'
    BY <2>b, <2>e DEF IInv, TypeOK, OneOwnCancel
  <2>4. RecordsTaken'
    BY <2>c, <2>d, <2>0 DEF IInv, RecordsTaken
  <2>5. DoneTargetsCovered'
    BY <2>0, <2>b, <2>c, <2>d, <2>e DEF IInv, TypeOK, DoneTargetsCovered
  <2>6. Accounted'
    BY <2>0, <2>b, <2>c, <2>d, <2>e DEF IInv, TypeOK, Accounted, Known, Of
  <2>7. FitsKind'
    BY <2>0, <2>b, <2>e DEF IInv, FitsKind
  <2> QED
    BY <2>1, <2>2, <2>3, <2>4, <2>5, <2>6, <2>7 DEF IInv
<1>3. CASE ExecFails
  <2>0. PICK exp \in Exps, target \in Targets :
          /\ target \in calls[exp].todo
          /\ calls[exp].op = "execute"
          /\ failures[exp] < MaxFailures
          /\ calls' = [calls EXCEPT ![exp] = Idle("idle")]
          /\ failures' = [failures EXCEPT ![exp] = @ + 1]
          /\ \/ UNCHANGED exes
             \/ kind.runs # "none" /\ \E id \in Ids \ Accepted : Accept(id, exp, target, FALSE)
          /\ UNCHANGED <<kind, records, sent, twice, excused, bounds>>
    BY <1>3 DEF ExecFails, IInv, TypeOK, Call
  <2>a. /\ Accepted \subseteq Accepted' /\ Accepted' \subseteq Ids
        /\ exes' \in [Accepted' -> Execution]
        /\ \A i \in Accepted : exes'[i] = exes[i]
        /\ \A i \in Accepted' \ Accepted :
             ~exes'[i].acked /\ exes'[i].stage = "held" /\ kind.runs # "none"
    <3>1. CASE UNCHANGED exes
      BY <3>1 DEF IInv, TypeOK, Accepted
    <3>2. ASSUME kind.runs # "none", NEW id \in Ids \ Accepted, Accept(id, exp, target, FALSE)
          PROVE  /\ Accepted \subseteq Accepted' /\ Accepted' \subseteq Ids
                 /\ exes' \in [Accepted' -> Execution]
                 /\ \A i \in Accepted : exes'[i] = exes[i]
                 /\ \A i \in Accepted' \ Accepted :
                      ~exes'[i].acked /\ exes'[i].stage = "held" /\ kind.runs # "none"
      <4>1. target \in Targets
        BY <2>0 DEF IInv, TypeOK, Call
      <4>2. /\ Accepted' = Accepted \cup {id}
            /\ exes' \in [Accepted' -> Execution]
            /\ \A i \in Accepted : exes'[i] = exes[i]
            /\ exes'[id].stage = "held" /\ ~exes'[id].acked
        BY <3>2, <4>1, AcceptFacts DEF IInv, TypeOK
      <4> QED
        BY <3>2, <4>2 DEF IInv, TypeOK
    <3> QED
      BY <2>0, <3>1, <3>2
  <2>b. /\ calls' \in [Exps -> Call]
        /\ calls'[exp].op = "idle" /\ calls'[exp].todo = {}
        /\ \A e \in Exps \ {exp} : calls'[e] = calls[e]
    BY <2>0 DEF IInv, TypeOK, Idle, Call, Returned
  <2>c. UNCHANGED <<kind, records, sent, twice, excused, restarts, daemonRestarts>>
    BY <2>0 DEF bounds
  <2>1. TypeOK'
    <3>1. failures' \in [Exps -> 0..MaxFailures]
      BY <2>0 DEF IInv, TypeOK
    <3>2. records' \in [Exps -> SUBSET Accepted']
      BY <2>a, <2>c DEF IInv, TypeOK
    <3> QED
      BY <2>a, <2>b, <2>c, <3>1, <3>2 DEF IInv, TypeOK
  <2>2. KnownAreOwn'
    BY <2>0, <2>a, <2>b, <2>c DEF IInv, TypeOK, KnownAreOwn, Known
  <2>3. OneOwnCancel'
    BY <2>a, <2>c DEF IInv, TypeOK, OneOwnCancel
  <2>4. RecordsTaken'
    BY <2>b, <2>c DEF IInv, RecordsTaken
  <2>5. DoneTargetsCovered'
    BY <2>a, <2>b, <2>c DEF IInv, TypeOK, DoneTargetsCovered
  <2>6. Accounted'
    BY <2>0, <2>a, <2>b, <2>c DEF IInv, TypeOK, Accounted, Known, Of
  <2>7. FitsKind'
    BY <2>a, <2>c DEF IInv, TypeOK, FitsKind
  <2> QED
    BY <2>1, <2>2, <2>3, <2>4, <2>5, <2>6, <2>7 DEF IInv
<1>4. CASE ExecuteReturns
  <2>1. TypeOK'
    <3>1. PICK exp \in Exps :
            /\ calls[exp].op = "execute" /\ calls[exp].todo = {}
            /\ calls' = [calls EXCEPT ![exp] = [@ EXCEPT !.op = "executed"]]
            /\ UNCHANGED <<kind, records, exes, history, bounds>>
      BY <1>4 DEF ExecuteReturns
    <3>2. calls' \in [Exps -> Call] /\ calls'[exp].todo = {}
      BY <3>1 DEF IInv, TypeOK, Call, Returned
    <3>3. \A e \in Exps \ {exp} : calls'[e] = calls[e]
      BY <3>1 DEF IInv, TypeOK
    <3> QED
      BY <3>1, <3>2, <3>3 DEF IInv, TypeOK, Accepted, history, bounds
  <2>2. KnownAreOwn'
    BY <1>4 DEF IInv, TypeOK, KnownAreOwn, RecordsTaken, Known, Call, Returned, Accepted,
      ExecuteReturns, history, bounds
  <2>3. OneOwnCancel'
    BY <1>4 DEF IInv, TypeOK, KnownAreOwn, OneOwnCancel, Execution, Accepted,
      ExecuteReturns, history, bounds
  <2>4. RecordsTaken'
    BY <1>4 DEF IInv, TypeOK, RecordsTaken, Call, Returned, ExecuteReturns, history, bounds
  <2>5. DoneTargetsCovered'
    BY <1>4 DEF IInv, TypeOK, DoneTargetsCovered, Call, Returned, Execution, Accepted,
      ExecuteReturns, history, bounds
  <2>6. Accounted'
    BY <1>4 DEF IInv, TypeOK, KnownAreOwn, Accounted, RecordsTaken, Known, Of, Call,
      Returned, Execution, Accepted, ExecuteReturns, history, bounds
  <2>7. FitsKind'
    BY <1>4 DEF IInv, TypeOK, FitsKind, Accepted, ExecuteReturns, history, bounds
  <2> QED
    BY <2>1, <2>2, <2>3, <2>4, <2>5, <2>6, <2>7 DEF IInv
<1>5. CASE TakeRecords
  <2>1. TypeOK'
    BY <1>5, Table DEF IInv, TypeOK, KnownAreOwn, Call, Returned, Execution, Accepted,
      TakeRecords, history, bounds
  <2>2. KnownAreOwn'
    BY <1>5 DEF IInv, TypeOK, KnownAreOwn, RecordsTaken, Known, Call, Returned, Accepted,
      TakeRecords, history, bounds
  <2>3. OneOwnCancel'
    BY <1>5 DEF IInv, TypeOK, KnownAreOwn, OneOwnCancel, Execution, Accepted, TakeRecords,
      history, bounds
  <2>4. RecordsTaken'
    BY <1>5 DEF IInv, TypeOK, RecordsTaken, Call, Returned, TakeRecords, history, bounds
  <2>5. DoneTargetsCovered'
    BY <1>5 DEF IInv, TypeOK, DoneTargetsCovered, Call, Returned, Execution, Accepted,
      TakeRecords, history, bounds
  <2>6. Accounted'
    <3> SUFFICES ASSUME NEW e \in Exps, ~excused'[e], NEW id \in Of(e)', exes'[id].acked,
                        exes'[id].stage \in (IF kind'.checks THEN {"held", "lost"} ELSE {"held"})
                 PROVE  id \in Known(e)'
      BY DEF Accounted
    <3>1. /\ UNCHANGED <<kind, exes, excused>> /\ id \in Of(e) /\ id \in Known(e)
          /\ exes[id].acked
          /\ kind.runs # "none" /\ Accepted # {}
      BY <1>5 DEF TakeRecords, history, IInv, TypeOK, Accounted, FitsKind, Of, Accepted
    <3>2. kind.cancels
      BY <3>1, Table DEF IInv, TypeOK, FitsKind, Of
    <3>3. PICK exp \in Exps :
            /\ calls[exp].op \in Returned
            /\ calls'[exp].op = "rollback" /\ calls'[exp].todo = records[exp]
            /\ \A x \in Exps \ {exp} : calls'[x] = calls[x] /\ records'[x] = records[x]
      BY <1>5, <3>2 DEF TakeRecords, IInv, TypeOK
    <3> QED
      BY <3>1, <3>3 DEF Known, Returned
  <2>7. FitsKind'
    BY <1>5 DEF IInv, TypeOK, FitsKind, Accepted, TakeRecords, history, bounds
  <2> QED
    BY <2>1, <2>2, <2>3, <2>4, <2>5, <2>6, <2>7 DEF IInv
<1>6. CASE Cancel
  <2>0. PICK exp \in Exps, id \in Ids, out \in {"gone", "left"} :
          /\ id \in calls[exp].todo
          /\ calls[exp].op = "rollback"
          /\ Send(exp, id)
          /\ \/ calls' = [calls EXCEPT ![exp].todo = @ \ {id}]
             \/ calls' = [calls EXCEPT ![exp] = AfterError(exp, id)]
          /\ exes[id].stage = "held" /\ exes' = [exes EXCEPT ![id].stage = out]
          /\ exes[id].runs = "ebpf" => out = "gone"
          /\ \/ calls' = [calls EXCEPT ![exp].todo = @ \ {id}] /\ UNCHANGED excused
             \/ excused' = [excused EXCEPT ![exp] = TRUE]
          /\ UNCHANGED <<kind, records, failures, bounds>>
    BY <1>6 DEF IInv, TypeOK, Call, Cancel
  <2>a. /\ calls' \in [Exps -> Call]
        /\ \/ calls'[exp].op = "rollback" /\ calls'[exp].todo = calls[exp].todo \ {id}
           \/ calls'[exp].op = "idle" /\ calls'[exp].todo = {}
        /\ \A e \in Exps \ {exp} : calls'[e] = calls[e]
    <3>1. CASE calls' = [calls EXCEPT ![exp].todo = @ \ {id}]
      BY <2>0, <3>1, LessToDo DEF IInv, TypeOK
    <3>2. CASE calls' = [calls EXCEPT ![exp] = AfterError(exp, id)]
      <4>1. calls \in [Exps -> Call]
        BY DEF IInv, TypeOK
      <4>2. /\ calls'[exp] = AfterError(exp, id)
            /\ \A e \in Exps \ {exp} : calls'[e] = calls[e]
        BY <3>2, <4>1
      <4>3. calls' \in [Exps -> Call]
        BY <2>0, <3>2, <4>1, AfterErrorFacts
      <4> QED
        BY <2>0, <4>1, <4>2, <4>3, AfterErrorFacts
    <3> QED
      BY <2>0, <3>1, <3>2
  <2>b. /\ id \in Accepted /\ id \in Known(exp) /\ sent[id] = {} /\ exes[id].exp = exp
        /\ exes[id].acked
    BY <2>0 DEF IInv, TypeOK, KnownAreOwn, Known
  <2>c. sent' = [sent EXCEPT ![id] = {exp}] /\ twice' = twice
    BY <2>0, <2>b DEF Send, IInv, TypeOK
  <2>d. /\ Accepted' = Accepted /\ exes' \in [Accepted -> Execution]
        /\ \A i \in Accepted : /\ exes'[i].exp = exes[i].exp /\ exes'[i].acked = exes[i].acked
                              /\ exes'[i].target = exes[i].target /\ exes'[i].runs = exes[i].runs
                              /\ exes'[i].stage = IF i = id THEN out ELSE exes[i].stage
    <3>1. exes \in [Accepted -> Execution]
      BY DEF IInv, TypeOK
    <3>2. exes' = [exes EXCEPT ![id] = [exes[id] EXCEPT !.stage = out]]
      BY <2>0, <2>b, <3>1
    <3>3. Accepted' = Accepted
      BY <3>1, <3>2 DEF Accepted
    <3>4. exes[id] \in Execution
      BY <2>b, <3>1
    <3>5. [exes[id] EXCEPT !.stage = out] \in Execution
      BY <3>4 DEF Execution
    <3>6. \A i \in Accepted \ {id} : exes'[i] = exes[i]
      BY <3>1, <3>2
    <3>7. exes'[id] = [exes[id] EXCEPT !.stage = out]
      BY <2>b, <3>1, <3>2
    <3>8. exes' \in [Accepted -> Execution]
      BY <3>1, <3>2, <3>5
    <3>9. \A i \in Accepted : exes[i] \in Execution
      BY <3>1
    <3> QED
      BY <2>b, <3>3, <3>4, <3>6, <3>7, <3>8, <3>9 DEF Execution
  <2>e. /\ UNCHANGED <<kind, records, failures, restarts, daemonRestarts>>
        /\ excused' \in [Exps -> BOOLEAN]
        /\ \A e \in Exps \ {exp} : excused'[e] = excused[e]
        /\ \/ excused'[exp]
           \/ excused'[exp] = excused[exp] /\ calls'[exp].op = "rollback"
    <3>1. CASE calls' = [calls EXCEPT ![exp].todo = @ \ {id}] /\ UNCHANGED excused
      BY <2>0, <3>1, LessToDo DEF IInv, TypeOK, bounds
    <3>2. CASE excused' = [excused EXCEPT ![exp] = TRUE]
      BY <2>0, <3>2 DEF IInv, TypeOK, bounds
    <3> QED
      BY <2>0, <3>1, <3>2
  <2>1. TypeOK'
    <3>1. \A e \in Exps : calls'[e].todo \subseteq
            IF calls'[e].op = "execute" THEN calls'[e].all
            ELSE IF calls'[e].op = "rollback" THEN Accepted ELSE {}
      BY <2>0, <2>a DEF IInv, TypeOK
    <3>2. sent' \in [Ids -> SUBSET Exps] /\ twice' \subseteq Ids
      BY <2>c DEF IInv, TypeOK
    <3>3. exes' \in [Accepted' -> Execution]
      BY <2>d DEF IInv, TypeOK
    <3> QED
      BY <2>a, <2>d, <2>e, <3>1, <3>2, <3>3 DEF IInv, TypeOK
  <2>2. KnownAreOwn'
    <3> SUFFICES ASSUME NEW e \in Exps, NEW i \in Known(e)'
                 PROVE  exes'[i].exp = e /\ exes'[i].acked /\ sent'[i] = {}
      BY DEF KnownAreOwn
    <3>1. i \in Known(e) /\ i \in Accepted
      BY <2>0, <2>a, <2>e DEF Known, IInv, TypeOK
    <3>2. i # id
      BY <2>0, <2>a, <2>b, <2>e, <3>1 DEF Known, IInv, KnownAreOwn, RecordsTaken
    <3> QED
      BY <2>c, <2>d, <3>1, <3>2 DEF IInv, TypeOK, KnownAreOwn
  <2>3. OneOwnCancel'
    BY <2>b, <2>c, <2>d DEF IInv, TypeOK, OneOwnCancel
  <2>4. RecordsTaken'
    BY <2>0, <2>a, <2>e DEF IInv, RecordsTaken
  <2>5. DoneTargetsCovered'
    BY <2>0, <2>a, <2>d, <2>e DEF IInv, TypeOK, DoneTargetsCovered
  <2>6. Accounted'
    BY <2>0, <2>a, <2>b, <2>d, <2>e DEF IInv, TypeOK, Accounted, RecordsTaken, Known, Of
  <2>7. FitsKind'
    BY <2>0, <2>b, <2>d, <2>e DEF IInv, FitsKind
  <2> QED
    BY <2>1, <2>2, <2>3, <2>4, <2>5, <2>6, <2>7 DEF IInv
<1>7. CASE CancelNotFound
  <2>f. PICK exp \in Exps, id \in Ids :
          /\ id \in calls[exp].todo
          /\ calls[exp].op = "rollback"
          /\ exes[id].stage # "held"
          /\ Send(exp, id)
          /\ \/ /\ kind.checks
                /\ calls' = [calls EXCEPT ![exp] = AfterError(exp, id)]
                /\ excused' = [excused EXCEPT ![exp] = TRUE]
             \/ /\ ~kind.checks
                /\ calls' = [calls EXCEPT ![exp].todo = @ \ {id}]
                /\ UNCHANGED excused
          /\ UNCHANGED <<kind, records, exes, failures, bounds>>
    BY <1>7 DEF CancelNotFound, IInv, TypeOK
  <2>0. /\ id \in calls[exp].todo
        /\ calls[exp].op = "rollback"
        /\ exes[id].stage # "held"
        /\ Send(exp, id)
        /\ \/ kind.checks /\ calls' = [calls EXCEPT ![exp] = AfterError(exp, id)]
           \/ ~kind.checks /\ calls' = [calls EXCEPT ![exp].todo = @ \ {id}]
    BY <2>f
  <2>a. /\ calls' \in [Exps -> Call]
        /\ \/ calls'[exp].op = "rollback" /\ calls'[exp].todo = calls[exp].todo \ {id}
           \/ calls'[exp].op = "idle" /\ calls'[exp].todo = {}
        /\ \A e \in Exps \ {exp} : calls'[e] = calls[e]
    <3>1. CASE calls' = [calls EXCEPT ![exp].todo = @ \ {id}]
      BY <2>0, <3>1, LessToDo DEF IInv, TypeOK
    <3>2. CASE calls' = [calls EXCEPT ![exp] = AfterError(exp, id)]
      <4>1. calls \in [Exps -> Call]
        BY DEF IInv, TypeOK
      <4>2. /\ calls'[exp] = AfterError(exp, id)
            /\ \A e \in Exps \ {exp} : calls'[e] = calls[e]
        BY <3>2, <4>1
      <4>3. calls' \in [Exps -> Call]
        BY <2>0, <3>2, <4>1, AfterErrorFacts
      <4> QED
        BY <2>0, <4>1, <4>2, <4>3, AfterErrorFacts
    <3> QED
      BY <2>0, <3>1, <3>2
  <2>b. /\ id \in Accepted /\ id \in Known(exp) /\ sent[id] = {} /\ exes[id].exp = exp
        /\ exes[id].acked
    BY <2>0 DEF IInv, TypeOK, KnownAreOwn, Known
  <2>c. sent' = [sent EXCEPT ![id] = {exp}] /\ twice' = twice
    BY <2>0, <2>b DEF Send, IInv, TypeOK
  <2>d. Accepted' = Accepted /\ exes' = exes
    BY <2>f DEF Accepted
  <2>e. /\ UNCHANGED <<kind, records, failures, restarts, daemonRestarts>>
        /\ excused' \in [Exps -> BOOLEAN]
        /\ \A e \in Exps \ {exp} : excused'[e] = excused[e]
        /\ \/ excused'[exp]
           \/ excused'[exp] = excused[exp] /\ ~kind.checks /\ calls'[exp].op = "rollback"
    <3>1. CASE kind.checks
      BY <2>f, <3>1 DEF IInv, TypeOK, bounds
    <3>2. CASE ~kind.checks
      <4>1. calls'[exp].op = "rollback"
        <5>1. calls' = [calls EXCEPT ![exp].todo = @ \ {id}] /\ calls \in [Exps -> Call]
          BY <2>0, <3>2 DEF IInv, TypeOK
        <5>2. [calls EXCEPT ![exp].todo = @ \ {id}][exp].op = calls[exp].op
          BY <5>1, LessToDo
        <5> QED
          BY <2>0, <5>1, <5>2
      <4>2. excused' = excused
        BY <2>f, <3>2 DEF IInv, TypeOK
      <4> QED
        BY <2>f, <3>2, <4>1, <4>2 DEF IInv, TypeOK, bounds
    <3> QED
      BY <3>1, <3>2
  <2>1. TypeOK'
    <3>1. \A e \in Exps : calls'[e].todo \subseteq
            IF calls'[e].op = "execute" THEN calls'[e].all
            ELSE IF calls'[e].op = "rollback" THEN Accepted ELSE {}
      BY <2>0, <2>a DEF IInv, TypeOK
    <3>2. sent' \in [Ids -> SUBSET Exps] /\ twice' \subseteq Ids
      BY <2>c DEF IInv, TypeOK
    <3>3. exes' \in [Accepted' -> Execution]
      BY <2>d DEF IInv, TypeOK
    <3> QED
      BY <2>a, <2>d, <2>e, <3>1, <3>2, <3>3 DEF IInv, TypeOK
  <2>2. KnownAreOwn'
    <3> SUFFICES ASSUME NEW e \in Exps, NEW i \in Known(e)'
                 PROVE  exes'[i].exp = e /\ exes'[i].acked /\ sent'[i] = {}
      BY DEF KnownAreOwn
    <3>1. i \in Known(e) /\ i \in Accepted
      BY <2>0, <2>a, <2>e DEF Known, IInv, TypeOK
    <3>2. i # id
      BY <2>0, <2>a, <2>b, <2>e, <3>1 DEF Known, IInv, KnownAreOwn, RecordsTaken
    <3> QED
      BY <2>c, <2>d, <3>1, <3>2 DEF IInv, TypeOK, KnownAreOwn
  <2>3. OneOwnCancel'
    BY <2>b, <2>c, <2>d DEF IInv, TypeOK, OneOwnCancel
  <2>4. RecordsTaken'
    BY <2>0, <2>a, <2>e DEF IInv, RecordsTaken
  <2>5. DoneTargetsCovered'
    BY <2>0, <2>a, <2>d, <2>e DEF IInv, TypeOK, DoneTargetsCovered
  <2>6. Accounted'
    BY <2>0, <2>a, <2>b, <2>d, <2>e DEF IInv, TypeOK, Accounted, RecordsTaken, Known, Of
  <2>7. FitsKind'
    BY <2>d, <2>e DEF IInv, FitsKind
  <2> QED
    BY <2>1, <2>2, <2>3, <2>4, <2>5, <2>6, <2>7 DEF IInv
<1>8. CASE CancelFails
  <2>0. PICK exp \in Exps, id \in Ids :
          /\ id \in calls[exp].todo
          /\ calls[exp].op = "rollback"
          /\ Send(exp, id)
          /\ \/ calls' = [calls EXCEPT ![exp].todo = @ \ {id}]
             \/ calls' = [calls EXCEPT ![exp] = AfterError(exp, id)]
          /\ excused' = [excused EXCEPT ![exp] = TRUE]
          /\ UNCHANGED <<kind, records, exes, failures, bounds>>
    BY <1>8 DEF IInv, TypeOK, Call, CancelFails
  <2>a. /\ calls' \in [Exps -> Call]
        /\ \/ calls'[exp].op = "rollback" /\ calls'[exp].todo = calls[exp].todo \ {id}
           \/ calls'[exp].op = "idle" /\ calls'[exp].todo = {}
        /\ \A e \in Exps \ {exp} : calls'[e] = calls[e]
    <3>1. CASE calls' = [calls EXCEPT ![exp].todo = @ \ {id}]
      BY <2>0, <3>1, LessToDo DEF IInv, TypeOK
    <3>2. CASE calls' = [calls EXCEPT ![exp] = AfterError(exp, id)]
      <4>1. calls \in [Exps -> Call]
        BY DEF IInv, TypeOK
      <4>2. /\ calls'[exp] = AfterError(exp, id)
            /\ \A e \in Exps \ {exp} : calls'[e] = calls[e]
        BY <3>2, <4>1
      <4>3. calls' \in [Exps -> Call]
        BY <2>0, <3>2, <4>1, AfterErrorFacts
      <4> QED
        BY <2>0, <4>1, <4>2, <4>3, AfterErrorFacts
    <3> QED
      BY <2>0, <3>1, <3>2
  <2>b. /\ id \in Accepted /\ id \in Known(exp) /\ sent[id] = {} /\ exes[id].exp = exp
        /\ exes[id].acked
    BY <2>0 DEF IInv, TypeOK, KnownAreOwn, Known
  <2>c. sent' = [sent EXCEPT ![id] = {exp}] /\ twice' = twice
    BY <2>0, <2>b DEF Send, IInv, TypeOK
  <2>d. Accepted' = Accepted /\ exes' = exes
    BY <2>0 DEF Accepted
  <2>e. /\ UNCHANGED <<kind, records, failures, restarts, daemonRestarts>>
        /\ excused' \in [Exps -> BOOLEAN]
        /\ \A e \in Exps \ {exp} : excused'[e] = excused[e]
        /\ excused'[exp]
    BY <2>0 DEF IInv, TypeOK, bounds
  <2>1. TypeOK'
    <3>1. \A e \in Exps : calls'[e].todo \subseteq
            IF calls'[e].op = "execute" THEN calls'[e].all
            ELSE IF calls'[e].op = "rollback" THEN Accepted ELSE {}
      BY <2>0, <2>a DEF IInv, TypeOK
    <3>2. sent' \in [Ids -> SUBSET Exps] /\ twice' \subseteq Ids
      BY <2>c DEF IInv, TypeOK
    <3>3. exes' \in [Accepted' -> Execution]
      BY <2>d DEF IInv, TypeOK
    <3> QED
      BY <2>a, <2>d, <2>e, <3>1, <3>2, <3>3 DEF IInv, TypeOK
  <2>2. KnownAreOwn'
    <3> SUFFICES ASSUME NEW e \in Exps, NEW i \in Known(e)'
                 PROVE  exes'[i].exp = e /\ exes'[i].acked /\ sent'[i] = {}
      BY DEF KnownAreOwn
    <3>1. i \in Known(e) /\ i \in Accepted
      BY <2>0, <2>a, <2>e DEF Known, IInv, TypeOK
    <3>2. i # id
      BY <2>0, <2>a, <2>b, <2>e, <3>1 DEF Known, IInv, KnownAreOwn, RecordsTaken
    <3> QED
      BY <2>c, <2>d, <3>1, <3>2 DEF IInv, TypeOK, KnownAreOwn
  <2>3. OneOwnCancel'
    BY <2>b, <2>c, <2>d DEF IInv, TypeOK, OneOwnCancel
  <2>4. RecordsTaken'
    BY <2>0, <2>a, <2>e DEF IInv, RecordsTaken
  <2>5. DoneTargetsCovered'
    BY <2>0, <2>a, <2>d, <2>e DEF IInv, TypeOK, DoneTargetsCovered
  <2>6. Accounted'
    BY <2>0, <2>a, <2>b, <2>d, <2>e DEF IInv, TypeOK, Accounted, RecordsTaken, Known, Of
  <2>7. FitsKind'
    BY <2>d, <2>e DEF IInv, FitsKind
  <2> QED
    BY <2>1, <2>2, <2>3, <2>4, <2>5, <2>6, <2>7 DEF IInv
<1>9. CASE RollbackReturns
  <2>1. TypeOK'
    BY <1>9, Table DEF IInv, TypeOK, KnownAreOwn, Call, Returned, Execution, Accepted,
      RollbackReturns, history, bounds, Idle
  <2>2. KnownAreOwn'
    BY <1>9 DEF IInv, TypeOK, KnownAreOwn, RecordsTaken, Known, Call, Returned, Accepted,
      RollbackReturns, history, bounds, Idle
  <2>3. OneOwnCancel'
    BY <1>9 DEF IInv, TypeOK, KnownAreOwn, OneOwnCancel, Execution, Accepted,
      RollbackReturns, history, bounds, Idle
  <2>4. RecordsTaken'
    BY <1>9 DEF IInv, TypeOK, RecordsTaken, Call, Returned, RollbackReturns, history,
      bounds, Idle
  <2>5. DoneTargetsCovered'
    BY <1>9 DEF IInv, TypeOK, DoneTargetsCovered, Call, Returned, Execution, Accepted,
      RollbackReturns, history, bounds, Idle
  <2>6. Accounted'
    BY <1>9 DEF IInv, TypeOK, KnownAreOwn, Accounted, RecordsTaken, Known, Of, Call,
      Returned, Execution, Accepted, RollbackReturns, history, bounds, Idle
  <2>7. FitsKind'
    BY <1>9 DEF IInv, TypeOK, FitsKind, Accepted, RollbackReturns, history, bounds, Idle
  <2> QED
    BY <2>1, <2>2, <2>3, <2>4, <2>5, <2>6, <2>7 DEF IInv
<1>10. CASE DaemonRestart
  <2>0. PICK here \in SUBSET Targets, ended \in {{"ebpf"}, {"ebpf", "stress"}} :
          exes' = [id \in Accepted |->
                     IF exes[id].target \in here /\ exes[id].stage = "held"
                     THEN [exes[id] EXCEPT !.stage = IF exes[id].runs \in ended THEN "gone"
                                                     ELSE "lost"]
                     ELSE exes[id]]
    BY <1>10 DEF DaemonRestart
  <2>a. /\ Accepted' = Accepted
        /\ exes' \in [Accepted -> Execution]
    BY <2>0 DEF IInv, TypeOK, Execution, Accepted
  <2>1. TypeOK'
    BY <1>10, <2>a DEF IInv, TypeOK, DaemonRestart, history
  <2>2. KnownAreOwn'
    BY <1>10 DEF IInv, TypeOK, KnownAreOwn, RecordsTaken, Known, Call, Returned, Accepted,
      DaemonRestart, history, bounds
  <2>3. OneOwnCancel'
    BY <1>10 DEF IInv, TypeOK, KnownAreOwn, OneOwnCancel, Execution, Accepted,
      DaemonRestart, history, bounds
  <2>4. RecordsTaken'
    BY <1>10 DEF IInv, TypeOK, RecordsTaken, Call, Returned, DaemonRestart, history, bounds
  <2>5. DoneTargetsCovered'
    BY <1>10 DEF IInv, TypeOK, DoneTargetsCovered, Call, Returned, Execution, Accepted,
      DaemonRestart, history, bounds
  <2>6. Accounted'
    BY <1>10 DEF IInv, TypeOK, KnownAreOwn, Accounted, RecordsTaken, Known, Of, Call,
      Returned, Execution, Accepted, DaemonRestart, history, bounds
  <2>7. FitsKind'
    <3>1. \A id \in Accepted : /\ exes'[id].acked = exes[id].acked /\ exes'[id].runs = exes[id].runs
                               /\ \/ exes'[id].stage = exes[id].stage
                                  \/ exes'[id].stage = IF exes[id].runs \in ended THEN "gone" ELSE "lost"
      BY <2>0 DEF IInv, TypeOK, Execution
    <3> QED
      BY <1>10, <2>a, <3>1 DEF IInv, FitsKind, DaemonRestart
  <2> QED
    BY <2>1, <2>2, <2>3, <2>4, <2>5, <2>6, <2>7 DEF IInv
<1>11. CASE Restart
  <2>1. TypeOK'
    BY <1>11, Table DEF IInv, TypeOK, KnownAreOwn, Call, Returned, Execution, Accepted,
      Restart, history, bounds, Idle
  <2>2. KnownAreOwn'
    BY <1>11 DEF IInv, TypeOK, KnownAreOwn, RecordsTaken, Known, Call, Returned, Accepted,
      Restart, history, bounds, Idle
  <2>3. OneOwnCancel'
    BY <1>11 DEF IInv, TypeOK, KnownAreOwn, OneOwnCancel, Execution, Accepted, Restart,
      history, bounds, Idle
  <2>4. RecordsTaken'
    BY <1>11 DEF IInv, TypeOK, RecordsTaken, Call, Returned, Restart, history, bounds, Idle
  <2>5. DoneTargetsCovered'
    BY <1>11 DEF IInv, TypeOK, DoneTargetsCovered, Call, Returned, Execution, Accepted,
      Restart, history, bounds, Idle
  <2>6. Accounted'
    BY <1>11 DEF IInv, TypeOK, KnownAreOwn, Accounted, RecordsTaken, Known, Of, Call,
      Returned, Execution, Accepted, Restart, history, bounds, Idle
  <2>7. FitsKind'
    BY <1>11 DEF IInv, TypeOK, FitsKind, Accepted, Restart, history, bounds, Idle
  <2> QED
    BY <2>1, <2>2, <2>3, <2>4, <2>5, <2>6, <2>7 DEF IInv
<1>12. CASE UNCHANGED vars
  BY <1>12 DEF vars, IInv, TypeOK, KnownAreOwn, OneOwnCancel, RecordsTaken,
    DoneTargetsCovered, Accounted, FitsKind, Known, Of, Accepted
<1> QED
  BY <1>1, <1>2, <1>3, <1>4, <1>5, <1>6, <1>7, <1>8, <1>9, <1>10, <1>11, <1>12 DEF Next

\* The inductive invariant holds throughout.
LEMMA AlwaysIInv == Spec => []IInv
PROOF
BY InitIInv, NextIInv, PTL DEF Spec

\* Every variable has its type; in particular no id is kept that a daemon has
\* not accepted.
THEOREM TypeCorrect == Spec => []TypeOK
PROOF
<1>1. IInv => TypeOK
  BY DEF IInv
<1> QED
  BY <1>1, AlwaysIInv, PTL

\* Rollback cancels what its own experiment executed, and each id once.
THEOREM CancelsOwnOnce == Spec => []OneOwnCancel
PROOF
<1>1. IInv => OneOwnCancel
  BY DEF IInv
<1> QED
  BY <1>1, AlwaysIInv, PTL

\* When Execute has returned nil there is an id to cancel for every target.
THEOREM ExecuteIsCovered == Spec => []ExecuteCovers
PROOF
<1>1. IInv => ExecuteCovers
  <2> SUFFICES ASSUME IInv, NEW exp \in Exps, calls[exp].op = "executed", kind.keeps,
                      NEW target \in calls[exp].all
               PROVE  \E id \in records[exp] : exes[id].target = target
    BY DEF ExecuteCovers
  <2>1. calls[exp].todo = {}
    BY DEF IInv, TypeOK
  <2> QED
    BY <2>1 DEF IInv, DoneTargetsCovered
<1> QED
  BY <1>1, AlwaysIInv, PTL

\* When Rollback has returned nil, no daemon has anything left to cancel for it, what
\* ran as a program is gone, and an executor that looks at replies has found it all.
THEOREM NilIsCancelled == Spec => []NilMeansCancelled
PROOF
<1>1. IInv => NilMeansCancelled
  <2> SUFFICES ASSUME IInv, NEW exp \in Exps, calls[exp].op = "rolledBack", ~excused[exp],
                      NEW id \in Of(exp), exes[id].acked
               PROVE  /\ exes[id].stage # "held"
                      /\ exes[id].runs = "ebpf" => exes[id].stage = "gone"
                      /\ kind.checks => exes[id].stage # "lost"
    BY DEF NilMeansCancelled
  <2>1. Known(exp) = {}
    BY DEF IInv, RecordsTaken, Known
  <2>2. exes[id].stage \notin (IF kind.checks THEN {"held", "lost"} ELSE {"held"})
    BY <2>1 DEF IInv, Accounted
  <2>3. exes[id].runs = "ebpf" => exes[id].stage \in {"held", "gone"}
    BY DEF IInv, FitsKind, Of
  <2> QED
    BY <2>2, <2>3
<1> QED
  BY <1>1, AlwaysIInv, PTL

\* A new execution is unnamed for its own experiment, if it is not acknowledged.
LEMMA UnnamedAccept ==
  ASSUME NEW id \in Ids \ Accepted, NEW exp \in Exps, NEW target \in Targets,
         NEW acked \in BOOLEAN, Accept(id, exp, target, acked), TypeOK, kind.runs # "none",
         NEW e \in Exps
  PROVE  /\ acked \/ e # exp => Unnamed(e)' = Unnamed(e)
         /\ ~acked /\ e = exp => Unnamed(e)' = Unnamed(e) \cup {id}
PROOF
<1>1. /\ Accepted' = Accepted \cup {id}
      /\ \A i \in Accepted : exes'[i] = exes[i]
      /\ exes'[id].exp = exp /\ exes'[id].acked = acked
  BY AcceptFacts DEF TypeOK
<1>2. exes'[id].exp = exp /\ exes'[id].acked = acked
  BY <1>1
<1>3. /\ Unnamed(e)' \ {id} = Unnamed(e)
      /\ id \notin Unnamed(e)
      /\ id \in Unnamed(e)' <=> exes'[id].exp = e /\ ~exes'[id].acked
  BY <1>1 DEF Unnamed, Of
<1>4. CASE acked \/ e # exp
  BY <1>2, <1>3, <1>4
<1>5. CASE ~acked /\ e = exp
  BY <1>2, <1>3, <1>5
<1> QED
  BY <1>4, <1>5

\* An execution that changes its stage only stays named or unnamed.
LEMMA UnnamedSame ==
  ASSUME Accepted' = Accepted,
         \A id \in Accepted : exes'[id].exp = exes[id].exp /\ exes'[id].acked = exes[id].acked
  PROVE  \A e \in Exps : Unnamed(e)' = Unnamed(e)
PROOF
BY DEF Unnamed, Of

\* No step but a failing call makes an execution that nobody has the id of, and
\* that one makes at most one.
LEMMA NextOneLost ==
  TypeOK /\ OneLostPerError /\ [Next]_vars => OneLostPerError'
PROOF
<1> SUFFICES ASSUME TypeOK, OneLostPerError, [Next]_vars,
                    NEW e \in Exps, kind'.keeps
             PROVE  Cardinality(Unnamed(e)') <= failures'[e]
  BY DEF OneLostPerError
<1>a. kind' = kind
  BY DEF Next, vars, ResolveTargets, Exec, ExecFails, ExecuteReturns, TakeRecords, Cancel,
    CancelNotFound, CancelFails, RollbackReturns, DaemonRestart, Restart
<1>b. IsFiniteSet(Unnamed(e)) /\ Cardinality(Unnamed(e)) \in Nat
  BY ExecutorAssumption, FS_Subset, FS_CardinalityType DEF Unnamed, Of, TypeOK
<1>c. Cardinality(Unnamed(e)) <= failures[e] /\ failures[e] \in Nat
  BY <1>a DEF OneLostPerError, TypeOK
<1>1. ASSUME Accepted' = Accepted, failures' = failures,
             \A id \in Accepted : /\ exes'[id].exp = exes[id].exp
                                  /\ exes'[id].acked = exes[id].acked
      PROVE  Cardinality(Unnamed(e)') <= failures'[e]
  BY <1>1, <1>c, UnnamedSame
<1>2. CASE UNCHANGED <<exes, failures>>
  BY <1>1, <1>2 DEF Accepted
<1>3. CASE \/ ResolveTargets \/ ExecuteReturns \/ TakeRecords \/ CancelNotFound
           \/ CancelFails \/ RollbackReturns \/ Restart \/ UNCHANGED vars
  BY <1>2, <1>3 DEF vars, history, ResolveTargets, ExecuteReturns, TakeRecords,
    CancelNotFound, CancelFails, RollbackReturns, Restart
<1>4. CASE Exec
  <2>1. PICK exp \in Exps, target \in Targets, id \in Ids \ Accepted :
          Accept(id, exp, target, kind.keeps) /\ kind.runs # "none" /\ failures' = failures
    <3>1. PICK exp \in Exps : \E target \in calls[exp].todo, id \in Ids \ Accepted :
            /\ calls[exp].op = "execute" /\ Accept(id, exp, target, kind.keeps)
            /\ kind.runs # "none" /\ failures' = failures
      BY <1>4 DEF Exec, history
    <3>2. calls[exp].op = "execute" => calls[exp].todo \subseteq Targets
      BY DEF TypeOK, Call
    <3> QED
      BY <3>1, <3>2
  <2>2. kind.keeps \in BOOLEAN
    BY Table DEF TypeOK, ExecutorType
  <2>3. Unnamed(e)' = Unnamed(e)
    BY <1>a, <2>1, <2>2, UnnamedAccept
  <2> QED
    BY <1>c, <2>1, <2>3
<1>5. CASE ExecFails
  <2>1. PICK exp \in Exps, target \in Targets :
          /\ failures' = [failures EXCEPT ![exp] = @ + 1]
          /\ \/ UNCHANGED exes
             \/ kind.runs # "none" /\ \E id \in Ids \ Accepted : Accept(id, exp, target, FALSE)
    <3>1. PICK exp \in Exps : \E target \in calls[exp].todo :
            /\ calls[exp].op = "execute"
            /\ failures' = [failures EXCEPT ![exp] = @ + 1]
            /\ \/ UNCHANGED exes
               \/ kind.runs # "none" /\ \E id \in Ids \ Accepted : Accept(id, exp, target, FALSE)
      BY <1>5 DEF ExecFails
    <3>2. calls[exp].op = "execute" => calls[exp].todo \subseteq Targets
      BY DEF TypeOK, Call
    <3> QED
      BY <3>1, <3>2
  <2>2. failures'[e] = IF e = exp THEN failures[e] + 1 ELSE failures[e]
    BY <2>1 DEF TypeOK
  <2>3. CASE UNCHANGED exes
    <3>1. Unnamed(e)' = Unnamed(e)
      BY <2>3 DEF Unnamed, Of, Accepted
    <3> QED
      BY <1>b, <1>c, <2>2, <3>1
  <2>4. CASE kind.runs # "none" /\ \E id \in Ids \ Accepted : Accept(id, exp, target, FALSE)
    <3>1. PICK id \in Ids \ Accepted : Accept(id, exp, target, FALSE)
      BY <2>4
    <3>2. /\ e = exp => Unnamed(e)' = Unnamed(e) \cup {id}
          /\ e # exp => Unnamed(e)' = Unnamed(e)
      BY <2>4, <3>1, UnnamedAccept
    <3>3. id \notin Unnamed(e)
      BY DEF Unnamed, Of
    <3>4. CASE e = exp
      <4>1. Cardinality(Unnamed(e)') = Cardinality(Unnamed(e)) + 1
        BY <1>b, <3>2, <3>3, <3>4, FS_AddElement
      <4> QED
        BY <1>b, <1>c, <2>2, <3>4, <4>1
    <3>5. CASE e # exp
      BY <1>c, <2>2, <3>2, <3>5
    <3> QED
      BY <3>4, <3>5
  <2> QED
    BY <2>1, <2>3, <2>4
<1>6. CASE Cancel
  <2>1. PICK id \in Ids, out \in {"gone", "left"} :
          exes' = [exes EXCEPT ![id].stage = out] /\ failures' = failures
    BY <1>6 DEF Cancel, TypeOK
  <2>2. /\ Accepted' = Accepted
        /\ \A i \in Accepted : exes'[i].exp = exes[i].exp /\ exes'[i].acked = exes[i].acked
    BY <2>1 DEF TypeOK, Accepted, Execution
  <2> QED
    BY <1>1, <2>1, <2>2
<1>7. CASE DaemonRestart
  <2>1. /\ Accepted' = Accepted
        /\ \A i \in Accepted : exes'[i].exp = exes[i].exp /\ exes'[i].acked = exes[i].acked
    BY <1>7 DEF DaemonRestart, TypeOK, Accepted, Execution
  <2> QED
    BY <1>1, <1>7, <2>1 DEF DaemonRestart, history
<1> QED
  BY <1>3, <1>4, <1>5, <1>6, <1>7 DEF Next

\* There are at most as many executions that nobody has the id of as there were
\* errors of Execute, for an executor that keeps ids.
THEOREM OneLost == Spec => []OneLostPerError
PROOF
<1>1. Init => OneLostPerError
  <2> SUFFICES ASSUME Init, NEW exp \in Exps
               PROVE  Cardinality(Unnamed(exp)) <= failures[exp]
    BY DEF OneLostPerError
  <2>1. Unnamed(exp) = {}
    BY DEF Init, Unnamed, Of, Accepted
  <2> QED
    BY <2>1, FS_EmptySet DEF Init
<1> QED
  BY <1>1, NextOneLost, TypeCorrect, PTL DEF Spec
-----------------------------------------------------------------------------
\* The executors see nothing of the daemons that module Daemon does not show a
\* daemon to do: every change of an execution, by a call whose reply may be lost, a
\* cancellation or the restart of some daemons, is one that the service allows.
THEOREM RelyOnService == Spec => AssumesService
<1> DEFINE st == [id \in Ids |-> IF id \in Accepted THEN Seen(id) ELSE "new"]
           rn == [id \in Ids |-> IF id \in Accepted THEN exes[id].runs ELSE "none"]
<1>1. Init => Service!Init
  BY DEF Init, Service!Init, Accepted
<1>2. ASSUME IInv, [Next]_vars PROVE [Service!Next]_<<st, rn, daemonRestarts>>
  <2>0. /\ Accepted \subseteq Ids /\ exes \in [Accepted -> Execution]
        /\ kind \in AllExecutors
    BY <1>2 DEF IInv, TypeOK
  <2>1. ASSUME NEW exp \in Exps, NEW target \in Targets, NEW acked \in BOOLEAN,
               NEW i \in Ids \ Accepted, Accept(i, exp, target, acked), kind.runs # "none",
               UNCHANGED daemonRestarts
        PROVE  Service!End
    <3>1. /\ Accepted' = Accepted \cup {i} /\ exes'[i].stage = "held"
          /\ exes'[i].runs \in {"rules", "ebpf", "stress"}
          /\ \A id \in Accepted : exes'[id] = exes[id]
      BY <2>0, <2>1, AcceptFacts DEF Execution
    <3>2. PICK r \in {"rules", "ebpf", "stress"} : r = exes'[i].runs
      BY <3>1
    <3>3. st' = [st EXCEPT ![i] = "held"] /\ rn' = [rn EXCEPT ![i] = r]
      BY <2>1, <3>1, <3>2 DEF Seen
    <3>4. st[i] = "new" /\ r \in Service!Kinds
      BY <2>1, <3>2 DEF Service!Kinds
    <3> QED BY <2>1, <3>3, <3>4 DEF Service!End
  <2>2. CASE UNCHANGED <<exes, kind, daemonRestarts>>
    BY <2>2 DEF Accepted, Seen
  <2>a. \A exp \in Exps : calls[exp].op = "execute" => calls[exp].todo \subseteq Targets
    BY <1>2 DEF IInv, TypeOK, Call
  <2>3. CASE Exec
    <3>1. kind.keeps \in BOOLEAN
      BY <2>0, Table DEF ExecutorType
    <3> QED BY <2>1, <2>3, <2>a, <3>1 DEF Exec, bounds, Service!Next
  <2>4. CASE ExecFails
    BY <2>1, <2>2, <2>4, <2>a DEF ExecFails, bounds, Service!Next
  <2>5. CASE Cancel
    <3>1. PICK exp \in Exps : \E id \in calls[exp].todo, out \in {"gone", "left"} :
            /\ calls[exp].op = "rollback" /\ exes[id].stage = "held"
            /\ exes[id].runs = "ebpf" => out = "gone"
            /\ exes' = [exes EXCEPT ![id].stage = out]
            /\ UNCHANGED daemonRestarts
      BY <2>5 DEF Cancel, bounds
    <3>2. calls[exp].todo \subseteq Accepted
      BY <1>2, <3>1 DEF IInv, TypeOK
    <3>3. PICK i \in Accepted, out \in {"gone", "left"} :
            /\ exes[i].stage = "held" /\ exes' = [exes EXCEPT ![i].stage = out]
            /\ exes[i].runs = "ebpf" => out = "gone"
      BY <3>1, <3>2
    <3>4. /\ Accepted' = Accepted /\ exes'[i].stage = out /\ exes'[i].runs = exes[i].runs
          /\ \A id \in Accepted \ {i} : exes'[id] = exes[id]
      BY <2>0, <3>3 DEF Accepted, Execution
    <3>5. PICK seen \in {"lost", "gone"} : seen = Seen(i)'
      BY <3>3, <3>4 DEF Seen
    <3>6. st' = [st EXCEPT ![i] = seen] /\ rn' = rn
      BY <2>0, <3>3, <3>4, <3>5 DEF Seen
    <3>7. /\ st[i] = "held" /\ rn[i] # "unscoped" /\ i \in Ids
          /\ rn[i] = "ebpf" => seen = "gone"
      BY <2>0, <3>3, <3>4, <3>5 DEF Execution, Seen
    <3> QED BY <3>1, <3>6, <3>7 DEF Service!Cancel, Service!Next
  <2>6. CASE DaemonRestart
    <3>1. PICK here \in SUBSET Targets, ended \in {{"ebpf"}, {"ebpf", "stress"}} :
            /\ exes' = [id \in Accepted |->
                          IF exes[id].target \in here /\ exes[id].stage = "held"
                          THEN [exes[id] EXCEPT !.stage = IF exes[id].runs \in ended THEN "gone"
                                                          ELSE "lost"]
                          ELSE exes[id]]
            /\ daemonRestarts' = daemonRestarts + 1
      BY <2>6 DEF DaemonRestart
    <3> DEFINE S == {id \in Accepted : exes[id].target \in here /\ exes[id].stage = "held"}
               new(id) == IF exes[id].runs \in ended THEN "gone" ELSE "lost"
    <3>2. /\ Accepted' = Accepted
          /\ \A id \in Accepted : exes'[id].runs = exes[id].runs
          /\ \A id \in S : exes'[id].stage = new(id)
          /\ \A id \in Accepted \ S : exes'[id] = exes[id]
      BY <2>0, <3>1 DEF Accepted, Execution
    <3>3. rn' = rn /\ \A id \in Ids : st'[id] = IF id \in S THEN new(id) ELSE st[id]
      BY <2>0, <3>2 DEF Seen
    <3>4. \A id \in S : st[id] = "held" /\ rn[id] = exes[id].runs /\ rn[id] \in {"rules", "ebpf", "stress"}
      BY <2>0 DEF Seen, Execution
    <3>5. ASSUME NEW id \in S PROVE st'[id] \in Service!Left(id, rn'[id])
      <4>1. new(id) \in CASE exes[id].runs = "ebpf" -> {"gone"}
                          [] exes[id].runs = "stress" -> {"lost", "gone"}
                          [] OTHER -> {"lost"}
        BY <3>1, <3>4
      <4> QED BY <2>0, <3>3, <3>4, <4>1 DEF Service!Left
    <3>6. S \in SUBSET Ids
      BY <2>0
    <3>7. rn \in [Ids -> Service!Kinds \cup {"none"}]
      BY <2>0 DEF Execution, Service!Kinds
    <3>8. st \in [Ids -> Service!Stages]
      BY <2>0 DEF Execution, Seen, Service!Stages
    <3>9. st' \in [Ids -> Service!Stages]
      BY <3>3, <3>8 DEF Service!Stages
    <3>10. Service!Restart
      BY <3>1, <3>3, <3>4, <3>5, <3>6, <3>7, <3>9 DEF Service!Restart
    <3> QED BY <3>10 DEF Service!Next
  <2>7. CASE ResolveTargets \/ ExecuteReturns \/ TakeRecords
    BY <2>2, <2>7 DEF ResolveTargets, ExecuteReturns, TakeRecords, bounds
  <2>8. CASE CancelNotFound \/ CancelFails \/ RollbackReturns
    BY <2>2, <2>8 DEF CancelNotFound, CancelFails, RollbackReturns, bounds
  <2>9. CASE Restart \/ UNCHANGED vars
    BY <2>2, <2>9 DEF Restart, vars
  <2> QED BY <1>2, <2>3, <2>4, <2>5, <2>6, <2>7, <2>8, <2>9 DEF Next
<1> QED BY <1>1, <1>2, AlwaysIInv, PTL DEF Spec, AssumesService, Service!Spec, Service!vars
=============================================================================
