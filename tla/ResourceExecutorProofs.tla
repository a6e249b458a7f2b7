------------------------ MODULE ResourceExecutorProofs ------------------------
(* What the executors that change a resource themselves restore, for any     *)
(* number of experiments and any contents.                                   *)
EXTENDS ResourceExecutor, TLAPS

\* A copy with the current version has the current content.
FreshIsCurrent ==
  /\ cache.fresh => cache.data = data
  /\ call.op # "idle" /\ call.fresh => call.seen = data

\* Execute keeps what it has read, and no fault where it looks for it.
ReadsAreCopied ==
  /\ call.op = "execute" => call.copy = call.seen
  /\ call.op = "execute" /\ kind.refuses => call.copy # Bad
  /\ kind.refuses => ~nested

\* Rollback has no fault to put back, unless one was kept.
KeptIsClean ==
  /\ \A exp \in Exps : ~nested => records[exp] # Bad
  /\ call.op = "rollback" /\ ~nested => call.copy # Bad

\* What Rollback will put back is what the last nil Execute replaced.
CountsFor(exp) == kind.keeps = "copy" /\ (kind.writes = "update" \/ ~raced[exp])

KeptIsBefore ==
  /\ \A exp \in Exps : CountsFor(exp) /\ records[exp] # None => records[exp] = before[exp]
  /\ call.op = "rollback" /\ CountsFor(call.exp) => call.copy = before[call.exp]

\* A fault to be rolled back has its record, unless it is lost or Rollback has it.
Accounted(exp) ==
  records[exp] # None \/ lost[exp] \/ (call.op = "rollback" /\ call.exp = exp)
OwedIsKept ==
  kind.keeps # "nothing" => \A exp \in Exps : owes[exp] => Accounted(exp)

IInv ==
  /\ TypeOK /\ FreshIsCurrent /\ ReadsAreCopied /\ KeptIsClean /\ KeptIsBefore
  /\ OwedIsKept /\ FaultIsOwed /\ RestoresBefore

\* The contents with a meaning are different from each other and from the users'.
LEMMA ContentsDiffer ==
  /\ Bad # Clear /\ Bad # Absent /\ Bad # None /\ Clear # Absent /\ Clear # None
  /\ Absent # None
  /\ \A v \in Values : v # Bad /\ v # Clear /\ v # Absent /\ v # None
PROOF
BY KindsAssumption DEF Bad, Clear, Absent, None

\* The table of executors has the type.
LEMMA KindsTyped == \A k \in Kinds : k \in KindType
PROOF
<1>1. \A k \in AllKinds : \/ k = ConfigMapCorrupt \/ k = ConfigMapDelete
        \/ k = PVCChaosExecutor \/ k = TimeChaosExecutor \/ k = DrainExecutor
        \/ k = TaintExecutor \/ k = SettingExecutor \/ k = StopExecutor
        \/ k = HostExecutor("put") \/ k = HostExecutor("add") \/ k = OneShotExecutor
  BY DEF AllKinds, EKSNodegroupScaleExecutor, LambdaThrottleExecutor, S3BlockExecutor,
    EC2StopExecutor, VMStopExecutor, CPUStressExecutor, MemoryStressExecutor,
    DiskStressExecutor, ProcessSuspendExecutor, NetworkDelayExecutor, EC2TerminateExecutor,
    RDSFailoverExecutor, ECSStopTaskExecutor, ElastiCacheFailoverExecutor,
    AKSNodePoolScaleExecutor, CosmosDBFailoverExecutor, GKENodePoolScaleExecutor,
    CloudSQLFailoverExecutor, CloudRunStopExecutor, ProcessKillExecutor, PodKillExecutor
<1>2. ConfigMapCorrupt \in KindType /\ ConfigMapDelete \in KindType
  BY DEF KindType, ConfigMapCorrupt, ConfigMapDelete
<1>3. PVCChaosExecutor \in KindType /\ TimeChaosExecutor \in KindType
  BY DEF KindType, PVCChaosExecutor, TimeChaosExecutor
<1>4. DrainExecutor \in KindType /\ TaintExecutor \in KindType
  BY DEF KindType, DrainExecutor, TaintExecutor
<1>5. SettingExecutor \in KindType /\ StopExecutor \in KindType
  BY DEF KindType, SettingExecutor, StopExecutor
<1>6. HostExecutor("put") \in KindType /\ HostExecutor("add") \in KindType
  BY DEF KindType, HostExecutor
<1>7. OneShotExecutor \in KindType
  BY DEF KindType, OneShotExecutor
<1> QED
  BY <1>1, <1>2, <1>3, <1>4, <1>5, <1>6, <1>7, KindsAssumption

\* The resource is as a user left it, and nothing is kept.
LEMMA InitIInv == Init => IInv
PROOF
<1> SUFFICES ASSUME Init PROVE IInv
  OBVIOUS
<1>1. data \in Contents
  BY DEF Init, UserContents, Contents
<1>2. TypeOK
  BY <1>1 DEF Init, TypeOK, Idle, Contents
<1>3. FreshIsCurrent /\ ReadsAreCopied /\ KeptIsClean /\ KeptIsBefore
  BY ContentsDiffer DEF Init, FreshIsCurrent, ReadsAreCopied, KeptIsClean, KeptIsBefore, Idle
<1>4. OwedIsKept /\ FaultIsOwed /\ RestoresBefore
  BY KindsAssumption DEF Init, OwedIsKept, FaultIsOwed, Faulty, RestoresBefore
<1> QED
  BY <1>2, <1>3, <1>4 DEF IInv

\* An operation that loses track of a fault notes so, and of no other.
LEMMA LosesTrack ==
  ASSUME TypeOK, call.exp \in Exps, LoseTrack
  PROVE  /\ lost' \in [Exps -> BOOLEAN]
         /\ \A exp \in Exps : lost[exp] => lost'[exp]
         /\ kind.keeps # "nothing" /\ records[call.exp] = None => lost'[call.exp]
PROOF
<1>1. CASE kind.keeps # "nothing" /\ records[call.exp] = None
  <2>1. lost' = [lost EXCEPT ![call.exp] = TRUE]
    BY <1>1 DEF LoseTrack
  <2> QED
    BY <2>1 DEF TypeOK
<1>2. CASE ~(kind.keeps # "nothing" /\ records[call.exp] = None)
  <2>1. lost' = [lost EXCEPT ![call.exp] = lost[call.exp] \/ FALSE]
    BY <1>2 DEF LoseTrack
  <2>2. CASE lost[call.exp]
    <3>1. lost' = [lost EXCEPT ![call.exp] = TRUE]
      BY <2>1, <2>2
    <3> QED
      BY <1>2, <3>1 DEF TypeOK
  <2>3. CASE ~lost[call.exp]
    <3>1. lost' = [lost EXCEPT ![call.exp] = FALSE]
      BY <2>1, <2>3
    <3> QED
      BY <1>2, <2>3, <3>1 DEF TypeOK
  <2> QED
    BY <2>2, <2>3
<1> QED
  BY <1>1, <1>2

\* Every step keeps the inductive invariant.
LEMMA NextIInv == IInv /\ [Next]_vars => IInv'
PROOF
<1> SUFFICES ASSUME IInv, [Next]_vars PROVE IInv'
  OBVIOUS
<1> USE DEF IInv
<1>a. /\ kind \in KindType /\ kind \in Kinds
      /\ Fault # None /\ Fault \in {Bad, Absent}
  BY KindsTyped, ContentsDiffer DEF TypeOK, Fault
<1>1. CASE ExecuteReads
  <2>1. PICK exp \in Exps :
          /\ call = Idle
          /\ LET seen == IF kind.reads = "cache" THEN cache.data ELSE data
             IN  /\ seen # Absent
                 /\ kind.refuses => seen # Bad
                 /\ Begin("execute", exp, seen, kind.reads = "cache")
          /\ UNCHANGED <<kind, resource, records, history>>
    BY <1>1 DEF ExecuteReads
  <2>2. /\ call' \in [op: {"idle", "execute", "rollback"}, exp: Exps \cup {None},
                      copy: (Contents \ {Absent}) \cup {None}, seen: Contents \cup {None},
                      fresh: BOOLEAN]
        /\ call'.op = "execute" /\ call'.exp = exp /\ call'.copy # None
        /\ call'.copy = call'.seen
        /\ kind.refuses => call'.copy # Bad
        /\ call'.fresh => call'.seen = data
    <3>1. CASE kind.reads = "cache"
      BY <2>1, <3>1, ContentsDiffer DEF Begin, TypeOK, FreshIsCurrent, Contents
    <3>2. CASE kind.reads # "cache"
      BY <2>1, <3>2, ContentsDiffer DEF Begin, TypeOK, Contents
    <3> QED
      BY <3>1, <3>2
  <2>3. /\ UNCHANGED <<kind, data, ending, cache, records, byUser, owes, lost, before,
                       raced, nested, restored>>
        /\ Fault' = Fault
    BY <2>1 DEF resource, history, Fault
  <2>4. TypeOK'
    BY <2>2, <2>3 DEF TypeOK
  <2>5. FreshIsCurrent' /\ ReadsAreCopied' /\ KeptIsClean'
    BY <2>2, <2>3 DEF FreshIsCurrent, ReadsAreCopied, KeptIsClean
  <2>6. KeptIsBefore' /\ FaultIsOwed' /\ RestoresBefore'
    BY <2>2, <2>3 DEF KeptIsBefore, CountsFor, FaultIsOwed, Faulty, RestoresBefore
  <2>7. OwedIsKept'
    BY <2>1, <2>2, <2>3 DEF OwedIsKept, Accounted, Idle
  <2> QED
    BY <2>4, <2>5, <2>6, <2>7
<1>2. CASE ExecuteWrites
  <2>1. /\ call.op = "execute" /\ call.exp \in Exps /\ call' = Idle /\ kind' = kind
        /\ kind.writes = "update" => call.fresh
        /\ data # Absent
        /\ \/ data' = Fault /\ ending' = ending /\ ~ending
           \/ data' = data /\ ending' = TRUE /\ kind.undo = "recreate"
        /\ cache' = [cache EXCEPT !.fresh = FALSE]
        /\ ~byUser' /\ byUser' \in BOOLEAN /\ restored' = None
        /\ owes' = [owes EXCEPT ![call.exp] = TRUE]
    BY <1>2 DEF ExecuteWrites, PutFault, Write, TypeOK
  <2>2. \/ /\ records' = [records EXCEPT ![call.exp] = Kept]
           /\ before' = [before EXCEPT ![call.exp] = data]
           /\ raced' = [raced EXCEPT ![call.exp] = ~call.fresh]
           /\ nested' = (nested \/ Kept = Bad)
           /\ lost' = lost
        \/ LoseTrack /\ UNCHANGED <<records, before, raced, nested>>
    BY <1>2 DEF ExecuteWrites
  <2>3. /\ Kept \in (Contents \ {Absent}) \cup {None}
        /\ kind.keeps = "copy" => Kept = call.copy
        /\ kind.refuses => Kept # Bad
    BY <2>1, ContentsDiffer DEF Kept, TypeOK, ReadsAreCopied, Contents
  <2>4. /\ data' \in Contents /\ ending' \in BOOLEAN
        /\ ending' => kind.undo = "recreate" /\ data' # Absent
        /\ cache' \in [data: Contents, fresh: BOOLEAN] /\ cache'.fresh = FALSE
        /\ owes' \in [Exps -> BOOLEAN] /\ owes'[call.exp]
    <3>1. data' \in Contents
      BY <1>a, <2>1 DEF TypeOK, Contents
    <3>2. ending' \in BOOLEAN /\ (ending' => kind.undo = "recreate" /\ data' # Absent)
      <4>1. CASE data' = Fault /\ ending' = ending /\ ~ending
        BY <4>1 DEF TypeOK
      <4>2. CASE data' = data /\ ending' = TRUE /\ kind.undo = "recreate"
        BY <2>1, <4>2
      <4> QED
        BY <2>1, <4>1, <4>2
    <3>3. cache' \in [data: Contents, fresh: BOOLEAN] /\ cache'.fresh = FALSE
      BY <2>1 DEF TypeOK
    <3>4. owes' \in [Exps -> BOOLEAN] /\ owes'[call.exp]
      BY <2>1 DEF TypeOK
    <3> QED
      BY <3>1, <3>2, <3>3, <3>4
  <2>5. /\ call'.op = "idle" /\ call'.exp = None /\ call'.copy = None /\ call'.seen = None
        /\ call'.fresh = FALSE
        /\ call' \in [op: {"idle", "execute", "rollback"}, exp: Exps \cup {None},
                      copy: (Contents \ {Absent}) \cup {None}, seen: Contents \cup {None},
                      fresh: BOOLEAN]
    BY <2>1 DEF Idle
  <2>6. /\ records' \in [Exps -> (Contents \ {Absent}) \cup {None}]
        /\ before' \in [Exps -> Contents \cup {None}]
        /\ raced' \in [Exps -> BOOLEAN] /\ nested' \in BOOLEAN
    <3>1. /\ records' \in [Exps -> (Contents \ {Absent}) \cup {None}]
          /\ before' \in [Exps -> Contents \cup {None}]
      BY <2>1, <2>2, <2>3 DEF TypeOK
    <3>2. raced' \in [Exps -> BOOLEAN]
      <4>1. CASE call.fresh
        BY <2>1, <2>2, <4>1 DEF TypeOK
      <4>2. CASE ~call.fresh
        BY <2>1, <2>2, <4>2 DEF TypeOK
      <4> QED
        BY <4>1, <4>2
    <3>3. nested' \in BOOLEAN
      <4>1. (nested \/ Kept = Bad) \in BOOLEAN
        OBVIOUS
      <4> QED
        BY <2>2, <4>1 DEF TypeOK
    <3> QED
      BY <3>1, <3>2, <3>3
  <2>a. lost' \in [Exps -> BOOLEAN] /\ \A exp \in Exps : lost[exp] => lost'[exp]
    BY <2>1, <2>2, LosesTrack DEF TypeOK
  <2>7. TypeOK'
    BY <2>1, <2>4, <2>5, <2>6, <2>a DEF TypeOK
  <2>8. FreshIsCurrent' /\ ReadsAreCopied'
    BY <2>1, <2>2, <2>3, <2>4, <2>5 DEF FreshIsCurrent, ReadsAreCopied, TypeOK
  <2>9. KeptIsClean'
    BY <2>1, <2>2, <2>5 DEF KeptIsClean, TypeOK
  <2>10. KeptIsBefore'
    <3> SUFFICES ASSUME NEW exp \in Exps, CountsFor(exp)', records'[exp] # None
                 PROVE  records'[exp] = before'[exp]
      BY <2>5 DEF KeptIsBefore
    <3>1. CASE UNCHANGED <<records, before, raced, nested>>
      BY <2>1, <3>1 DEF KeptIsBefore, CountsFor
    <3>2. CASE /\ records' = [records EXCEPT ![call.exp] = Kept]
               /\ before' = [before EXCEPT ![call.exp] = data]
               /\ raced' = [raced EXCEPT ![call.exp] = ~call.fresh]
      <4>1. CASE exp # call.exp
        BY <2>1, <3>2, <4>1 DEF KeptIsBefore, CountsFor, TypeOK
      <4>2. CASE exp = call.exp
        <5>1. kind.keeps = "copy" /\ call.fresh
          BY <2>1, <3>2, <4>2 DEF CountsFor, TypeOK
        <5>2. call.copy = data
          BY <2>1, <5>1 DEF FreshIsCurrent, ReadsAreCopied
        <5> QED
          BY <2>1, <2>3, <3>2, <4>2, <5>1, <5>2 DEF TypeOK
      <4> QED
        BY <4>1, <4>2
    <3> QED
      BY <2>2, <3>1, <3>2
  <2>11. FaultIsOwed' /\ RestoresBefore'
    BY <2>1, <2>4, KindsAssumption DEF FaultIsOwed, RestoresBefore
  <2>12. OwedIsKept'
    <3> SUFFICES ASSUME kind.keeps # "nothing", NEW exp \in Exps, owes'[exp]
                 PROVE  records'[exp] # None \/ lost'[exp]
      BY <2>1 DEF OwedIsKept, Accounted
    <3>1. CASE exp # call.exp
      BY <2>1, <2>2, <2>a, <3>1 DEF OwedIsKept, Accounted, TypeOK
    <3>2. CASE exp = call.exp /\ records' = [records EXCEPT ![call.exp] = Kept]
      <4>1. Kept # None
        BY <1>a, <2>1, ContentsDiffer DEF Kept, KindType, TypeOK
      <4> QED
        BY <3>2, <4>1 DEF TypeOK
    <3>3. CASE exp = call.exp /\ LoseTrack /\ UNCHANGED records
      BY <3>3, LosesTrack
    <3> QED
      BY <2>2, <3>1, <3>2, <3>3
  <2> QED
    BY <2>7, <2>8, <2>9, <2>10, <2>11, <2>12
<1>3. ASSUME call' = Idle,
             UNCHANGED <<kind, data, ending, cache, byUser, restored, before, raced, nested>>,
             owes' \in [Exps -> BOOLEAN], lost' \in [Exps -> BOOLEAN],
             kind.reports /\ kind.undo \notin {"recreate", "nothing"}
               => \A exp \in Exps : owes[exp] \/ lost[exp] => owes'[exp] \/ lost'[exp],
             kind.keeps # "nothing"
               => \A exp \in Exps : owes'[exp] => records'[exp] # None \/ lost'[exp],
             records' \in [Exps -> (Contents \ {Absent}) \cup {None}],
             \A exp \in Exps : records'[exp] = records[exp] \/ records'[exp] = None
      PROVE  IInv'
  <2>1. /\ call'.op = "idle" /\ call'.exp = None /\ call'.copy = None /\ call'.seen = None
        /\ call'.fresh = FALSE
        /\ call' \in [op: {"idle", "execute", "rollback"}, exp: Exps \cup {None},
                      copy: (Contents \ {Absent}) \cup {None}, seen: Contents \cup {None},
                      fresh: BOOLEAN]
    BY <1>3 DEF Idle
  <2>2. TypeOK'
    BY <1>3, <2>1 DEF TypeOK
  <2>3. FreshIsCurrent' /\ ReadsAreCopied' /\ KeptIsClean'
    BY <1>3, <2>1, ContentsDiffer DEF FreshIsCurrent, ReadsAreCopied, KeptIsClean
  <2>4. KeptIsBefore' /\ RestoresBefore'
    BY <1>3, <2>1 DEF KeptIsBefore, CountsFor, RestoresBefore
  <2>5. FaultIsOwed'
    BY <1>3 DEF FaultIsOwed, Faulty, Fault
  <2>6. OwedIsKept'
    BY <1>3 DEF OwedIsKept, Accounted
  <2> QED
    BY <2>2, <2>3, <2>4, <2>5, <2>6
<1>4. CASE ExecuteFails
  BY <1>3, <1>4 DEF ExecuteFails, resource, history, TypeOK, OwedIsKept, Accounted
<1>5. CASE RollbackFinds
  BY <1>3, <1>5 DEF RollbackFinds, resource, TypeOK, OwedIsKept, Accounted
<1>6. CASE RollbackFails
  <2>1. owes' = [owes EXCEPT ![call.exp] = @ /\ kind.reports] /\ call.exp \in Exps
    BY <1>6 DEF RollbackFails, TypeOK
  <2>2. owes' \in [Exps -> BOOLEAN] /\ (kind.reports => owes' = owes)
    <3>1. CASE kind.reports
      <4>1. owes[call.exp] /\ kind.reports <=> owes[call.exp]
        BY <3>1
      <4> QED
        BY <2>1, <3>1, <4>1 DEF TypeOK
    <3>2. CASE ~kind.reports
      BY <2>1, <3>2 DEF TypeOK
    <3> QED
      BY <3>1, <3>2
  <2>3. /\ lost' \in [Exps -> BOOLEAN]
        /\ \A exp \in Exps : lost[exp] => lost'[exp]
        /\ kind.keeps # "nothing" /\ records[call.exp] = None => lost'[call.exp]
    BY <1>6, <2>1, LosesTrack DEF RollbackFails
  <2>4. /\ call' = Idle /\ records' = records
        /\ UNCHANGED <<kind, data, ending, cache, byUser, restored, before, raced, nested>>
    BY <1>6 DEF RollbackFails, resource
  <2>5. \A exp \in Exps : owes'[exp] => owes[exp]
    BY <2>1 DEF TypeOK
  <2>6. ASSUME kind.keeps # "nothing", NEW exp \in Exps, owes'[exp]
        PROVE  records'[exp] # None \/ lost'[exp]
    BY <2>3, <2>4, <2>5, <2>6 DEF OwedIsKept, Accounted
  <2>7. kind.reports => \A exp \in Exps : owes[exp] \/ lost[exp] => owes'[exp] \/ lost'[exp]
    BY <2>2, <2>3
  <2> QED
    BY <1>3, <2>2, <2>3, <2>4, <2>6, <2>7 DEF TypeOK
<1>7. CASE Restart
  <2>1. /\ lost' = [exp \in Exps |-> lost[exp] \/ (kind.keeps # "nothing" /\ owes[exp])]
        /\ call' = Idle /\ records' = [exp \in Exps |-> None]
        /\ UNCHANGED <<kind, data, ending, cache, byUser, restored, owes, before, raced, nested>>
    BY <1>7 DEF Restart, resource
  <2>2. ASSUME NEW exp \in Exps
        PROVE  /\ (lost[exp] \/ (kind.keeps # "nothing" /\ owes[exp])) \in BOOLEAN
               /\ lost'[exp] <=> lost[exp] \/ (kind.keeps # "nothing" /\ owes[exp])
    BY <2>1
  <2>3. lost' \in [Exps -> BOOLEAN]
    BY <2>1, <2>2
  <2> QED
    BY <1>3, <2>1, <2>2, <2>3 DEF TypeOK
<1>b. CASE RollbackSkips
  <2>1. PICK exp \in Exps :
          /\ call = Idle
          /\ kind.undo = "nothing" \/ (kind.keeps # "nothing" /\ records[exp] = None)
          /\ owes' = [owes EXCEPT ![exp] = FALSE]
          /\ UNCHANGED <<kind, resource, call, records, lost, before, raced, nested>>
    BY <1>b DEF RollbackSkips
  <2>2. /\ call' = Idle
        /\ UNCHANGED <<kind, data, ending, cache, byUser, restored, records, lost, before,
                       raced, nested>>
    BY <2>1 DEF resource
  <2>3. /\ owes' \in [Exps -> BOOLEAN]
        /\ \A e \in Exps : owes'[e] => owes[e]
        /\ \A e \in Exps : e # exp => owes'[e] = owes[e]
    BY <2>1 DEF TypeOK
  <2>4. kind.keeps # "nothing"
          => \A e \in Exps : owes[e] => records[e] # None \/ lost[e]
    BY <2>1 DEF OwedIsKept, Accounted, Idle
  <2>5. kind.undo # "nothing"
          => \A e \in Exps : owes[e] \/ lost[e] => owes'[e] \/ lost'[e]
    BY <2>1, <2>2, <2>3, <2>4
  <2> QED
    BY <1>3, <2>2, <2>3, <2>4, <2>5 DEF TypeOK
<1>8. CASE RollbackReads
  <2>1. PICK exp \in Exps :
          /\ call = Idle /\ kind.undo # "nothing"
          /\ kind.keeps # "nothing" => records[exp] # None
          /\ records' = [records EXCEPT ![exp] = None]
          /\ Begin("rollback", exp, IF kind.keeps = "copy" THEN records[exp] ELSE Clear,
                   kind.undo # "put")
          /\ UNCHANGED <<kind, resource, history>>
    BY <1>8 DEF RollbackReads
  <2>2. /\ UNCHANGED <<kind, data, ending, cache, byUser, owes, lost, before, raced,
                       nested, restored>>
        /\ \A e \in Exps : records'[e] = IF e = exp THEN None ELSE records[e]
        /\ records' \in [Exps -> (Contents \ {Absent}) \cup {None}]
    BY <2>1 DEF resource, history, TypeOK
  <2>3. /\ call'.op = "rollback" /\ call'.exp = exp
        /\ call'.copy = IF kind.keeps = "copy" THEN records[exp] ELSE Clear
        /\ call'.fresh => call'.seen = data
        /\ call'.seen \in Contents /\ call'.fresh \in BOOLEAN
        /\ call' = [op |-> call'.op, exp |-> call'.exp, copy |-> call'.copy,
                    seen |-> call'.seen, fresh |-> call'.fresh]
    <3>1. CASE kind.undo # "put"
      BY <2>1, <3>1 DEF Begin, TypeOK, FreshIsCurrent
    <3>2. CASE kind.undo = "put"
      BY <2>1, <3>2 DEF Begin, TypeOK
    <3> QED
      BY <3>1, <3>2
  <2>4. call'.copy \in Contents \ {Absent}
    BY <2>1, <2>3, ContentsDiffer DEF TypeOK, Contents
  <2>5. call' \in [op: {"idle", "execute", "rollback"}, exp: Exps \cup {None},
                   copy: (Contents \ {Absent}) \cup {None}, seen: Contents \cup {None},
                   fresh: BOOLEAN] /\ call'.copy # None
    BY <2>3, <2>4, ContentsDiffer DEF Contents
  <2>6. TypeOK'
    BY <2>2, <2>3, <2>5 DEF TypeOK
  <2>7. FreshIsCurrent' /\ ReadsAreCopied'
    BY <2>2, <2>3 DEF FreshIsCurrent, ReadsAreCopied
  <2>8. KeptIsClean'
    BY <2>2, <2>3, ContentsDiffer DEF KeptIsClean
  <2>9. KeptIsBefore'
    BY <2>1, <2>2, <2>3 DEF KeptIsBefore, CountsFor
  <2>10. FaultIsOwed' /\ RestoresBefore'
    BY <2>2 DEF FaultIsOwed, Faulty, Fault, RestoresBefore
  <2>11. OwedIsKept'
    BY <2>1, <2>2, <2>3 DEF OwedIsKept, Accounted, Idle
  <2> QED
    BY <2>6, <2>7, <2>8, <2>9, <2>10, <2>11
<1>9. CASE RollbackWrites
  <2>1. /\ call.op = "rollback" /\ call.exp \in Exps /\ call.copy \in Contents \ {Absent}
        /\ data' = call.copy /\ ending' = ending /\ ~byUser' /\ byUser' \in BOOLEAN
        /\ restored' = call.exp /\ call' = Idle
        /\ cache' = [cache EXCEPT !.fresh = FALSE]
        /\ UNCHANGED <<kind, records, before, raced, nested>>
    BY <1>9, ContentsDiffer DEF RollbackWrites, PutBack, Write, TypeOK
  <2>a. \/ /\ owes' = [owes EXCEPT ![call.exp] = FALSE]
           /\ lost' = [lost EXCEPT ![call.exp] = FALSE]
        \/ LoseTrack /\ owes' = owes
    BY <1>9 DEF RollbackWrites
  <2>2. owes' \in [Exps -> BOOLEAN] /\ lost' \in [Exps -> BOOLEAN]
    BY <2>1, <2>a, LosesTrack DEF TypeOK
  <2>3. /\ call'.op = "idle" /\ call'.exp = None /\ call'.copy = None /\ call'.seen = None
        /\ call'.fresh = FALSE
        /\ call' \in [op: {"idle", "execute", "rollback"}, exp: Exps \cup {None},
                      copy: (Contents \ {Absent}) \cup {None}, seen: Contents \cup {None},
                      fresh: BOOLEAN]
    BY <2>1 DEF Idle
  <2>4. cache' \in [data: Contents, fresh: BOOLEAN] /\ cache'.fresh = FALSE
    BY <2>1 DEF TypeOK
  <2>5. TypeOK'
    BY <2>1, <2>2, <2>3, <2>4 DEF TypeOK
  <2>6. FreshIsCurrent' /\ ReadsAreCopied' /\ KeptIsClean' /\ KeptIsBefore'
    BY <2>1, <2>3, <2>4 DEF FreshIsCurrent, ReadsAreCopied, KeptIsClean, KeptIsBefore,
      CountsFor
  <2>7. FaultIsOwed'
    BY <1>a, <2>1 DEF FaultIsOwed, Faulty, Fault, KeptIsClean, ReadsAreCopied, TypeOK
  <2>8. RestoresBefore'
    BY <2>1 DEF RestoresBefore, KeptIsBefore, CountsFor
  <2>9. OwedIsKept'
    <3> SUFFICES ASSUME kind.keeps # "nothing", NEW exp \in Exps, owes'[exp]
                 PROVE  records[exp] # None \/ lost'[exp]
      BY <2>1 DEF OwedIsKept, Accounted
    <3>1. CASE LoseTrack /\ owes' = owes
      BY <2>1, <3>1, LosesTrack DEF OwedIsKept, Accounted
    <3>2. CASE /\ owes' = [owes EXCEPT ![call.exp] = FALSE]
               /\ lost' = [lost EXCEPT ![call.exp] = FALSE]
      BY <2>1, <3>2 DEF OwedIsKept, Accounted, TypeOK
    <3> QED
      BY <2>a, <3>1, <3>2
  <2> QED
    BY <2>5, <2>6, <2>7, <2>8, <2>9
<1>10. ASSUME cache' = [cache EXCEPT !.fresh = FALSE],
              call' = [call EXCEPT !.fresh = FALSE],
              restored' = None,
              UNCHANGED <<kind, records, owes, lost, before, raced, nested>>,
              data' \in Contents, ending' \in BOOLEAN, byUser' \in BOOLEAN,
              ending' => kind.undo = "recreate" /\ data' # Absent,
              byUser' \/ kind.undo = "recreate"
       PROVE  IInv'
  <2>1. /\ call'.op = call.op /\ call'.exp = call.exp /\ call'.copy = call.copy
        /\ call'.seen = call.seen /\ call'.fresh = FALSE
        /\ call' \in [op: {"idle", "execute", "rollback"}, exp: Exps \cup {None},
                      copy: (Contents \ {Absent}) \cup {None}, seen: Contents \cup {None},
                      fresh: BOOLEAN]
        /\ cache' \in [data: Contents, fresh: BOOLEAN] /\ cache'.fresh = FALSE
    BY <1>10 DEF TypeOK
  <2>2. TypeOK'
    BY <1>10, <2>1 DEF TypeOK
  <2>3. FreshIsCurrent' /\ ReadsAreCopied' /\ KeptIsClean' /\ KeptIsBefore'
    BY <1>10, <2>1 DEF FreshIsCurrent, ReadsAreCopied, KeptIsClean, KeptIsBefore, CountsFor
  <2>4. FaultIsOwed' /\ RestoresBefore'
    BY <1>10, KindsAssumption DEF FaultIsOwed, Faulty, RestoresBefore
  <2>5. OwedIsKept'
    BY <1>10, <2>1 DEF OwedIsKept, Accounted
  <2> QED
    BY <2>2, <2>3, <2>4, <2>5
<1>11. CASE UserWrites
  <2>1. UserContents \subseteq Contents
    BY DEF UserContents, Contents
  <2> QED
    BY <1>10, <1>11, <2>1 DEF UserWrites, Write, history, TypeOK
<1>12. CASE ClaimReleased
  BY <1>10, <1>12, ContentsDiffer DEF ClaimReleased, history, TypeOK, Contents
<1>13. CASE Sync
  <2>1. /\ UNCHANGED <<kind, data, ending, call, records, byUser, restored, owes, lost,
                       before, raced, nested>>
        /\ cache' \in [data: Contents, fresh: BOOLEAN] /\ cache'.data = data
    BY <1>13 DEF Sync, history, TypeOK
  <2>2. TypeOK'
    BY <2>1 DEF TypeOK
  <2>3. FreshIsCurrent' /\ ReadsAreCopied' /\ KeptIsClean' /\ KeptIsBefore'
    BY <2>1 DEF FreshIsCurrent, ReadsAreCopied, KeptIsClean, KeptIsBefore, CountsFor
  <2>4. FaultIsOwed' /\ RestoresBefore'
    BY <2>1 DEF FaultIsOwed, Faulty, Fault, RestoresBefore
  <2>5. OwedIsKept'
    BY <2>1 DEF OwedIsKept, Accounted
  <2> QED
    BY <2>2, <2>3, <2>4, <2>5
<1>14. CASE UNCHANGED vars
  BY <1>14 DEF vars, TypeOK, FreshIsCurrent, ReadsAreCopied, KeptIsClean, KeptIsBefore,
    CountsFor, OwedIsKept, Accounted, FaultIsOwed, Faulty, Fault, RestoresBefore
<1> QED
  BY <1>1, <1>2, <1>4, <1>5, <1>6, <1>7, <1>b, <1>8, <1>9, <1>11, <1>12, <1>13, <1>14 DEF Next

\* The inductive invariant holds throughout.
LEMMA AlwaysIInv == Spec => []IInv
PROOF
BY InitIInv, NextIInv, PTL DEF Spec

\* Every variable has its type, and nothing is kept that was not there.
THEOREM TypeCorrect == Spec => []TypeOK
PROOF
<1>1. IInv => TypeOK
  BY DEF IInv
<1> QED
  BY <1>1, AlwaysIInv, PTL

\* A fault is in place only while some experiment has yet to roll it back, or has
\* lost its record of it.
THEOREM FaultsAreOwed == Spec => []FaultIsOwed
PROOF
<1>1. IInv => FaultIsOwed
  BY DEF IInv
<1> QED
  BY <1>1, AlwaysIInv, PTL

\* Rollback puts back what Execute replaced.
THEOREM RollbackRestores == Spec => []RestoresBefore
PROOF
<1>1. IInv => RestoresBefore
  BY DEF IInv
<1> QED
  BY <1>1, AlwaysIInv, PTL
=============================================================================
