--------------------------- MODULE AZFailureProofs ---------------------------
(* For every zone and any number of experiments: no subnet stays isolated    *)
(* unnoticed, and cleanup puts back what Execute replaced.                   *)
EXTENDS AZFailure, TLAPS

\* What the operation in progress can still restore.
OpHeld == IF op.pc = "cleanup" THEN op.todo ELSE op.assocs

\* An idle executor holds nothing; an operation has an experiment and an ACL.
Shape ==
  /\ op.pc = "idle" => op = Idle
  /\ op.pc # "idle" => op.exp \in Exps /\ op.deny \in made
  /\ \A e \in Exps : state[e] # NoState => state[e].deny \in made

\* An original ACL that is itself a deny ACL has been taken over.
TakenOver ==
  /\ \A e \in Exps : \A a \in state[e].assocs : a.acl \in UserACLs \cup untended
  /\ \A a \in OpHeld : a.acl \in UserACLs \cup untended

\* An association id never comes back, and while a kept one is current the subnet
\* is on the deny ACL that replaced the original.
Exact(a, d) ==
  /\ a.id <= net[a.subnet].id
  /\ a.id = net[a.subnet].id =>
       net[a.subnet].acl = d /\ net[a.subnet].prev = a.acl

HeldExact ==
  /\ \A e \in Exps : \A a \in state[e].assocs : Exact(a, state[e].deny)
  /\ \A a \in OpHeld : Exact(a, op.deny)

\* The same of what currentAssociations has read.
ReadExact ==
  op.pc = "replacing" =>
    \A a \in op.todo : /\ a.id <= net[a.subnet].id
                       /\ a.id = net[a.subnet].id => net[a.subnet].acl = a.acl

\* IsolationIsOwed and ACLIsOwed, by the place of the record.
HasRecord(s) ==
  \/ \E e \in Exps : /\ state[e].deny = net[s].acl
                     /\ \E a \in state[e].assocs : a.subnet = s /\ a.id = net[s].id
  \/ op.deny = net[s].acl /\ \E a \in OpHeld : a.subnet = s /\ a.id = net[s].id

Owed == \A s \in Subnets : net[s].acl \in DenyACLs \ untended => HasRecord(s)

ACLOwed ==
  \A d \in acls \ untended : op.deny = d \/ \E e \in Exps : state[e].deny = d

\* The strengthening that makes them inductive.
IInv ==
  /\ TypeOK /\ Shape /\ TakenOver
  /\ HeldExact /\ ReadExact /\ Owed /\ ACLOwed /\ NilMeansGone

\* The invariant holds before the first Execute: no deny ACL, no record.
LEMMA InitIInv == Init => IInv
<1> SUFFICES ASSUME Init PROVE IInv
  OBVIOUS
<1> USE DEF Init, Idle, Start, NoState
<1>1. TypeOK
  BY ZoneAssumption DEF TypeOK, Association, ACLs, Operation
<1>2. Shape /\ TakenOver /\ HeldExact /\ ReadExact
  BY DEF Shape, TakenOver, HeldExact, ReadExact, OpHeld
<1>3. Owed
  BY ZoneAssumption DEF Owed
<1>4. ACLOwed /\ NilMeansGone
  BY DEF ACLOwed, NilMeansGone
<1> QED
  BY <1>1, <1>2, <1>3, <1>4 DEF IInv

-----------------------------------------------------------------------------
\* The two actions with a choice in them, by what they choose.
Replaces(a) ==
  /\ op.pc = "replacing" /\ a \in op.todo
  /\ net[a.subnet].id = a.id /\ op.deny \in UserACLs \cup acls
  /\ Associate(a.subnet, op.deny)
  /\ \/ /\ op' = [op EXCEPT !.todo = @ \ {a}, !.assocs = @ \cup {KeepAssociation(a)}]
        /\ untended' = untended \cup (DenyACLs \cap {a.acl})
     \/ /\ FailExecute
        /\ untended' = untended \cup (DenyACLs \cap {a.acl, op.deny})
  /\ UNCHANGED <<vpc, acls, made, state, undone>>

Restores(a) ==
  /\ op.pc = "cleanup" /\ a \in op.todo
  /\ net[a.subnet].id = a.id /\ a.acl \in UserACLs \cup acls
  /\ Associate(a.subnet, a.acl)
  /\ \/ Restored(a) /\ UNCHANGED untended
     \/ NotRestored(a)
  /\ UNCHANGED <<vpc, acls, made, state, undone>>

\* Execute and cleanup go over one association at a time, in any order.
LEMMA Choices ==
  /\ ReplaceAssociation => \E a : Replaces(a)
  /\ Restore => \E a : Restores(a)
BY DEF ReplaceAssociation, Restore, Replaces, Restores, CanAssociate

\* currentAssociations returns associations that subnets have.
LEMMA ReadsSubnets ==
  ASSUME CurrentAssociations
  PROVE  \E todo : /\ op' = [op EXCEPT !.pc = "replacing", !.todo = todo]
                   /\ \A a \in todo : \E s \in Subnets :
                        a = [subnet |-> s, id |-> net[s].id, acl |-> net[s].acl]
<1>1. PICK found \in SUBSET Subnets :
        op' = [op EXCEPT !.pc = "replacing",
                         !.todo = {[subnet |-> s, id |-> net[s].id, acl |-> net[s].acl] :
                                     s \in found}]
  BY DEF CurrentAssociations
<1>2. PICK todo : todo = {[subnet |-> s, id |-> net[s].id, acl |-> net[s].acl] : s \in found}
  OBVIOUS
<1>3. op' = [op EXCEPT !.pc = "replacing", !.todo = todo]
  BY <1>1, <1>2
<1>4. \A a \in todo : \E s \in Subnets :
        a = [subnet |-> s, id |-> net[s].id, acl |-> net[s].acl]
  BY <1>2
<1> QED
  BY <1>3, <1>4

\* Every step preserves the types.
LEMMA TypeStep == TypeOK /\ Shape /\ [Next]_vars => TypeOK'
<1> SUFFICES ASSUME TypeOK, Shape, [Next]_vars PROVE TypeOK'
  OBVIOUS
<1> USE ZoneAssumption, NoneAssumption
<1>1. CASE CreateNetworkAcl
  <2>1. PICK e \in Exps, d \in DenyACLs \ made, first \in Subnets :
          /\ made' = made \cup {d} /\ acls' = acls \cup {d}
          /\ \/ /\ op' = Start("created", e, d, vpc[first], {}, FALSE)
                /\ UNCHANGED untended
             \/ untended' = untended \cup {d} /\ UNCHANGED op
    BY <1>1 DEF CreateNetworkAcl
  <2>2. op \in Operation /\ vpc[first] \in Vpcs
    BY DEF TypeOK
  <2>3. Start("created", e, d, vpc[first], {}, FALSE) \in Operation
    BY <2>2 DEF Operation, Start
  <2>4. op' \in Operation
    BY <2>1, <2>2, <2>3
  <2> QED
    BY <1>1, <2>1, <2>4 DEF CreateNetworkAcl, TypeOK
<1>2. CASE CurrentAssociations
  <2>1. PICK todo : /\ op' = [op EXCEPT !.pc = "replacing", !.todo = todo]
                    /\ \A a \in todo : \E s \in Subnets :
                         a = [subnet |-> s, id |-> net[s].id, acl |-> net[s].acl]
    BY <1>2, ReadsSubnets
  <2>2. todo \in SUBSET Replaced
    BY <2>1 DEF TypeOK, Replaced, Association
  <2> QED
    BY <1>2, <2>1, <2>2 DEF CurrentAssociations, TypeOK, Operation
<1>3. CASE ExecuteFails
  BY <1>3 DEF ExecuteFails, FailExecute, TypeOK, Operation
<1>4. ASSUME NEW s \in Subnets, NEW acl \in ACLs, Associate(s, acl)
      PROVE  net' \in [Subnets -> Association]
  BY <1>4 DEF TypeOK, Associate, Association
<1>5. CASE ReplaceAssociation
  <2>1. PICK a : Replaces(a)
    BY <1>5, Choices
  <2>2. a \in Replaced /\ op.deny \in DenyACLs
    BY <2>1 DEF TypeOK, Shape, Replaces, Operation
  <2>3. net' \in [Subnets -> Association]
    BY <1>4, <2>1, <2>2 DEF ACLs, Replaces, Replaced
  <2>4. KeepAssociation(a) \in Replaced
    BY <2>2 DEF KeepAssociation, Replaced
  <2>5. op \in Operation
    BY DEF TypeOK
  <2>6. op' \in Operation
    <3>1. CASE op' = [op EXCEPT !.todo = @ \ {a}, !.assocs = @ \cup {KeepAssociation(a)}]
      BY <2>4, <2>5, <3>1 DEF Operation
    <3>2. CASE FailExecute
      BY <2>5, <3>2 DEF Operation, FailExecute
    <3> QED
      BY <2>1, <3>1, <3>2 DEF Replaces
  <2> QED
    BY <2>1, <2>3, <2>6 DEF TypeOK, Replaces
<1>6. CASE StoreState
  BY <1>6 DEF StoreState, TypeOK, Shape, Idle, Start, AzFailureState, Operation
<1>7. CASE Rollback
  <2>1. PICK e \in Exps :
          /\ state[e] \in AzFailureState
          /\ state' = [state EXCEPT ![e] = NoState]
          /\ \/ /\ op' = Start("cleanup", e, state[e].deny, None, state[e].assocs, TRUE)
                /\ UNCHANGED untended
             \/ untended' = untended \cup {state[e].deny} /\ UNCHANGED op
    BY <1>7 DEF Rollback, TypeOK
  <2> QED
    <3>1. op \in Operation
      BY DEF TypeOK
    <3>2. state[e].deny \in DenyACLs /\ state[e].assocs \in SUBSET Replaced
      BY <2>1 DEF AzFailureState
    <3>3. CASE UNCHANGED op
      BY <2>1, <3>1, <3>2, <3>3, <1>7 DEF Rollback, TypeOK
    <3>4. CASE op' = Start("cleanup", e, state[e].deny, None, state[e].assocs, TRUE)
      <4>1. op' \in Operation
        BY <3>1, <3>2, <3>4 DEF Operation, Start
      <4> QED
        BY <1>7, <2>1, <3>2, <4>1 DEF Rollback, TypeOK
    <3> QED
      BY <2>1, <3>3, <3>4
<1>8. CASE Restore
  <2>1. PICK a : Restores(a)
    BY <1>8, Choices
  <2>2. a \in Replaced /\ op.deny \in DenyACLs
    BY <2>1 DEF TypeOK, Shape, Restores, Operation
  <2>3. net' \in [Subnets -> Association]
    BY <1>4, <2>1, <2>2 DEF Restores, Replaced
  <2>4. op \in Operation /\ untended \subseteq DenyACLs
    BY DEF TypeOK
  <2>5. op' \in Operation /\ untended' \subseteq DenyACLs
    <3>1. CASE Restored(a) /\ UNCHANGED untended
      BY <2>4, <3>1 DEF Operation, Restored
    <3>2. CASE NotRestored(a)
      BY <2>2, <2>4, <3>2 DEF Operation, NotRestored
    <3> QED
      BY <2>1, <3>1, <3>2 DEF Restores
  <2> QED
    BY <2>1, <2>3, <2>5 DEF TypeOK, Restores
<1>9. CASE RestoreFails
  <2>1. op \in Operation /\ untended \subseteq DenyACLs /\ op.deny \in DenyACLs
    BY <1>9 DEF TypeOK, Shape, RestoreFails
  <2>2. op' \in Operation /\ untended' \subseteq DenyACLs
    BY <1>9, <2>1 DEF Operation, NotRestored, RestoreFails
  <2> QED
    BY <1>9, <2>2 DEF RestoreFails, TypeOK
<1>10. CASE DeleteNetworkAcl
  BY <1>10 DEF DeleteNetworkAcl, Succeeded, TypeOK, Shape, Idle, Start, Operation
<1>11. CASE UserMoves
  BY <1>11, <1>4 DEF UserMoves, TypeOK, ACLs
<1>12. CASE Restart
  BY <1>12 DEF Restart, TypeOK, Idle, Start, Operation
<1>13. CASE UNCHANGED vars
  BY <1>13 DEF vars, TypeOK
<1> QED
  BY <1>1, <1>2, <1>3, <1>5, <1>6, <1>7, <1>8, <1>9, <1>10, <1>11, <1>12, <1>13
     DEF Next, Execute, Cleanup
-----------------------------------------------------------------------------
\* A change of an association leaves what is known of the kept ids true.
LEMMA MoveKeepsExact ==
  ASSUME TypeOK, NEW s \in Subnets, NEW acl, Associate(s, acl),
         NEW b \in Replaced, NEW d, Exact(b, d)
  PROVE  Exact(b, d)'
<1>1. net[s].id \in Nat /\ b.subnet \in Subnets /\ b.id \in Nat
  BY DEF TypeOK, Association, Replaced
<1>2. /\ net'[s] = [id |-> net[s].id + 1, acl |-> acl, prev |-> net[s].acl]
      /\ \A t \in Subnets \ {s} : net'[t] = net[t]
  BY DEF Associate, TypeOK
<1>3. CASE b.subnet = s
  BY <1>1, <1>2, <1>3 DEF Exact
<1>4. CASE b.subnet # s
  BY <1>1, <1>2, <1>4 DEF Exact
<1> QED
  BY <1>3, <1>4

\* Every step preserves the invariant.
LEMMA NextIInv == IInv /\ [Next]_vars => IInv'
<1> SUFFICES ASSUME IInv, [Next]_vars PROVE IInv'
  OBVIOUS
<1> USE ZoneAssumption, NoneAssumption
<1>t. TypeOK /\ TypeOK'
  BY TypeStep DEF IInv
<1>1. CASE CreateNetworkAcl
  <2>1. PICK e \in Exps, d \in DenyACLs \ made, first \in Subnets :
          /\ made' = made \cup {d} /\ acls' = acls \cup {d}
          /\ \/ /\ op' = Start("created", e, d, vpc[first], {}, FALSE)
                /\ UNCHANGED untended
             \/ untended' = untended \cup {d} /\ UNCHANGED op
    BY <1>1 DEF CreateNetworkAcl
  <2>2. op = Idle /\ OpHeld = {} /\ op.deny = None
    BY <1>1 DEF CreateNetworkAcl, IInv, Shape, Idle, Start, OpHeld
  <2>3. \/ op'.pc = "created" /\ op'.exp = e /\ op'.deny = d /\ untended' = untended
        \/ op' = Idle /\ untended' = untended \cup {d}
    BY <2>1, <2>2 DEF Start
  <2>4. OpHeld' = {} /\ op'.pc \in {"idle", "created"}
    BY <2>1, <2>2 DEF OpHeld, Idle, Start
  <2>5. UNCHANGED <<net, state, undone>> /\ untended \subseteq untended'
    BY <1>1, <2>3 DEF CreateNetworkAcl
  <2>6. Shape' /\ ReadExact'
    BY <2>1, <2>3, <2>4, <2>5 DEF IInv, Shape, ReadExact, Idle, Start
  <2>8. TakenOver' /\ HeldExact'
    BY <2>4, <2>5 DEF IInv, TakenOver, HeldExact, Exact
  <2>9. Owed'
    BY <2>2, <2>4, <2>5 DEF IInv, Owed, HasRecord
  <2>10. ACLOwed'
    BY <2>1, <2>2, <2>3, <2>5, <1>t DEF IInv, ACLOwed, TypeOK
  <2>11. NilMeansGone'
    BY <2>1, <2>5, <1>t DEF IInv, NilMeansGone, TypeOK
  <2> QED
    BY <1>t, <2>6, <2>8, <2>9, <2>10, <2>11 DEF IInv
<1>2. CASE CurrentAssociations
  <2>a. PICK todo : /\ op' = [op EXCEPT !.pc = "replacing", !.todo = todo]
                    /\ \A a \in todo : \E s \in Subnets :
                         a = [subnet |-> s, id |-> net[s].id, acl |-> net[s].acl]
    BY <1>2, ReadsSubnets
  <2>1. /\ op.pc = "created" /\ op'.pc = "replacing"
        /\ op'.exp = op.exp /\ op'.deny = op.deny /\ op'.assocs = op.assocs
        /\ \A a \in op'.todo : \E s \in Subnets :
             a = [subnet |-> s, id |-> net[s].id, acl |-> net[s].acl]
    BY <1>2, <1>t, <2>a DEF CurrentAssociations, TypeOK, Operation
  <2>2. UNCHANGED <<net, acls, made, state, untended, undone>>
    BY <1>2 DEF CurrentAssociations
  <2>3. OpHeld' = OpHeld
    BY <2>1 DEF OpHeld
  <2>4. Shape' /\ NilMeansGone' /\ ACLOwed'
    BY <2>1, <2>2 DEF IInv, Shape, NilMeansGone, ACLOwed
  <2>6. TakenOver' /\ HeldExact' /\ Owed'
    BY <2>1, <2>2, <2>3 DEF IInv, TakenOver, HeldExact, Exact, Owed, HasRecord
  <2>7. ReadExact'
    BY <2>1, <2>2, <1>t DEF ReadExact, TypeOK, Association
  <2> QED
    BY <1>t, <2>4, <2>6, <2>7 DEF IInv
<1>3. CASE ExecuteFails
  <2>1. /\ op.pc \in {"created", "replacing"} /\ op'.pc = "cleanup"
        /\ op'.exp = op.exp /\ op'.deny = op.deny /\ op'.todo = op.assocs
    BY <1>3, <1>t DEF ExecuteFails, FailExecute, TypeOK, Operation
  <2>2. UNCHANGED <<net, acls, made, state, untended, undone>>
    BY <1>3 DEF ExecuteFails
  <2>3. OpHeld' = OpHeld
    BY <2>1 DEF OpHeld
  <2>4. Shape' /\ NilMeansGone' /\ ACLOwed' /\ ReadExact'
    BY <2>1, <2>2
       DEF IInv, Shape, NilMeansGone, ACLOwed, ReadExact
  <2>5. TakenOver' /\ HeldExact' /\ Owed'
    BY <2>1, <2>2, <2>3 DEF IInv, TakenOver, HeldExact, Exact, Owed, HasRecord
  <2> QED
    BY <1>t, <2>4, <2>5 DEF IInv
<1>4. CASE ReplaceAssociation
  <2>1. PICK a : Replaces(a)
    BY <1>4, Choices
  <2>2. /\ a \in Replaced /\ a \in op.todo /\ op.deny \in DenyACLs /\ op.deny \in acls
        /\ op.pc = "replacing" /\ net[a.subnet].id = a.id /\ net[a.subnet].acl = a.acl
    BY <2>1, <1>t DEF Replaces, IInv, Shape, ReadExact, TypeOK, Operation
  <2>3. /\ a.subnet \in Subnets /\ a.id \in Nat /\ a.acl \in ACLs
    BY <2>2 DEF Replaced
  <2>4. /\ net'[a.subnet] = [id |-> a.id + 1, acl |-> op.deny, prev |-> a.acl]
        /\ \A s \in Subnets \ {a.subnet} : net'[s] = net[s]
    BY <2>1, <2>2, <2>3, <1>t DEF Replaces, Associate, TypeOK
  <2>5. UNCHANGED <<vpc, acls, made, state, undone>>
    BY <2>1 DEF Replaces
  <2>6. /\ op'.exp = op.exp /\ op'.deny = op.deny
        /\ untended' \subseteq DenyACLs
        /\ untended \subseteq untended' /\ a.acl \in UserACLs \cup untended'
        /\ \/ /\ op'.pc = "replacing" /\ op'.todo = op.todo \ {a}
              /\ op'.assocs = op.assocs \cup {KeepAssociation(a)}
           \/ op'.pc = "cleanup" /\ op'.todo = op.assocs /\ op.deny \in untended'
    BY <2>1, <2>2, <2>3, <1>t DEF Replaces, FailExecute, TypeOK, Operation, ACLs
  <2>7. /\ KeepAssociation(a).subnet = a.subnet /\ KeepAssociation(a).id = a.id + 1
        /\ KeepAssociation(a).acl = a.acl
    BY <2>2 DEF KeepAssociation, Replaced
  <2>8. \/ OpHeld' = OpHeld \cup {KeepAssociation(a)}
        \/ OpHeld' = OpHeld /\ op.deny \in untended'
    BY <2>2, <2>6 DEF OpHeld
  <2>9. \A s \in Subnets : net[s].id \in Nat
    BY <1>t DEF TypeOK, Association
  <2>10. /\ \A b \in OpHeld : b \in Replaced
         /\ \A b \in op.todo : b \in Replaced
         /\ \A e \in Exps : \A b \in state[e].assocs : b \in Replaced
    BY <1>t DEF TypeOK, Operation, OpHeld, AzFailureState, NoState
  <2>11. Shape'
    BY <2>2, <2>5, <2>6 DEF IInv, Shape
  <2>13. TakenOver'
    BY <2>5, <2>6, <2>7, <2>8 DEF IInv, TakenOver
  <2>14. ASSUME NEW b \in Replaced, NEW d, Exact(b, d)
         PROVE  Exact(b, d)'
    BY <1>t, <2>1, <2>3, <2>14, MoveKeepsExact DEF Replaces
  <2>15. Exact(KeepAssociation(a), op.deny)'
    BY <2>3, <2>4, <2>6, <2>7 DEF Exact
  <2>16. HeldExact'
    <3>1. \A e \in Exps : \A b \in state[e].assocs : Exact(b, state[e].deny)'
      BY <2>5, <2>10, <2>14 DEF IInv, HeldExact
    <3>2. \A b \in OpHeld : Exact(b, op.deny)'
      BY <2>6, <2>10, <2>14 DEF IInv, HeldExact
    <3> QED
      BY <2>5, <2>6, <2>8, <2>15, <3>1, <3>2 DEF HeldExact
  <2>17. ReadExact'
    <3>1. ASSUME NEW b \in op.todo
          PROVE  /\ b.id <= net'[b.subnet].id
                 /\ b.id = net'[b.subnet].id => net'[b.subnet].acl = b.acl
      <4>1. CASE b.subnet = a.subnet
        BY <2>2, <2>3, <2>4, <2>10, <4>1 DEF IInv, ReadExact, Replaced
      <4>2. CASE b.subnet # a.subnet
        BY <2>2, <2>4, <2>10, <4>2 DEF IInv, ReadExact, Replaced
      <4> QED
        BY <4>1, <4>2
    <3> QED
      BY <2>6, <3>1 DEF ReadExact
  <2>18. Owed'
    <3> SUFFICES ASSUME NEW s \in Subnets, net'[s].acl \in DenyACLs \ untended'
                 PROVE  HasRecord(s)'
      BY DEF Owed
    <3>1. CASE s = a.subnet
      BY <2>3, <2>4, <2>6, <2>7, <2>8, <3>1 DEF HasRecord
    <3>2. CASE s # a.subnet
      <4>1. HasRecord(s) /\ net'[s] = net[s]
        BY <2>4, <2>6, <3>2 DEF IInv, Owed
      <4> QED
        BY <2>5, <2>6, <2>8, <4>1 DEF HasRecord
    <3> QED
      BY <3>1, <3>2
  <2>19. ACLOwed'
    BY <2>5, <2>6 DEF IInv, ACLOwed
  <2>20. NilMeansGone'
    BY <2>2, <2>3, <2>4, <2>5 DEF IInv, NilMeansGone
  <2> QED
    BY <1>t, <2>11, <2>13, <2>16, <2>17, <2>18, <2>19, <2>20 DEF IInv
<1>5. CASE StoreState
  <2>1. /\ op.pc = "replacing" /\ op.todo = {} /\ op.exp \in Exps /\ op.deny \in made
        /\ state' = [state EXCEPT ![op.exp] = [deny |-> op.deny, assocs |-> op.assocs]]
        /\ untended' = untended \cup (DenyACLs \cap {state[op.exp].deny})
        /\ op' = Idle
        /\ UNCHANGED <<net, acls, made, undone>>
    BY <1>5 DEF StoreState, IInv, Shape
  <2>2. /\ state'[op.exp].deny = op.deny /\ state'[op.exp].assocs = op.assocs
        /\ \A e \in Exps \ {op.exp} : state'[e] = state[e]
        /\ OpHeld' = {} /\ OpHeld = op.assocs /\ op'.pc = "idle"
    BY <2>1, <1>t DEF TypeOK, OpHeld, Idle, Start
  <2>3. Shape' /\ ReadExact'
    BY <2>1, <2>2 DEF IInv, Shape, ReadExact
  <2>5. TakenOver' /\ HeldExact'
    BY <2>1, <2>2 DEF IInv, TakenOver, HeldExact, Exact
  <2>6. Owed'
    <3> SUFFICES ASSUME NEW s \in Subnets, net'[s].acl \in DenyACLs \ untended'
                 PROVE  HasRecord(s)'
      BY DEF Owed
    <3>1. HasRecord(s) /\ net' = net /\ state[op.exp].deny # net[s].acl
      BY <2>1 DEF IInv, Owed
    <3> QED
      BY <2>1, <2>2, <3>1 DEF HasRecord
  <2>7. ACLOwed'
    BY <2>1, <2>2, <1>t DEF IInv, ACLOwed, TypeOK
  <2>8. NilMeansGone'
    BY <2>1 DEF IInv, NilMeansGone
  <2> QED
    BY <1>t, <2>3, <2>5, <2>6, <2>7, <2>8 DEF IInv
<1>6. CASE Rollback
  <2>1. PICK e \in Exps :
          /\ state[e] # NoState
          /\ state' = [state EXCEPT ![e] = NoState]
          /\ \/ /\ op' = Start("cleanup", e, state[e].deny, None, state[e].assocs, TRUE)
                /\ UNCHANGED untended
             \/ untended' = untended \cup {state[e].deny} /\ UNCHANGED op
    BY <1>6 DEF Rollback
  <2>2. op = Idle /\ OpHeld = {} /\ op.deny = None
        /\ UNCHANGED <<net, acls, made, undone>>
    BY <1>6 DEF Rollback, IInv, Shape, Idle, Start, OpHeld
  <2>3. /\ state'[e].assocs = {} /\ state'[e] = NoState
        /\ \A f \in Exps \ {e} : state'[f] = state[f]
    BY <2>1, <1>t DEF TypeOK, NoState
  <2>4. \/ /\ op'.pc = "cleanup" /\ op'.exp = e /\ op'.deny = state[e].deny
           /\ OpHeld' = state[e].assocs /\ untended' = untended
        \/ /\ op' = Idle /\ op'.pc = "idle" /\ OpHeld' = {}
           /\ untended' = untended \cup {state[e].deny}
    BY <2>1, <2>2 DEF Start, OpHeld, Idle
  <2>5. Shape' /\ ReadExact'
    BY <2>1, <2>2, <2>3, <2>4 DEF IInv, Shape, ReadExact
  <2>6. NilMeansGone'
    BY <2>2, <2>3 DEF IInv, NilMeansGone
  <2>7. TakenOver' /\ HeldExact'
    BY <2>2, <2>3, <2>4 DEF IInv, TakenOver, HeldExact, Exact
  <2>8. Owed'
    <3> SUFFICES ASSUME NEW s \in Subnets, net'[s].acl \in DenyACLs \ untended'
                 PROVE  HasRecord(s)'
      BY DEF Owed
    <3>1. HasRecord(s) /\ net' = net
      BY <2>2, <2>4 DEF IInv, Owed
    <3> QED
      BY <2>2, <2>3, <2>4, <3>1 DEF HasRecord
  <2>9. ACLOwed'
    BY <2>2, <2>3, <2>4, <1>t DEF IInv, ACLOwed, TypeOK
  <2> QED
    BY <1>t, <2>5, <2>6, <2>7, <2>8, <2>9 DEF IInv
<1>7. CASE Restore
  <2>1. PICK a : Restores(a)
    BY <1>7, Choices
  <2>2. /\ a \in Replaced /\ a \in op.todo /\ op.deny \in DenyACLs
        /\ op.pc = "cleanup" /\ net[a.subnet].id = a.id
        /\ a.acl \in UserACLs \cup acls
    BY <2>1, <1>t DEF Restores, IInv, Shape, TypeOK, Operation
  <2>3. a.subnet \in Subnets
    BY <2>2 DEF Replaced
  <2>4. /\ net'[a.subnet].acl = a.acl
        /\ \A s \in Subnets \ {a.subnet} : net'[s] = net[s]
    BY <2>1, <2>3, <1>t DEF Restores, Associate, TypeOK
  <2>5. UNCHANGED <<vpc, acls, made, state, undone>>
    BY <2>1 DEF Restores
  <2>6. /\ op'.pc = "cleanup" /\ op'.exp = op.exp /\ op'.deny = op.deny
        /\ op'.todo = op.todo \ {a} /\ untended \subseteq untended'
    BY <2>1, <2>2, <1>t DEF Restores, Restored, NotRestored, TypeOK, Operation
  <2>7. OpHeld = op.todo /\ OpHeld' = op.todo \ {a}
    BY <2>2, <2>6 DEF OpHeld
  <2>8. /\ \A b \in OpHeld : b \in Replaced
        /\ \A e \in Exps : \A b \in state[e].assocs : b \in Replaced
    BY <1>t DEF TypeOK, Operation, OpHeld, AzFailureState, NoState
  <2>9. Shape' /\ ReadExact'
    BY <2>2, <2>5, <2>6 DEF IInv, Shape, ReadExact
  <2>10. TakenOver'
    BY <2>5, <2>6, <2>7 DEF IInv, TakenOver
  <2>11. ASSUME NEW b \in Replaced, NEW d, Exact(b, d)
         PROVE  Exact(b, d)'
    BY <1>t, <2>1, <2>3, <2>11, MoveKeepsExact DEF Restores
  <2>12. HeldExact'
    <3>1. \A e \in Exps : \A b \in state[e].assocs : Exact(b, state[e].deny)'
      BY <2>5, <2>8, <2>11 DEF IInv, HeldExact
    <3>2. \A b \in OpHeld : Exact(b, op.deny)'
      BY <2>6, <2>8, <2>11 DEF IInv, HeldExact
    <3> QED
      BY <2>5, <2>6, <2>7, <3>1, <3>2 DEF HeldExact
  <2>13. Owed'
    <3> SUFFICES ASSUME NEW s \in Subnets, net'[s].acl \in DenyACLs \ untended'
                 PROVE  HasRecord(s)'
      BY DEF Owed
    <3>1. s # a.subnet
      BY <2>2, <2>4, <2>6, <2>7 DEF IInv, TakenOver
    <3>2. HasRecord(s) /\ net'[s] = net[s]
      BY <2>4, <2>6, <3>1 DEF IInv, Owed
    <3> QED
      BY <2>5, <2>6, <2>7, <3>1, <3>2 DEF HasRecord
  <2>14. ACLOwed'
    BY <2>5, <2>6 DEF IInv, ACLOwed
  <2>15. NilMeansGone'
    BY <2>2, <2>3, <2>4, <2>5, <1>t DEF IInv, NilMeansGone, TypeOK
  <2> QED
    BY <1>t, <2>9, <2>10, <2>12, <2>13, <2>14, <2>15 DEF IInv
<1>8. CASE RestoreFails
  <2>1. PICK a \in op.todo : NotRestored(a)
    BY <1>8 DEF RestoreFails
  <2>2. op.pc = "cleanup" /\ UNCHANGED <<net, acls, made, state, undone>>
    BY <1>8 DEF RestoreFails
  <2>3. /\ op'.pc = "cleanup" /\ op'.exp = op.exp /\ op'.deny = op.deny
        /\ op'.todo = op.todo \ {a} /\ untended' = untended \cup {op.deny}
    BY <2>1, <2>2, <1>t DEF NotRestored, TypeOK, Operation
  <2>4. OpHeld = op.todo /\ OpHeld' = op.todo \ {a}
    BY <2>2, <2>3 DEF OpHeld
  <2>5. Shape' /\ ReadExact' /\ NilMeansGone' /\ ACLOwed'
    BY <2>2, <2>3
       DEF IInv, Shape, ReadExact, NilMeansGone, ACLOwed
  <2>6. TakenOver' /\ HeldExact'
    BY <2>2, <2>3, <2>4 DEF IInv, TakenOver, HeldExact, Exact
  <2>7. Owed'
    BY <2>2, <2>3, <2>4 DEF IInv, Owed, HasRecord
  <2> QED
    BY <1>t, <2>5, <2>6, <2>7 DEF IInv
<1>9. CASE DeleteNetworkAcl
  <2>1. /\ op.pc = "cleanup" /\ op.todo = {} /\ op' = Idle /\ OpHeld = {}
        /\ op'.pc = "idle" /\ OpHeld' = {} /\ UNCHANGED <<net, made, state>>
        /\ acls' \subseteq acls
    BY <1>9 DEF DeleteNetworkAcl, OpHeld, Idle, Start
  <2>2. /\ untended \subseteq untended'
        /\ op.deny \notin acls' \/ op.deny \in untended'
        /\ \/ undone' = undone
           \/ undone' \subseteq undone \cup {op.deny} /\ ~InUse(op.deny) /\ op.deny \notin acls'
    BY <1>9 DEF DeleteNetworkAcl, Succeeded
  <2>3. Shape' /\ ReadExact'
    BY <2>1 DEF IInv, Shape, ReadExact
  <2>4. TakenOver' /\ HeldExact'
    BY <2>1, <2>2 DEF IInv, TakenOver, HeldExact, Exact
  <2>5. Owed'
    BY <2>1, <2>2 DEF IInv, Owed, HasRecord
  <2>6. ACLOwed'
    BY <2>1, <2>2 DEF IInv, ACLOwed
  <2>7. NilMeansGone'
    BY <2>1, <2>2 DEF IInv, NilMeansGone, InUse
  <2> QED
    BY <1>t, <2>3, <2>4, <2>5, <2>6, <2>7 DEF IInv
<1>10. CASE UserMoves
  <2>1. PICK m \in Subnets, u \in UserACLs : Associate(m, u)
    BY <1>10 DEF UserMoves
  <2>2. UNCHANGED <<acls, made, state, op, untended, undone>>
    BY <1>10 DEF UserMoves
  <2>3. /\ net'[m].acl = u /\ net'[m].id = net[m].id + 1 /\ net[m].id \in Nat
        /\ \A s \in Subnets \ {m} : net'[s] = net[s]
    BY <2>1, <1>t DEF Associate, TypeOK, Association
  <2>4. OpHeld' = OpHeld
    BY <2>2 DEF OpHeld
  <2>5. /\ \A b \in OpHeld : b \in Replaced
        /\ \A b \in op.todo : b \in Replaced
        /\ \A e \in Exps : \A b \in state[e].assocs : b \in Replaced
    BY <1>t DEF TypeOK, Operation, OpHeld, AzFailureState, NoState
  <2>6. Shape' /\ ACLOwed'
    BY <2>2 DEF IInv, Shape, ACLOwed
  <2>7. TakenOver'
    BY <2>2, <2>4 DEF IInv, TakenOver
  <2>8. ASSUME NEW b \in Replaced, NEW d, Exact(b, d)
        PROVE  Exact(b, d)'
    BY <1>t, <2>1, <2>8, MoveKeepsExact
  <2>9. HeldExact'
    <3>1. \A e \in Exps : \A b \in state[e].assocs : Exact(b, state[e].deny)'
      BY <2>2, <2>5, <2>8 DEF IInv, HeldExact
    <3>2. \A b \in OpHeld : Exact(b, op.deny)'
      BY <2>2, <2>5, <2>8 DEF IInv, HeldExact
    <3> QED
      BY <2>2, <2>4, <3>1, <3>2 DEF HeldExact
  <2>10. ReadExact'
    <3>1. ASSUME op.pc = "replacing", NEW b \in op.todo
          PROVE  /\ b.id <= net'[b.subnet].id
                 /\ b.id = net'[b.subnet].id => net'[b.subnet].acl = b.acl
      <4>1. CASE b.subnet = m
        BY <2>3, <2>5, <3>1, <4>1 DEF IInv, ReadExact, Replaced
      <4>2. CASE b.subnet # m
        BY <2>3, <2>5, <3>1, <4>2 DEF IInv, ReadExact, Replaced
      <4> QED
        BY <4>1, <4>2
    <3> QED
      BY <2>2, <3>1 DEF ReadExact
  <2>11. Owed'
    <3> SUFFICES ASSUME NEW s \in Subnets, net'[s].acl \in DenyACLs \ untended'
                 PROVE  HasRecord(s)'
      BY DEF Owed
    <3>1. HasRecord(s) /\ net'[s] = net[s]
      BY <2>2, <2>3 DEF IInv, Owed
    <3> QED
      BY <2>2, <2>4, <3>1 DEF HasRecord
  <2>12. NilMeansGone'
    BY <2>2, <2>3, <1>t DEF IInv, NilMeansGone, TypeOK
  <2> QED
    BY <1>t, <2>6, <2>7, <2>9, <2>10, <2>11, <2>12 DEF IInv
<1>11. CASE Restart
  <2>1. /\ op' = Idle /\ op'.pc = "idle" /\ OpHeld' = {}
        /\ UNCHANGED <<net, acls, made, undone>>
    BY <1>11 DEF Restart, OpHeld, Idle, Start
  <2>2. \A e \in Exps : state'[e] = NoState /\ state'[e].assocs = {}
    BY <1>11 DEF Restart, NoState
  <2>3. /\ untended \subseteq untended'
        /\ op.deny \in DenyACLs => op.deny \in untended'
        /\ \A e \in Exps : state[e].deny \in DenyACLs => state[e].deny \in untended'
    BY <1>11 DEF Restart
  <2>4. Shape' /\ ReadExact' /\ NilMeansGone'
    BY <2>1, <2>2 DEF IInv, Shape, ReadExact, NilMeansGone
  <2>5. TakenOver' /\ HeldExact'
    BY <2>1, <2>2 DEF TakenOver, HeldExact
  <2>6. Owed'
    BY <2>1, <2>3 DEF IInv, Owed, HasRecord
  <2>7. ACLOwed'
    BY <2>1, <2>3, <1>t DEF IInv, ACLOwed, TypeOK
  <2> QED
    BY <1>t, <2>4, <2>5, <2>6, <2>7 DEF IInv
<1>12. CASE UNCHANGED vars
  <2>1. OpHeld' = OpHeld
    BY <1>12 DEF OpHeld, vars
  <2> QED
    BY <1>12, <1>t, <2>1 DEF vars, IInv, Shape, TakenOver,
       HeldExact, Exact, ReadExact, Owed, HasRecord, ACLOwed, NilMeansGone
<1> QED
  BY <1>1, <1>2, <1>3, <1>4, <1>5, <1>6, <1>7, <1>8, <1>9, <1>10, <1>11, <1>12
     DEF Next, Execute, Cleanup

\* The invariant holds in every state that Execute, Rollback, their failures, the
\* users of EC2 and restarts can reach.
THEOREM Invariance == Spec => []IInv
<1> QED
  BY InitIInv, NextIInv, PTL DEF Spec
-----------------------------------------------------------------------------
\* Every variable keeps its type.
THEOREM TypeCorrect == Spec => []TypeOK
<1>1. IInv => TypeOK
  BY DEF IInv
<1> QED
  BY <1>1, Invariance, PTL

\* The two places of a record are all there are.
LEMMA Places ==
  /\ \A e \in Exps : state[e] \in Holdings
  /\ [deny |-> op.deny, assocs |-> OpHeld] \in Holdings
BY DEF Holdings, OpHeld

\* Every subnet that a deny ACL isolates can be restored by the executor, unless
\* the ACL is untended: a call about it failed, or the operator restarted, or
\* another Execute took over.
THEOREM NoSubnetForgotten == Spec => []IsolationIsOwed
<1>1. IInv => IsolationIsOwed
  <2> SUFFICES ASSUME IInv, NEW s \in Subnets, net[s].acl \in DenyACLs \ untended
               PROVE  \E h \in Holdings : h.deny = net[s].acl /\
                        \E a \in h.assocs : a.subnet = s /\ a.id = net[s].id
    BY DEF IsolationIsOwed
  <2>1. HasRecord(s)
    BY DEF IInv, Owed
  <2> DEFINE here == [deny |-> op.deny, assocs |-> OpHeld]
  <2>2. here.deny = op.deny /\ here.assocs = OpHeld /\ here \in Holdings
    BY Places
  <2> HIDE DEF here
  <2> QED
    BY <2>1, <2>2, Places DEF HasRecord
<1> QED
  BY <1>1, Invariance, PTL

\* Under the same conditions no deny ACL is left behind.
THEOREM NoACLForgotten == Spec => []ACLIsOwed
<1>1. IInv => ACLIsOwed
  <2> DEFINE here == [deny |-> op.deny, assocs |-> OpHeld]
  <2>1. here.deny = op.deny /\ here \in Holdings
    BY Places
  <2> HIDE DEF here
  <2> QED
    BY <2>1, Places DEF IInv, ACLOwed, ACLIsOwed
<1> QED
  BY <1>1, Invariance, PTL

\* A nil from a Rollback that had a record means that its ACL is gone for good.
THEOREM NilIsTrue == Spec => []NilMeansGone
<1>1. IInv => NilMeansGone
  BY DEF IInv
<1> QED
  BY <1>1, Invariance, PTL

\* cleanup changes only what its own Execute changed and nobody has since, and
\* puts back what was there.
THEOREM CleanupRestores == Spec => RestoresOriginal
<1>1. IInv /\ [Next]_vars =>
        [Restore => \A s \in Subnets : net'[s] # net[s] =>
                      net[s].acl = op.deny /\ net'[s].acl = net[s].prev]_vars
  <2> SUFFICES ASSUME IInv, Restore, NEW s \in Subnets, net'[s] # net[s]
               PROVE  net[s].acl = op.deny /\ net'[s].acl = net[s].prev
    OBVIOUS
  <2>1. PICK a : Restores(a)
    BY Choices
  <2>2. a \in Replaced /\ a.subnet \in Subnets
    BY <2>1 DEF Restores, IInv, TypeOK, Operation, Replaced
  <2>3. s = a.subnet /\ net'[s].acl = a.acl
    BY <2>1, <2>2 DEF Restores, Associate, IInv, TypeOK
  <2>4. Exact(a, op.deny) /\ net[s].id = a.id
    BY <2>1, <2>3 DEF Restores, IInv, HeldExact, OpHeld
  <2> QED
    BY <2>3, <2>4 DEF Exact
<1> QED
  BY <1>1, Invariance, PTL DEF Spec, RestoresOriginal
=============================================================================
