------------------------------ MODULE AZFailure ------------------------------
(***************************************************************************)
(* aws-az-failure (internal/executor/aws): Execute makes a network ACL     *)
(* that denies everything and points every subnet of an availability zone  *)
(* at it, Rollback points them back and deletes it.  One zone, the         *)
(* experiments on it, EC2, and users who move subnets at any time.         *)
(*                                                                         *)
(* An operation is cut at its EC2 calls.  A call may be refused, and one   *)
(* that changes something may take effect although its reply is lost.      *)
(* EC2 names the link of a subnet to its ACL by an association id, which   *)
(* every change of the link replaces.  The controller has one worker, so   *)
(* one operation is in progress at a time.                                 *)
(***************************************************************************)
EXTENDS Naturals

CONSTANTS
  Subnets,    \* the subnets of the zone
  Vpcs,       \* the VPCs they may be in
  Exps,       \* the experiments, by UID
  UserACLs,   \* the ACLs that users made
  DenyACLs,   \* the ids that CreateNetworkAcl hands out
  MaxMoves    \* bound: users leave an association with a higher id alone

ASSUME ZoneAssumption ==
  /\ Subnets # {} /\ UserACLs # {}
  /\ UserACLs \cap DenyACLs = {}
  /\ MaxMoves \in Nat

None == "none"
ASSUME NoneAssumption == None \notin UserACLs \cup DenyACLs

VARIABLES
  vpc,       \* EC2: the VPC of each subnet
  net,       \* EC2: each subnet's association, and the ACL before it
  acls,      \* EC2: the deny ACLs that exist
  made,      \* EC2: the deny ACLs ever made
  state,     \* the executor's map, by experiment
  op,        \* the operation in progress
  untended,  \* history: deny ACLs that a failed call, a restart or another
             \* Execute has taken out of the executor's hands
  undone     \* history: deny ACLs whose Rollback returned nil

vars == <<vpc, net, acls, made, state, op, untended, undone>>

ACLs == UserACLs \cup DenyACLs

Association == [id: Nat, acl: ACLs, prev: ACLs]

\* azReplacedAssoc, azCurrentAssoc: an association id and the original ACL.
Replaced == [subnet: Subnets, id: Nat, acl: ACLs]

\* azFailureState.
AzFailureState == [deny: DenyACLs, assocs: SUBSET Replaced]
NoState == [deny |-> None, assocs |-> {}]

\* An Execute has made its ACL (created) or replaces associations; a cleanup
\* restores todo, for a Rollback or for an Execute that failed.  vpc is the one
\* of the deny ACL, failed says that cleanup has its firstErr.
Operation ==
  [pc: {"idle", "created", "replacing", "cleanup"}, exp: Exps \cup {None},
   deny: DenyACLs \cup {None}, vpc: Vpcs \cup {None},
   todo: SUBSET Replaced, assocs: SUBSET Replaced, rollback: BOOLEAN, failed: BOOLEAN]

Start(pc, e, d, v, todo, rollback) ==
  [pc |-> pc, exp |-> e, deny |-> d, vpc |-> v, todo |-> todo, assocs |-> {},
   rollback |-> rollback, failed |-> FALSE]

Idle == Start("idle", None, None, None, {}, FALSE)

Init ==
  /\ vpc \in [Subnets -> Vpcs]
  /\ net \in [Subnets -> {[id |-> 0, acl |-> a, prev |-> a] : a \in UserACLs}]
  /\ acls = {} /\ made = {}
  /\ state = [e \in Exps |-> NoState]
  /\ op = Idle
  /\ untended = {} /\ undone = {}
-----------------------------------------------------------------------------
(* EC2.                                                                    *)

\* ReplaceNetworkAclAssociation, when it takes effect.
Associate(s, acl) ==
  net' = [net EXCEPT ![s] = [id |-> net[s].id + 1, acl |-> acl, prev |-> net[s].acl]]

\* An association id that was replaced is unknown, and so is a deleted ACL.
CanAssociate(a, acl) ==
  net[a.subnet].id = a.id /\ acl \in UserACLs \cup acls

InUse(acl) == \E s \in Subnets : net[s].acl = acl
-----------------------------------------------------------------------------
(* Execute.                                                                *)

\* Faulty variant: Execute returns its error at once.
FailExecuteAtOnce == op' = Idle

\* cleanup of what Execute has done so far.
FailExecute == op' = [op EXCEPT !.pc = "cleanup", !.todo = op.assocs]

\* DescribeSubnets, then CreateNetworkAcl in the VPC of the first subnet that the
\* list shows.  Without a reply the id is not known, and nothing is cleaned up.
CreateNetworkAcl ==
  /\ op.pc = "idle"
  /\ \E e \in Exps, d \in DenyACLs \ made, first \in Subnets :
       /\ made' = made \cup {d} /\ acls' = acls \cup {d}
       /\ \/ /\ op' = Start("created", e, d, vpc[first], {}, FALSE)
             /\ UNCHANGED untended
          \/ /\ untended' = untended \cup {d}
             /\ UNCHANGED op
  /\ UNCHANGED <<vpc, net, state, undone>>

\* Faulty variant: the ACL of the first subnet is taken for the one of all.
CurrentAssociationsOneACL ==
  /\ op.pc = "created"
  /\ \E found \in (SUBSET Subnets) \ {{}} : \E one \in found :
       op' = [op EXCEPT !.pc = "replacing",
                        !.todo = {[subnet |-> s, id |-> net[s].id, acl |-> net[one].acl] :
                                    s \in found}]
  /\ UNCHANGED <<vpc, net, acls, made, state, untended, undone>>

\* Both deny entries are there, and currentAssociations has read the ids, of some
\* of the subnets: it wants one at least.
CurrentAssociations ==
  /\ op.pc = "created"
  /\ \E found \in (SUBSET Subnets) \ {{}} :
       op' = [op EXCEPT !.pc = "replacing",
                        !.todo = {[subnet |-> s, id |-> net[s].id, acl |-> net[s].acl] :
                                    s \in found}]
  /\ UNCHANGED <<vpc, net, acls, made, state, untended, undone>>

\* A deny entry is refused, the associations cannot be read, or the change of
\* one is refused: an ACL serves the subnets of its own VPC only.
ExecuteFails ==
  /\ op.pc \in {"created", "replacing"}
  /\ op.pc = "replacing" => op.todo # {}
  /\ FailExecute
  /\ UNCHANGED <<vpc, net, acls, made, state, untended, undone>>

\* Faulty variant: the id that the change has replaced is kept.
KeepAssociationOld(a) == a

\* What is kept of a replaced association: the id that the reply has.
KeepAssociation(a) == [a EXCEPT !.id = @ + 1]

\* One more association is replaced.  A subnet that another deny ACL isolates is
\* taken over: that ACL's association id is not valid any more.
ReplaceAssociation ==
  /\ op.pc = "replacing"
  /\ \E a \in op.todo :
       /\ CanAssociate(a, op.deny) /\ vpc[a.subnet] = op.vpc
       /\ Associate(a.subnet, op.deny)
       /\ \/ /\ op' = [op EXCEPT !.todo = @ \ {a}, !.assocs = @ \cup {KeepAssociation(a)}]
             /\ untended' = untended \cup (DenyACLs \cap {a.acl})
          \/ /\ FailExecute                                   \* the reply is lost
             /\ untended' = untended \cup (DenyACLs \cap {a.acl, op.deny})
  /\ UNCHANGED <<vpc, acls, made, state, undone>>

\* Execute returns nil.  Another Execute of the experiment loses the record of
\* the one before it.
StoreState ==
  /\ op.pc = "replacing" /\ op.todo = {}
  /\ state' = [state EXCEPT ![op.exp] = [deny |-> op.deny, assocs |-> op.assocs]]
  /\ untended' = untended \cup (DenyACLs \cap {state[op.exp].deny})
  /\ op' = Idle
  /\ UNCHANGED <<vpc, net, acls, made, undone>>
-----------------------------------------------------------------------------
(* Rollback, and cleanup.                                                  *)

\* The record is taken out of the map first; then there may be no client.
\* Without a record Rollback returns nil and changes nothing.
Rollback ==
  /\ op.pc = "idle"
  /\ \E e \in Exps :
       /\ state[e] # NoState
       /\ state' = [state EXCEPT ![e] = NoState]
       /\ \/ /\ op' = Start("cleanup", e, state[e].deny, None, state[e].assocs, TRUE)
             /\ UNCHANGED untended
          \/ /\ untended' = untended \cup {state[e].deny}
             /\ UNCHANGED op
  /\ UNCHANGED <<vpc, net, acls, made, undone>>

\* cleanup goes on after an error.
Restored(a) == op' = [op EXCEPT !.todo = @ \ {a}]
NotRestored(a) == /\ op' = [op EXCEPT !.todo = @ \ {a}, !.failed = TRUE]
                  /\ untended' = untended \cup {op.deny}

Restore ==
  /\ op.pc = "cleanup"
  /\ \E a \in op.todo :
       /\ CanAssociate(a, a.acl)
       /\ Associate(a.subnet, a.acl)
       /\ \/ Restored(a) /\ UNCHANGED untended
          \/ NotRestored(a)                                   \* the reply is lost
  /\ UNCHANGED <<vpc, acls, made, state, undone>>

RestoreFails ==
  /\ op.pc = "cleanup"
  /\ \E a \in op.todo : NotRestored(a)
  /\ UNCHANGED <<vpc, net, acls, made, state, undone>>

\* The Rollbacks that return nil after their deletion succeeded.
Succeeded == {d \in {op.deny} : op.rollback /\ ~op.failed}

\* Faulty variant: the error of the deletion is dropped.
DeleteNetworkAclNoError ==
  /\ op.pc = "cleanup" /\ op.todo = {}
  /\ \/ ~InUse(op.deny) /\ acls' = acls \ {op.deny} /\ UNCHANGED untended
     \/ untended' = untended \cup {op.deny} /\ UNCHANGED acls
  /\ undone' = undone \cup Succeeded
  /\ op' = Idle
  /\ UNCHANGED <<vpc, net, made, state>>

\* EC2 deletes no ACL that a subnet uses.  Execute drops cleanup's error, having
\* one of its own; Rollback returns it.
DeleteNetworkAcl ==
  /\ op.pc = "cleanup" /\ op.todo = {}
  /\ \/ /\ ~InUse(op.deny)
        /\ acls' = acls \ {op.deny}
        /\ \/ undone' = undone \cup Succeeded /\ UNCHANGED untended
           \/ untended' = untended \cup {op.deny} /\ UNCHANGED undone  \* reply lost
     \/ /\ untended' = untended \cup {op.deny}
        /\ UNCHANGED <<acls, undone>>
  /\ op' = Idle
  /\ UNCHANGED <<vpc, net, made, state>>
-----------------------------------------------------------------------------
\* A user points a subnet at one of their own ACLs.
UserMoves ==
  \E s \in Subnets, a \in UserACLs :
    /\ net[s].id < MaxMoves /\ net[s].acl # a
    /\ Associate(s, a)
    /\ UNCHANGED <<vpc, acls, made, state, op, untended, undone>>

\* The operator restarts: the map and the operation in progress are gone.
Restart ==
  /\ state' = [e \in Exps |-> NoState]
  /\ op' = Idle
  /\ untended' = untended \cup (DenyACLs \cap ({op.deny} \cup {state[e].deny : e \in Exps}))
  /\ UNCHANGED <<vpc, net, acls, made, undone>>

Execute ==
  \/ CreateNetworkAcl \/ CurrentAssociations \/ ExecuteFails \/ ReplaceAssociation
  \/ StoreState

Cleanup == Restore \/ RestoreFails \/ DeleteNetworkAcl

Next == Execute \/ Rollback \/ Cleanup \/ UserMoves \/ Restart

Spec == Init /\ [][Next]_vars
-----------------------------------------------------------------------------
(* Properties.                                                             *)

\* Every variable has its type.
TypeOK ==
  /\ vpc \in [Subnets -> Vpcs]
  /\ net \in [Subnets -> Association]
  /\ acls \subseteq made /\ made \subseteq DenyACLs
  /\ state \in [Exps -> AzFailureState \cup {NoState}]
  /\ op \in Operation
  /\ untended \subseteq DenyACLs /\ undone \subseteq made

\* What the executor can still restore, and the ACL it then deletes.
Holdings ==
  {state[e] : e \in Exps} \cup
  {[deny |-> op.deny, assocs |-> IF op.pc = "cleanup" THEN op.todo ELSE op.assocs]}

\* No subnet stays isolated unnoticed: while a deny ACL is in the executor's
\* hands, every subnet on it is in the map or in the operation in progress with
\* its current association id, so that Rollback or cleanup can restore it, also
\* when Execute stops half way.
IsolationIsOwed ==
  \A s \in Subnets :
    net[s].acl \in DenyACLs \ untended =>
      \E h \in Holdings : h.deny = net[s].acl /\
        \E a \in h.assocs : a.subnet = s /\ a.id = net[s].id

\* No deny ACL is left behind either ("then deletes the deny-all NACL", cleanup).
ACLIsOwed == \A d \in acls \ untended : \E h \in Holdings : h.deny = d

\* A Rollback that had a record and returned nil has deleted its ACL, and no
\* subnet is ever on it again, not even by the cleanup of another experiment
\* that had found it there.
NilMeansGone ==
  \A d \in undone : d \notin acls /\ \A s \in Subnets : net[s].acl # d

\* cleanup never overwrites what a user did since ("restores each replaced
\* association to its original ACL"): it changes a subnet only from its own deny
\* ACL, and to the ACL that Execute had replaced.
RestoresOriginal ==
  [][Restore => \A s \in Subnets : net'[s] # net[s] =>
                  net[s].acl = op.deny /\ net'[s].acl = net[s].prev]_vars
=============================================================================
