------------------------- MODULE AclSubstrateProofs -------------------------
(***************************************************************************)
(* Proofs about AclSubstrate, for every set of CRs, every set of specs and *)
(* every bound.  Type correctness, the exclusion of critical sections and  *)
(* the finalizer discipline hold outright; the three results about grants  *)
(* hold when no two specs disagree on a subject (ConflictFree) - the runs  *)
(* on conflicting specs show that they do fail otherwise.                  *)
(***************************************************************************)
EXTENDS AclSubstrate, TLAPS

(* No spec allows what another denies.                                     *)
ConflictFree == \A s, t \in Specs : \A a \in s.acls : Opposite(a) \notin t.acls

-----------------------------------------------------------------------------
(* The inductive invariant, in parts.                                      *)

DeletionPCs == {"lockDelete", "shield", "deleteACLs", "removeFinalizer"}

InSyncPCs == {"addFinalizer", "lock", "view", "list", "apply"}

(* The lock is held exactly by the reconcile inside its span.              *)
LockInv == \A c \in CRs : pc[c] \in SpanPCs <=> aclLock = c

(* Two copies of one object at one generation agree on spec and deletion.  *)
Same(x, y) ==
  x.exists /\ y.exists /\ x.gen = y.gen => x.spec = y.spec /\ x.deleting = y.deleting

(* A reconcile's copy is no newer than the cache, and the cache no newer   *)
(* than the API server; a cache at the object's generation has the object. *)
VersionInv ==
  \A c \in CRs :
    /\ copy[c].gen <= cache[c].gen
    /\ cache[c].gen <= obj[c].gen
    /\ Same(copy[c], cache[c])
    /\ Same(copy[c], obj[c])
    /\ Same(cache[c], obj[c])
    /\ obj[c].exists /\ cache[c].gen = obj[c].gen => cache[c].exists
    /\ status[c].gen <= cache[c].gen

(* Which path a reconcile is on follows from its copy.                     *)
PathInv ==
  \A c \in CRs :
    /\ pc[c] = "idle" => ~copy[c].exists /\ copy[c].gen = 0
    /\ pc[c] \in InSyncPCs => copy[c].exists /\ ~copy[c].deleting
    /\ pc[c] \in DeletionPCs => copy[c].exists /\ copy[c].deleting
    /\ pc[c] = "status" => copy[c].exists
    /\ pc[c] = "apply" => copy[c].spec.mode = "Enforce"

(* A live object that carries the finalizer.                               *)
Held(o) == o.exists /\ ~o.deleting /\ o.finalizer

FinalizerInv ==
  \A c \in CRs :
    /\ pc[c] \in {"lock", "view", "list", "apply"} => obj[c].exists /\ obj[c].finalizer
    /\ Held(cache[c]) => obj[c].exists /\ obj[c].finalizer
    /\ pc[c] \in DeletionPCs => ~Held(cache[c]) /\ ~Held(obj[c])
    /\ cache[c].exists /\ cache[c].deleting => ~Held(obj[c])

BaseInv == TypeOK /\ LockInv /\ VersionInv /\ PathInv /\ FinalizerInv

-----------------------------------------------------------------------------
(* c is, or without passing through the lock again may become, Ready for   *)
(* the spec it has now.                                                    *)
Claims(c) ==
  /\ obj[c].exists
  /\ ~obj[c].deleting
  /\ \/ status[c].ready /\ status[c].gen = obj[c].gen
     \/ pc[c] \in {"list", "apply"} /\ copy[c].gen = obj[c].gen
     \/ pc[c] = "status" /\ result[c] /\ copy[c].gen = obj[c].gen

(* What the lock holder d goes by covers every CR that claims its spec.    *)
ViewInv ==
  \A c, d \in CRs :
    Claims(c) =>
      /\ pc[d] = "list" => obj[c].spec.acls \subseteq view[d].desired
      /\ pc[d] = "list" /\ ~obj[c].spec.prune
           => \A b \in obj[c].spec.acls : scopeKeyOf(b) \notin view[d].consented
      /\ pc[d] \in {"apply", "deleteACLs"} => obj[c].spec.acls \cap deletes[d] = {}
      /\ pc[d] = "apply" /\ ~obj[c].spec.prune
           => \A a \in deletes[d] : ~Covers(obj[c].spec, a)

(* Tuples on the broker, or taken from it by somebody else.                *)
Accounted == acls \cup tampered

GrantInv ==
  \A c \in CRs :
    obj[c].exists /\ ~obj[c].deleting =>
      /\ status[c].ready /\ status[c].gen = obj[c].gen /\ obj[c].spec.mode # "ObserveOnly"
           => obj[c].spec.acls \subseteq Accounted
      /\ pc[c] = "status" /\ result[c] /\ copy[c].gen = obj[c].gen
           /\ copy[c].spec.mode # "ObserveOnly" => copy[c].spec.acls \subseteq Accounted
      /\ pc[c] = "apply" /\ result[c] /\ copy[c].gen = obj[c].gen
           => copy[c].spec.acls \subseteq Accounted \cup creates[c]

IInv == BaseInv /\ ViewInv /\ GrantInv

-----------------------------------------------------------------------------
(* Typing of the helpers.                                                  *)

(* The opposite of a tuple is a tuple, on the same subject.                *)
LEMMA OppositeType ==
  ASSUME NEW a \in ACL
  PROVE  Opposite(a) \in ACL /\ scopeKeyOf(a) \in ScopeKeys
BY ScopeAssumption DEF ACL, Permissions, Opposite, scopeKeyOf

(* An absent object is a well-typed one.                                   *)
LEMMA NoObjectType ==
  ASSUME NEW g \in Nat
  PROVE  NoObject(g) \in Object /\ ~NoObject(g).exists /\ NoObject(g).gen = g
<1>1. (CHOOSE s \in Specs : TRUE) \in Specs
  BY SpecsAssumption
<1>. QED  BY <1>1 DEF NoObject, NewObject, Object

(* A newly created object is a well-typed one.                             *)
LEMMA NewObjectType ==
  ASSUME NEW g \in Nat, NEW s \in Specs, NEW ok \in BOOLEAN
  PROVE  /\ NewObject(g, s, ok) \in Object
         /\ NewObject(g, s, ok).exists /\ NewObject(g, s, ok).gen = g
         /\ NewObject(g, s, ok).spec = s /\ ~NewObject(g, s, ok).deleting
         /\ ~NewObject(g, s, ok).finalizer
BY DEF NewObject, Object

(* What the updates of an object change and what they leave alone.         *)
LEMMA UpdateType ==
  ASSUME NEW o \in Object, NEW s \in Specs
  PROVE  /\ Finalized(o) \in Object
         /\ Finalized(o).finalizer
         /\ Finalized(o).exists = o.exists /\ Finalized(o).gen = o.gen
         /\ Finalized(o).spec = o.spec /\ Finalized(o).deleting = o.deleting
         /\ Edited(o, s) \in Object
         /\ Edited(o, s).exists = o.exists /\ Edited(o, s).gen = o.gen + 1
         /\ Edited(o, s).deleting = o.deleting /\ Edited(o, s).finalizer = o.finalizer
         /\ Terminating(o) \in Object
         /\ Terminating(o).exists = o.exists /\ Terminating(o).gen = o.gen + 1
         /\ Terminating(o).deleting /\ Terminating(o).finalizer = o.finalizer
         /\ AllowDelete(o) \in Object
         /\ AllowDelete(o).exists = o.exists /\ AllowDelete(o).gen = o.gen
         /\ AllowDelete(o).spec = o.spec /\ AllowDelete(o).deleting = o.deleting
         /\ AllowDelete(o).finalizer = o.finalizer
         /\ ForceRemoval(o) \in Object
         /\ ForceRemoval(o).exists = o.exists /\ ForceRemoval(o).gen = o.gen
         /\ ForceRemoval(o).spec = o.spec /\ ForceRemoval(o).deleting = o.deleting
         /\ ForceRemoval(o).finalizer = o.finalizer
<1>1. ASSUME NEW p \in Object
      PROVE  /\ NextGen(p) \in Object
             /\ NextGen(p).exists = p.exists /\ NextGen(p).gen = p.gen + 1
             /\ NextGen(p).spec = p.spec /\ NextGen(p).deleting = p.deleting
             /\ NextGen(p).finalizer = p.finalizer
  <2>1. NextGen(p) \in Object
    BY DEF Object, NextGen
  <2>. QED  BY <2>1 DEF Object, NextGen
<1>2. /\ Finalized(o) \in Object
      /\ AllowDelete(o) \in Object
      /\ ForceRemoval(o) \in Object
      /\ [o EXCEPT !.spec = s] \in Object
      /\ [o EXCEPT !.deleting = TRUE] \in Object
  BY DEF Object, Finalized, AllowDelete, ForceRemoval
<1>3. /\ Finalized(o).finalizer
      /\ Finalized(o).exists = o.exists /\ Finalized(o).gen = o.gen
      /\ Finalized(o).spec = o.spec /\ Finalized(o).deleting = o.deleting
  BY DEF Object, Finalized
<1>4. /\ AllowDelete(o).exists = o.exists /\ AllowDelete(o).gen = o.gen
      /\ AllowDelete(o).spec = o.spec /\ AllowDelete(o).deleting = o.deleting
      /\ AllowDelete(o).finalizer = o.finalizer
  BY DEF Object, AllowDelete
<1>5. /\ ForceRemoval(o).exists = o.exists /\ ForceRemoval(o).gen = o.gen
      /\ ForceRemoval(o).spec = o.spec /\ ForceRemoval(o).deleting = o.deleting
      /\ ForceRemoval(o).finalizer = o.finalizer
  BY DEF Object, ForceRemoval
<1>6. /\ Edited(o, s) \in Object
      /\ Edited(o, s).exists = o.exists /\ Edited(o, s).gen = o.gen + 1
      /\ Edited(o, s).deleting = o.deleting /\ Edited(o, s).finalizer = o.finalizer
  <2>. DEFINE p == [o EXCEPT !.spec = s]
  <2>1. p \in Object /\ p.exists = o.exists /\ p.gen = o.gen
        /\ p.deleting = o.deleting /\ p.finalizer = o.finalizer
    BY <1>2 DEF Object
  <2>2. Edited(o, s) = NextGen(p)
    BY DEF Edited
  <2>. HIDE DEF p
  <2>. QED  BY <1>1, <2>1, <2>2
<1>7. /\ Terminating(o) \in Object
      /\ Terminating(o).exists = o.exists /\ Terminating(o).gen = o.gen + 1
      /\ Terminating(o).deleting /\ Terminating(o).finalizer = o.finalizer
  <2>. DEFINE p == [o EXCEPT !.deleting = TRUE]
  <2>1. p \in Object /\ p.exists = o.exists /\ p.gen = o.gen
        /\ p.deleting /\ p.finalizer = o.finalizer
    BY <1>2 DEF Object
  <2>2. Terminating(o) = NextGen(p)
    BY DEF Terminating
  <2>. HIDE DEF p
  <2>. QED  BY <1>1, <2>1, <2>2
<1>. QED  BY <1>2, <1>3, <1>4, <1>5, <1>6, <1>7

(* The view built from a well-typed cache is well-typed.                   *)
LEMMA ViewType ==
  ASSUME cache \in [CRs -> Object]
  PROVE  buildClusterACLView \in ClusterACLView
<1>1. \A i \in Contributions : i.acl \in ACL
  BY SpecsAssumption DEF Contributions, CompilePolicy, PolicySpec, Object
<1>2. DesiredUnion(Contributions) \subseteq ACL
  BY <1>1 DEF DesiredUnion, Tuples
<1>3. ManagedScope(Contributions) \subseteq ScopeKeys
  BY <1>2, OppositeType DEF ManagedScope
<1>4. ConsentedScope(Contributions) \subseteq ScopeKeys
  BY <1>3 DEF ConsentedScope
<1>. QED  BY <1>2, <1>3, <1>4 DEF buildClusterACLView, ClusterACLView

(* A spec's tuples are tuples.                                             *)
LEMMA SpecACLs ==
  ASSUME NEW s \in Specs
  PROVE  s.acls \in SUBSET ACL /\ s.prune \in BOOLEAN
BY SpecsAssumption DEF PolicySpec

-----------------------------------------------------------------------------
(* Type correctness, one step per action.                                  *)

(* Returning from a reconcile keeps the locals well-typed.                 *)
LEMMA ReturnType ==
  ASSUME TypeOK, NEW c \in CRs, Return(c)
  PROVE  /\ pc' \in [CRs -> PCs]
         /\ copy' \in [CRs -> Object]
         /\ view' \in [CRs -> ClusterACLView]
         /\ creates' \in [CRs -> SUBSET ACL]
         /\ deletes' \in [CRs -> SUBSET ACL]
         /\ result' \in [CRs -> BOOLEAN]
<1>1. NoObject(0) \in Object
  BY NoObjectType
<1>2. NoView \in ClusterACLView
  BY DEF NoView, ClusterACLView
<1>. QED  BY <1>1, <1>2 DEF TypeOK, Return, Goto, PCs

(* Every step of a reconcile preserves the types.                          *)
LEMMA ReconcileStepType ==
  ASSUME TypeOK, NEW c \in CRs, ReconcileStep(c)
  PROVE  TypeOK'
<1>. USE DEF TypeOK, apiVars, brokerVars, budgetVars, opsVars
<1>0. NoView \in ClusterACLView
  BY DEF NoView, ClusterACLView
<1>1. CASE ReconcileGone(c)
  BY <1>1 DEF ReconcileGone
<1>2. CASE Reconcile(c)
  BY <1>2 DEF Reconcile, Begin, Goto, PCs
<1>3. CASE AddFinalizer(c)
  <2>1. obj' \in [CRs -> Object]
    BY <1>3, UpdateType, SpecsAssumption DEF AddFinalizer
  <2>. QED  BY <1>3, <2>1 DEF AddFinalizer, Goto, PCs
<1>4. CASE UpdateFails(c)
  BY <1>4, ReturnType DEF UpdateFails, RequeueAfterReturn, Fault
<1>5. CASE Lock(c)
  BY <1>5 DEF Lock, lockSubstrate, Goto, PCs
<1>6. CASE BuildView(c)
  BY <1>6, ViewType DEF BuildView, Goto, PCs
<1>7. CASE ListEnforce(c)
  <2>1. CreateAclOps(c) \in SUBSET ACL
    BY SpecACLs DEF CreateAclOps, Object
  <2>2. DeleteAclOps(c) \in SUBSET ACL
    BY DEF DeleteAclOps, PruneCandidates
  <2>. QED  BY <1>0, <1>7, <2>1, <2>2 DEF ListEnforce, Goto, PCs
<1>8. CASE ListReport(c)
  BY <1>0, <1>8 DEF ListReport, Goto, PCs, unlockACL
<1>9. ASSUME NEW a \in ACL, ApplyCreate(c, a)
      PROVE  TypeOK'
  BY <1>9 DEF ApplyCreate
<1>10. ASSUME NEW a \in ACL, ApplyDelete(c, a)
       PROVE  TypeOK'
  BY <1>10 DEF ApplyDelete
<1>11. CASE ApplyDone(c)
  BY <1>11 DEF ApplyDone, Goto, PCs, unlockACL
<1>12. CASE UpdateStatus(c)
  <2>1. status' \in [CRs -> Status]
    BY <1>12 DEF UpdateStatus, Status, Object
  <2>. QED  BY <1>12, <2>1, ReturnType DEF UpdateStatus, RequeueAfterReturn
<1>13. CASE UpdateStatusFails(c)
  BY <1>13, ReturnType DEF UpdateStatusFails, RequeueAfterReturn, Fault
<1>14. CASE ShieldDeletion(c)
  <2>1. shieldACLDeletion(c) \in SUBSET ACL
    BY SpecACLs DEF shieldACLDeletion, Object
  <2>. QED  BY <1>14, <2>1 DEF ShieldDeletion, Goto, PCs
<1>15. CASE DeleteACLs(c)
  BY <1>15 DEF DeleteACLs, Goto, PCs, unlockACL
<1>16. CASE RemoveFinalizer(c)
  <2>1. obj[c].gen \in Nat
    BY DEF Object
  <2>2. NoObject(obj[c].gen) \in Object
    BY <2>1, NoObjectType
  <2>3. NotReady \in Status
    BY DEF NotReady, Status
  <2>. QED  BY <1>16, <2>2, <2>3, ReturnType DEF RemoveFinalizer
<1>. QED
  BY <1>1, <1>2, <1>3, <1>4, <1>5, <1>6, <1>7, <1>8, <1>9, <1>10, <1>11, <1>12,
     <1>13, <1>14, <1>15, <1>16 DEF ReconcileStep

(* So does every failing call.                                             *)
LEMMA FaultStepType ==
  ASSUME TypeOK, NEW c \in CRs, FaultStep(c)
  PROVE  TypeOK'
<1>. USE DEF TypeOK, apiVars, brokerVars, budgetVars, opsVars, Fault
<1>0. NoView \in ClusterACLView
  BY DEF NoView, ClusterACLView
<1>1. CASE ReconcileUnreachable(c)
  BY <1>1 DEF ReconcileUnreachable, Begin, Goto, PCs
<1>2. CASE ReadFails(c)
  BY <1>0, <1>2 DEF ReadFails, Goto, PCs, unlockACL
<1>3. CASE DeletionFails(c)
  <2>1. acls' \subseteq ACL
    BY <1>3 DEF DeletionFails
  <2>. QED  BY <1>3, <2>1, ReturnType DEF DeletionFails, RequeueAfterReturn, unlockACL
<1>4. ASSUME NEW a \in ACL, ApplyFails(c, a)
      PROVE  TypeOK'
  <2>1. acls' \subseteq ACL
    BY <1>4 DEF ApplyFails
  <2>. QED  BY <1>4, <2>1 DEF ApplyFails
<1>. QED  BY <1>1, <1>2, <1>3, <1>4 DEF FaultStep

(* And everything users, the informer, other clients and restarts do.      *)
LEMMA EnvironmentType ==
  ASSUME TypeOK,
         \/ \E c \in CRs : UserOp(c) \/ CacheSync(c)
         \/ mapClusterToPolicies
         \/ \E a \in ACL : Tamper(a)
         \/ Crash
  PROVE  TypeOK'
<1>. USE DEF TypeOK, apiVars, brokerVars, budgetVars, opsVars, Fault
<1>1. ASSUME NEW c \in CRs, UserOp(c)
      PROVE  TypeOK'
  <2>. USE DEF UserStep
  <2>1. obj[c].gen \in Nat /\ obj[c].gen + 1 \in Nat
    BY DEF Object
  <2>2. ASSUME NEW s \in Specs, Edit(c, s)
        PROVE  TypeOK'
    <3>1. obj' \in [CRs -> Object]
      BY <2>2, UpdateType DEF Edit
    <3>. QED  BY <2>2, <3>1 DEF Edit
  <2>3. ASSUME NEW s \in Specs, NEW ok \in BOOLEAN, Create(c, s, ok)
        PROVE  TypeOK'
    <3>1. NewObject(obj[c].gen + 1, s, ok) \in Object
      BY <2>1, NewObjectType
    <3>. QED  BY <2>3, <3>1 DEF Create
  <2>4. CASE Delete(c)
    <3>1. NoObject(obj[c].gen) \in Object
      BY <2>1, NoObjectType
    <3>2. NotReady \in Status
      BY DEF NotReady, Status
    <3>3. obj' \in [CRs -> Object]
      BY <2>4, <3>1, UpdateType, SpecsAssumption DEF Delete
    <3>. QED  BY <2>4, <3>2, <3>3 DEF Delete
  <2>5. CASE Annotate(c)
    <3>1. obj' \in [CRs -> Object]
      BY <2>5, UpdateType, SpecsAssumption DEF Annotate
    <3>. QED  BY <2>5, <3>1 DEF Annotate
  <2>. QED  BY <1>1, <2>2, <2>3, <2>4, <2>5 DEF UserOp
<1>2. ASSUME NEW c \in CRs, CacheSync(c)
      PROVE  TypeOK'
  BY <1>2 DEF CacheSync
<1>3. CASE mapClusterToPolicies
  BY <1>3 DEF mapClusterToPolicies, UserStep
<1>4. ASSUME NEW a \in ACL, Tamper(a)
      PROVE  TypeOK'
  BY <1>4 DEF Tamper
<1>5. CASE Crash
  <2>1. NoObject(0) \in Object
    BY NoObjectType
  <2>2. NoView \in ClusterACLView
    BY DEF NoView, ClusterACLView
  <2>. QED  BY <1>5, <2>1, <2>2 DEF Crash, PCs
<1>. QED  BY <1>1, <1>2, <1>3, <1>4, <1>5

(* The initial state is well-typed.                                        *)
LEMMA InitType == Init => TypeOK
<1>. SUFFICES ASSUME Init PROVE TypeOK
  OBVIOUS
<1>1. obj \in [CRs -> Object]
  <2>1. NoObject(0) \in Object
    BY NoObjectType
  <2>2. \A s \in Specs, ok \in BOOLEAN : NewObject(1, s, ok) \in Object
    BY NewObjectType
  <2>. QED  BY <2>1, <2>2 DEF Init
<1>2. NoObject(0) \in Object
  BY NoObjectType
<1>3. NotReady \in Status /\ NoView \in ClusterACLView
  BY DEF NotReady, Status, NoView, ClusterACLView
<1>. QED  BY <1>1, <1>2, <1>3, BoundsAssumption DEF Init, TypeOK, PCs

(* Type correctness: no path of a reconcile, no failure and no user action *)
(* leaves an ill-formed object, view, operation list or lock.              *)
THEOREM TypeCorrect == Spec => []TypeOK
<1>1. Init => TypeOK
  BY InitType
<1>2. TypeOK /\ [Next]_vars => TypeOK'
  <2>. SUFFICES ASSUME TypeOK, [Next]_vars PROVE TypeOK'
    OBVIOUS
  <2>1. CASE Next
    BY <2>1, ReconcileStepType, FaultStepType, EnvironmentType DEF Next
  <2>2. CASE UNCHANGED vars
    BY <2>2 DEF vars, TypeOK
  <2>. QED  BY <2>1, <2>2
<1>. QED  BY <1>1, <1>2, PTL DEF Spec

-----------------------------------------------------------------------------
(* The lock and the spans.                                                 *)

(* No step separates the lock from the span it protects.                   *)
LEMMA LockStep ==
  ASSUME TypeOK, LockInv, Next
  PROVE  LockInv'
<1>. USE NoCRAssumption DEF TypeOK, LockInv, SpanPCs, Goto, Return, RequeueAfterReturn,
     unlockACL, apiVars, brokerVars, budgetVars, opsVars
<1>1. ASSUME NEW c \in CRs, ReconcileStep(c)
      PROVE  LockInv'
  <2>1. CASE ReconcileGone(c) \/ Reconcile(c) \/ AddFinalizer(c) \/ UpdateFails(c)
    BY <2>1 DEF ReconcileGone, Reconcile, Begin, AddFinalizer, UpdateFails
  <2>2. CASE Lock(c) \/ BuildView(c)
    BY <2>2 DEF Lock, lockSubstrate, BuildView
  <2>3. CASE ListEnforce(c) \/ ListReport(c)
    BY <2>3 DEF ListEnforce, ListReport
  <2>4. ASSUME NEW a \in ACL, ApplyCreate(c, a) \/ ApplyDelete(c, a)
        PROVE  LockInv'
    BY <2>4 DEF ApplyCreate, ApplyDelete
  <2>5. CASE ApplyDone(c) \/ UpdateStatus(c) \/ UpdateStatusFails(c)
    BY <2>5 DEF ApplyDone, UpdateStatus, UpdateStatusFails
  <2>6. CASE ShieldDeletion(c) \/ DeleteACLs(c) \/ RemoveFinalizer(c)
    BY <2>6 DEF ShieldDeletion, DeleteACLs, RemoveFinalizer
  <2>. QED  BY <1>1, <2>1, <2>2, <2>3, <2>4, <2>5, <2>6 DEF ReconcileStep
<1>2. ASSUME NEW c \in CRs, FaultStep(c)
      PROVE  LockInv'
  <2>1. CASE ReconcileUnreachable(c) \/ ReadFails(c) \/ DeletionFails(c)
    BY <2>1 DEF ReconcileUnreachable, Begin, ReadFails, DeletionFails
  <2>2. ASSUME NEW a \in ACL, ApplyFails(c, a)
        PROVE  LockInv'
    BY <2>2 DEF ApplyFails
  <2>. QED  BY <1>2, <2>1, <2>2 DEF FaultStep
<1>3. ASSUME NEW c \in CRs, UserOp(c) \/ CacheSync(c)
      PROVE  LockInv'
  BY <1>3 DEF UserOp, Edit, Create, Delete, Annotate, UserStep, CacheSync
<1>4. CASE mapClusterToPolicies \/ Crash \/ \E a \in ACL : Tamper(a)
  BY <1>4 DEF mapClusterToPolicies, UserStep, Crash, Tamper
<1>. QED  BY <1>1, <1>2, <1>3, <1>4 DEF Next

(* Mutual exclusion of the read-compute-write spans: of all the writers of *)
(* a cluster's ACLs at most one is between its view build and its last     *)
(* broker write, for any number of CRs and workers.                        *)
THEOREM SpansAreExclusive == Spec => []SpansExclude
<1>1. Init => LockInv
  BY NoCRAssumption DEF Init, LockInv, SpanPCs
<1>2. TypeOK /\ LockInv /\ [Next]_vars => LockInv'
  <2>1. LockInv /\ UNCHANGED vars => LockInv'
    BY DEF LockInv, vars
  <2>. QED  BY <2>1, LockStep
<1>3. TypeOK /\ LockInv => SpansExclude
  BY DEF TypeOK, LockInv, SpansExclude
<1>. QED  BY <1>1, <1>2, <1>3, TypeCorrect, PTL DEF Spec

-----------------------------------------------------------------------------
(* Versions, paths and finalizers.                                         *)

(* The steps of a reconcile keep the three copies of an object in order.   *)
LEMMA VersionReconcile ==
  ASSUME TypeOK, VersionInv, PathInv, NEW c \in CRs, ReconcileStep(c) \/ FaultStep(c)
  PROVE  VersionInv'
<1>. USE DEF TypeOK, apiVars, brokerVars, budgetVars, opsVars
<1>0. ASSUME UNCHANGED <<obj, status, cache, copy>>
      PROVE  VersionInv'
  BY <1>0 DEF VersionInv, Same
<1>n. NoObject(0) \in Object /\ ~NoObject(0).exists /\ NoObject(0).gen = 0
  BY NoObjectType
<1>t. \A d \in CRs : /\ obj[d] \in Object /\ obj[d].gen \in Nat
                     /\ cache[d].gen \in Nat /\ copy[d].gen \in Nat
                     /\ status[d].gen \in Nat
  BY DEF Object, Status
<1>u. ASSUME UNCHANGED <<obj, status, cache>>, copy' = [copy EXCEPT ![c] = NoObject(0)]
      PROVE  VersionInv'
  BY <1>u, <1>n, <1>t DEF VersionInv, Same
<1>v. ASSUME UNCHANGED <<obj, status, cache>>, copy' = [copy EXCEPT ![c] = cache[c]]
      PROVE  VersionInv'
  BY <1>v, <1>t DEF VersionInv, Same
<1>1. CASE \/ ReconcileGone(c) \/ Lock(c) \/ BuildView(c) \/ ListEnforce(c)
           \/ ListReport(c) \/ ApplyDone(c) \/ ShieldDeletion(c) \/ DeleteACLs(c)
           \/ ReadFails(c)
           \/ \E a \in ACL : ApplyCreate(c, a) \/ ApplyDelete(c, a) \/ ApplyFails(c, a)
  BY <1>0, <1>1 DEF ReconcileGone, Lock, BuildView, ListEnforce, ListReport, ApplyDone,
     ShieldDeletion, DeleteACLs, ReadFails, ApplyCreate, ApplyDelete, ApplyFails
<1>2. CASE UpdateFails(c) \/ UpdateStatusFails(c) \/ DeletionFails(c)
  BY <1>u, <1>2 DEF UpdateFails, UpdateStatusFails, DeletionFails, RequeueAfterReturn, Return
<1>3. CASE Reconcile(c) \/ ReconcileUnreachable(c)
  BY <1>v, <1>3 DEF Reconcile, ReconcileUnreachable, Begin
<1>4. CASE AddFinalizer(c)
  <2>1. /\ obj'[c].exists = obj[c].exists /\ obj'[c].gen = obj[c].gen
        /\ obj'[c].spec = obj[c].spec /\ obj'[c].deleting = obj[c].deleting
        /\ copy'[c] = obj'[c] /\ copy[c] = obj[c]
    BY <1>4, UpdateType, SpecsAssumption DEF AddFinalizer
  <2>2. \A d \in CRs \ {c} : obj'[d] = obj[d] /\ copy'[d] = copy[d]
    BY <1>4 DEF AddFinalizer
  <2>3. UNCHANGED <<status, cache>>
    BY <1>4 DEF AddFinalizer
  <2>. QED  BY <2>1, <2>2, <2>3, <1>t DEF VersionInv, Same
<1>5. CASE UpdateStatus(c)
  <2>1. /\ UNCHANGED <<obj, cache>>
        /\ copy' = [copy EXCEPT ![c] = NoObject(0)]
        /\ status' = [status EXCEPT ![c] = [ready |-> result[c], gen |-> copy[c].gen]]
    BY <1>5 DEF UpdateStatus, RequeueAfterReturn, Return
  <2>. QED  BY <2>1, <1>n, <1>t DEF VersionInv, Same
<1>6. CASE RemoveFinalizer(c)
  <2>1. /\ NoObject(obj[c].gen) \in Object
        /\ ~NoObject(obj[c].gen).exists /\ NoObject(obj[c].gen).gen = obj[c].gen
    BY <1>t, NoObjectType
  <2>2. /\ UNCHANGED cache
        /\ copy' = [copy EXCEPT ![c] = NoObject(0)]
        /\ obj' = [obj EXCEPT ![c] = NoObject(obj[c].gen)]
        /\ status' = [status EXCEPT ![c] = NotReady]
    BY <1>6 DEF RemoveFinalizer, Return
  <2>3. NotReady.gen = 0
    BY DEF NotReady
  <2>. QED  BY <2>1, <2>2, <2>3, <1>n, <1>t DEF VersionInv, Same
<1>. QED  BY <1>1, <1>2, <1>3, <1>4, <1>5, <1>6 DEF ReconcileStep, FaultStep

(* So do the users, the informer and a restart.                            *)
LEMMA VersionEnvironment ==
  ASSUME TypeOK, VersionInv,
         \/ \E c \in CRs : UserOp(c) \/ CacheSync(c)
         \/ mapClusterToPolicies
         \/ \E a \in ACL : Tamper(a)
         \/ Crash
  PROVE  VersionInv'
<1>. USE DEF TypeOK, apiVars, brokerVars, budgetVars, opsVars
<1>t. \A d \in CRs : /\ obj[d] \in Object /\ obj[d].gen \in Nat
                     /\ cache[d].gen \in Nat /\ copy[d].gen \in Nat
                     /\ status[d].gen \in Nat
  BY DEF Object, Status
<1>1. ASSUME NEW c \in CRs, UserOp(c)
      PROVE  VersionInv'
  <2>0. UNCHANGED <<cache, copy>> /\ \A d \in CRs \ {c} : obj'[d] = obj[d] /\ status'[d] = status[d]
    BY <1>1 DEF UserOp, Edit, Create, Delete, Annotate, UserStep
  <2>a. ASSUME obj'[c].gen = obj[c].gen + 1, status'[c] = status[c]
        PROVE  VersionInv'
    BY <2>0, <2>a, <1>t DEF VersionInv, Same
  <2>1. ASSUME NEW s \in Specs, Edit(c, s)
        PROVE  VersionInv'
    BY <2>1, <2>a, UpdateType, <1>t DEF Edit
  <2>2. ASSUME NEW s \in Specs, NEW ok \in BOOLEAN, Create(c, s, ok)
        PROVE  VersionInv'
    <3>1. NewObject(obj[c].gen + 1, s, ok).gen = obj[c].gen + 1
      BY <1>t, NewObjectType
    <3>. QED  BY <2>2, <2>a, <3>1 DEF Create
  <2>3. CASE Delete(c) /\ obj[c].finalizer
    BY <2>3, <2>a, UpdateType, SpecsAssumption, <1>t DEF Delete
  <2>4. CASE Delete(c) /\ ~obj[c].finalizer
    <3>1. ~NoObject(obj[c].gen).exists /\ NoObject(obj[c].gen).gen = obj[c].gen
      BY <1>t, NoObjectType
    <3>2. NotReady.gen = 0
      BY DEF NotReady
    <3>3. obj'[c] = NoObject(obj[c].gen) /\ status'[c] = NotReady
      BY <2>4 DEF Delete
    <3>. QED  BY <2>0, <3>1, <3>2, <3>3, <1>t DEF VersionInv, Same
  <2>5. CASE Annotate(c)
    <3>1. /\ obj'[c].exists = obj[c].exists /\ obj'[c].gen = obj[c].gen
          /\ obj'[c].spec = obj[c].spec /\ obj'[c].deleting = obj[c].deleting
          /\ status'[c] = status[c]
      <4>1. obj'[c] \in {AllowDelete(obj[c]), ForceRemoval(obj[c])} /\ status'[c] = status[c]
        BY <2>5 DEF Annotate
      <4>. QED  BY <4>1, UpdateType, SpecsAssumption, <1>t
    <3>. QED  BY <2>0, <3>1 DEF VersionInv, Same
  <2>. QED  BY <1>1, <2>1, <2>2, <2>3, <2>4, <2>5 DEF UserOp
<1>2. ASSUME NEW c \in CRs, CacheSync(c)
      PROVE  VersionInv'
  BY <1>2, <1>t DEF CacheSync, VersionInv, Same
<1>3. CASE mapClusterToPolicies \/ \E a \in ACL : Tamper(a)
  BY <1>3 DEF mapClusterToPolicies, UserStep, Tamper, VersionInv, Same
<1>4. CASE Crash
  <2>1. NoObject(0) \in Object /\ ~NoObject(0).exists /\ NoObject(0).gen = 0
    BY NoObjectType
  <2>. QED  BY <1>4, <2>1, <1>t DEF Crash, VersionInv, Same
<1>. QED  BY <1>1, <1>2, <1>3, <1>4

(* The program counter and the copy stay on one path.                      *)
LEMMA PathStep ==
  ASSUME TypeOK, PathInv, Next
  PROVE  PathInv'
<1>. USE DEF TypeOK, apiVars, brokerVars, budgetVars, opsVars, InSyncPCs, DeletionPCs
<1>n. ~NoObject(0).exists /\ NoObject(0).gen = 0
  BY NoObjectType
<1>r. ASSUME NEW c \in CRs, Return(c)
      PROVE  PathInv'
  BY <1>r, <1>n DEF Return, Goto, PathInv
<1>1. ASSUME NEW c \in CRs, ReconcileStep(c) \/ FaultStep(c)
      PROVE  PathInv'
  <2>1. CASE \/ UpdateFails(c) \/ UpdateStatus(c) \/ UpdateStatusFails(c)
             \/ RemoveFinalizer(c) \/ DeletionFails(c)
    BY <1>r, <2>1 DEF UpdateFails, UpdateStatus, UpdateStatusFails, RemoveFinalizer,
       DeletionFails, RequeueAfterReturn
  <2>2. CASE ReconcileGone(c) \/ Reconcile(c) \/ ReconcileUnreachable(c)
    BY <2>2 DEF ReconcileGone, Reconcile, ReconcileUnreachable, Begin, Goto, PathInv
  <2>3. CASE AddFinalizer(c)
    <3>1. copy[c] \in Object /\ obj[c] \in Object
      OBVIOUS
    <3>2. copy'[c].exists = copy[c].exists /\ copy'[c].deleting = copy[c].deleting
      BY <2>3, <3>1, UpdateType, SpecsAssumption DEF AddFinalizer
    <3>. QED  BY <2>3, <3>2 DEF AddFinalizer, Goto, PathInv
  <2>4. CASE Lock(c) \/ BuildView(c) \/ ListEnforce(c) \/ ListReport(c) \/ ReadFails(c)
    BY <2>4 DEF Lock, BuildView, ListEnforce, ListReport, ReadFails, Goto, PathInv
  <2>5. ASSUME NEW a \in ACL, ApplyCreate(c, a) \/ ApplyDelete(c, a) \/ ApplyFails(c, a)
        PROVE  PathInv'
    BY <2>5 DEF ApplyCreate, ApplyDelete, ApplyFails, PathInv
  <2>6. CASE ApplyDone(c) \/ ShieldDeletion(c) \/ DeleteACLs(c)
    BY <2>6 DEF ApplyDone, ShieldDeletion, DeleteACLs, Goto, PathInv
  <2>. QED  BY <1>1, <2>1, <2>2, <2>3, <2>4, <2>5, <2>6 DEF ReconcileStep, FaultStep
<1>2. ASSUME NEW c \in CRs, UserOp(c) \/ CacheSync(c)
      PROVE  PathInv'
  BY <1>2 DEF UserOp, Edit, Create, Delete, Annotate, UserStep, CacheSync, PathInv
<1>3. CASE mapClusterToPolicies \/ \E a \in ACL : Tamper(a)
  BY <1>3 DEF mapClusterToPolicies, UserStep, Tamper, PathInv
<1>4. CASE Crash
  BY <1>4, <1>n DEF Crash, PathInv
<1>. QED  BY <1>1, <1>2, <1>3, <1>4 DEF Next

(* Only the reconcile of a terminating object takes the finalizer away.    *)
LEMMA FinalizerStep ==
  ASSUME TypeOK, VersionInv, PathInv, FinalizerInv, Next
  PROVE  FinalizerInv'
<1>. USE DEF TypeOK, apiVars, brokerVars, budgetVars, opsVars, DeletionPCs
<1>t. \A d \in CRs : obj[d] \in Object /\ obj[d].gen \in Nat
  BY DEF Object
<1>r. ASSUME NEW c \in CRs, UNCHANGED <<obj, cache>>, Goto(c, "idle")
      PROVE  FinalizerInv'
  BY <1>r DEF Goto, FinalizerInv, Held
<1>1. ASSUME NEW c \in CRs, ReconcileStep(c) \/ FaultStep(c)
      PROVE  FinalizerInv'
  <2>1. CASE UpdateFails(c) \/ UpdateStatus(c) \/ UpdateStatusFails(c) \/ DeletionFails(c)
    BY <1>r, <2>1 DEF UpdateFails, UpdateStatus, UpdateStatusFails, DeletionFails,
       RequeueAfterReturn, Return
  <2>2. CASE ReconcileGone(c) \/ Reconcile(c) \/ ReconcileUnreachable(c)
    BY <2>2 DEF ReconcileGone, Reconcile, ReconcileUnreachable, Begin, Goto, FinalizerInv, Held
  <2>3. CASE AddFinalizer(c)
    <3>1. /\ obj'[c].exists /\ ~obj'[c].deleting /\ obj'[c].finalizer
          /\ obj[c].exists /\ ~obj[c].deleting /\ obj[c] = copy[c]
      BY <2>3, <1>t, UpdateType, SpecsAssumption DEF AddFinalizer, PathInv, InSyncPCs
    <3>2. ~(cache[c].exists /\ cache[c].deleting)
      <4>1. cache[c].gen \in Nat /\ copy[c].gen \in Nat /\ obj[c].gen \in Nat
        BY DEF Object
      <4>2. cache[c].gen <= obj[c].gen /\ copy[c].gen <= cache[c].gen
        BY DEF VersionInv
      <4>3. copy[c].gen = obj[c].gen
        BY <3>1, Zenon
      <4>4. cache[c].gen = obj[c].gen
        BY <4>1, <4>2, <4>3
      <4>5. cache[c].exists => cache[c].deleting = obj[c].deleting
        BY <3>1, <4>4 DEF VersionInv, Same
      <4>. QED  BY <3>1, <4>5
    <3>3. /\ \A d \in CRs \ {c} : obj'[d] = obj[d] /\ pc'[d] = pc[d]
          /\ pc'[c] = "lock" /\ UNCHANGED cache
      BY <2>3 DEF AddFinalizer, Goto
    <3>. QED  BY <3>1, <3>2, <3>3 DEF FinalizerInv, Held
  <2>4. CASE Lock(c) \/ BuildView(c) \/ ListEnforce(c) \/ ListReport(c) \/ ReadFails(c)
    BY <2>4 DEF Lock, BuildView, ListEnforce, ListReport, ReadFails, Goto, FinalizerInv, Held
  <2>5. ASSUME NEW a \in ACL, ApplyCreate(c, a) \/ ApplyDelete(c, a) \/ ApplyFails(c, a)
        PROVE  FinalizerInv'
    BY <2>5 DEF ApplyCreate, ApplyDelete, ApplyFails, FinalizerInv, Held
  <2>6. CASE ApplyDone(c) \/ ShieldDeletion(c) \/ DeleteACLs(c)
    BY <2>6 DEF ApplyDone, ShieldDeletion, DeleteACLs, Goto, FinalizerInv, Held
  <2>7. CASE RemoveFinalizer(c)
    <3>1. ~NoObject(obj[c].gen).exists
      BY <1>t, NoObjectType
    <3>. QED  BY <2>7, <3>1 DEF RemoveFinalizer, Return, Goto, FinalizerInv, Held
  <2>. QED  BY <1>1, <2>1, <2>2, <2>3, <2>4, <2>5, <2>6, <2>7 DEF ReconcileStep, FaultStep
<1>2. ASSUME NEW c \in CRs, UserOp(c)
      PROVE  FinalizerInv'
  <2>0. /\ UNCHANGED <<cache, pc>>
        /\ \A d \in CRs \ {c} : obj'[d] = obj[d]
    BY <1>2 DEF UserOp, Edit, Create, Delete, Annotate, UserStep
  <2>a. ASSUME obj'[c].exists = obj[c].exists, obj'[c].finalizer = obj[c].finalizer,
               obj[c].deleting => obj'[c].deleting
        PROVE  FinalizerInv'
    BY <2>0, <2>a DEF FinalizerInv, Held
  <2>1. ASSUME NEW s \in Specs, Edit(c, s)
        PROVE  FinalizerInv'
    BY <2>1, <2>a, UpdateType, <1>t DEF Edit
  <2>2. ASSUME NEW s \in Specs, NEW ok \in BOOLEAN, Create(c, s, ok)
        PROVE  FinalizerInv'
    <3>1. ~NewObject(obj[c].gen + 1, s, ok).finalizer
      BY <1>t, NewObjectType
    <3>. QED  BY <2>0, <2>2, <3>1 DEF Create, FinalizerInv, Held
  <2>3. CASE Delete(c) /\ obj[c].finalizer
    <3>1. obj'[c] = Terminating(obj[c])
      BY <2>3 DEF Delete
    <3>2. obj'[c].exists = obj[c].exists /\ obj'[c].finalizer = obj[c].finalizer /\ obj'[c].deleting
      BY <3>1, UpdateType, SpecsAssumption, <1>t
    <3>. QED  BY <2>a, <3>2
  <2>4. CASE Delete(c) /\ ~obj[c].finalizer
    <3>1. ~NoObject(obj[c].gen).exists
      BY <1>t, NoObjectType
    <3>2. obj'[c] = NoObject(obj[c].gen)
      BY <2>4 DEF Delete
    <3>. QED  BY <2>0, <2>4, <3>1, <3>2 DEF FinalizerInv, Held
  <2>5. CASE Annotate(c)
    <3>1. obj'[c] \in {AllowDelete(obj[c]), ForceRemoval(obj[c])}
      BY <2>5 DEF Annotate
    <3>. QED  BY <2>a, <3>1, UpdateType, SpecsAssumption, <1>t
  <2>. QED  BY <1>2, <2>1, <2>2, <2>3, <2>4, <2>5 DEF UserOp
<1>3. ASSUME NEW c \in CRs, CacheSync(c)
      PROVE  FinalizerInv'
  BY <1>3 DEF CacheSync, FinalizerInv, Held
<1>4. CASE mapClusterToPolicies \/ \E a \in ACL : Tamper(a)
  BY <1>4 DEF mapClusterToPolicies, UserStep, Tamper, FinalizerInv, Held
<1>5. CASE Crash
  BY <1>5 DEF Crash, FinalizerInv, Held
<1>. QED  BY <1>1, <1>2, <1>3, <1>4, <1>5 DEF Next

(* BaseInv is an invariant.                                                *)
LEMMA BaseInvariant == Spec => []BaseInv
<1>1. Init => BaseInv
  <2>. SUFFICES ASSUME Init PROVE BaseInv
    OBVIOUS
  <2>0. TypeOK
    BY InitType
  <2>1. LockInv
    BY NoCRAssumption DEF Init, LockInv, SpanPCs
  <2>2. /\ ~NoObject(0).exists /\ NoObject(0).gen = 0
        /\ NotReady.gen = 0
    BY NoObjectType DEF NotReady
  <2>3. \A c \in CRs : obj[c] \in Object /\ obj[c].gen \in Nat /\ ~Held(obj[c]) /\ ~obj[c].deleting
    <3>1. \A s \in Specs, ok \in BOOLEAN :
             ~NewObject(1, s, ok).finalizer /\ ~NewObject(1, s, ok).deleting
      BY NewObjectType
    <3>2. ~NoObject(0).deleting
      BY DEF NoObject, NewObject
    <3>3. \A c \in CRs : \/ obj[c] = NoObject(0)
                         \/ \E s \in Specs, ok \in BOOLEAN : obj[c] = NewObject(1, s, ok)
      BY DEF Init
    <3>4. \A c \in CRs : ~Held(obj[c]) /\ ~obj[c].deleting
      BY <2>2, <3>1, <3>2, <3>3 DEF Held
    <3>. QED  BY <2>0, <3>4 DEF TypeOK, Object
  <2>4. VersionInv
    BY <2>2, <2>3 DEF Init, VersionInv, Same
  <2>5. PathInv
    BY <2>2 DEF Init, PathInv, InSyncPCs, DeletionPCs
  <2>6. FinalizerInv
    BY <2>3 DEF Init, FinalizerInv, DeletionPCs
  <2>. QED  BY <2>0, <2>1, <2>4, <2>5, <2>6 DEF BaseInv
<1>2. BaseInv /\ [Next]_vars => BaseInv'
  <2>. SUFFICES ASSUME BaseInv, [Next]_vars PROVE BaseInv'
    OBVIOUS
  <2>1. CASE Next
    <3>1. TypeOK'
      BY <2>1, ReconcileStepType, FaultStepType, EnvironmentType DEF Next, BaseInv
    <3>2. VersionInv'
      BY <2>1, VersionReconcile, VersionEnvironment DEF Next, BaseInv
    <3>. QED  BY <2>1, <3>1, <3>2, LockStep, PathStep, FinalizerStep DEF BaseInv
  <2>2. CASE UNCHANGED vars
    BY <2>2 DEF vars, BaseInv, TypeOK, LockInv, VersionInv, Same, PathInv, FinalizerInv, Held
  <2>. QED  BY <2>1, <2>2
<1>. QED  BY <1>1, <1>2, PTL DEF Spec

(* The finalizer discipline: whenever a reconcile may grant, the API       *)
(* server's object exists and carries the finalizer, whatever the cache    *)
(* showed, users did or calls failed in between.                           *)
THEOREM GranterHasFinalizer == Spec => []GranterIsFinalized
<1>1. BaseInv => GranterIsFinalized
  BY DEF BaseInv, FinalizerInv, GranterIsFinalized
<1>. QED  BY <1>1, BaseInvariant, PTL

-----------------------------------------------------------------------------
(* What the view covers.                                                   *)

(* A cache at the object's generation holds the object's spec.             *)
LEMMA CurrentCache ==
  ASSUME BaseInv, NEW c \in CRs, obj[c].exists, ~obj[c].deleting,
         cache[c].gen = obj[c].gen
  PROVE  cache[c].exists /\ ~cache[c].deleting /\ cache[c].spec = obj[c].spec
BY DEF BaseInv, VersionInv, Same

(* Whoever claims its spec is current in the cache.                        *)
LEMMA ClaimIsCurrent ==
  ASSUME BaseInv, NEW c \in CRs,
         \/ status[c].gen = obj[c].gen
         \/ copy[c].gen = obj[c].gen
  PROVE  cache[c].gen = obj[c].gen
<1>1. /\ copy[c].gen \in Nat /\ cache[c].gen \in Nat /\ obj[c].gen \in Nat
      /\ status[c].gen \in Nat
  BY DEF BaseInv, TypeOK, Object, Status
<1>2. /\ copy[c].gen <= cache[c].gen /\ cache[c].gen <= obj[c].gen
      /\ status[c].gen <= cache[c].gen
  BY DEF BaseInv, VersionInv
<1>. QED  BY <1>1, <1>2

(* Without conflicts the view drops nothing of a CR the cache knows, and   *)
(* its veto reaches the scope of each of its tuples.                       *)
LEMMA ViewCovers ==
  ASSUME ConflictFree, BaseInv, NEW c \in CRs, obj[c].exists, ~obj[c].deleting,
         cache[c].gen = obj[c].gen
  PROVE  /\ obj[c].spec.acls \subseteq buildClusterACLView.desired
         /\ ~obj[c].spec.prune =>
              \A b \in obj[c].spec.acls : scopeKeyOf(b) \notin buildClusterACLView.consented
<1>1. cache[c].exists /\ ~cache[c].deleting /\ cache[c].spec = obj[c].spec
  BY CurrentCache
<1>2. \A d \in CRs : cache[d].spec \in Specs
  BY DEF BaseInv, TypeOK, Object
<1>3. \A a \in obj[c].spec.acls : [acl |-> a, prune |-> obj[c].spec.prune] \in Contributions
  BY <1>1 DEF Contributions, CompilePolicy
<1>4. \A i \in Contributions : \E s \in Specs : i.acl \in s.acls
  BY <1>2 DEF Contributions, CompilePolicy
<1>5. \A a \in Tuples(Contributions) : Opposite(a) \notin Tuples(Contributions)
  BY <1>4 DEF Tuples, ConflictFree
<1>6. Contested(Contributions) = {}
  BY <1>5 DEF Contested
<1>7. \A a : ~Dropped(Contributions, a)
  BY <1>6 DEF Dropped
<1>8. ASSUME NEW a \in obj[c].spec.acls
      PROVE  a \in Tuples(Contributions)
  <2>. DEFINE i == [acl |-> a, prune |-> obj[c].spec.prune]
  <2>1. i \in Contributions /\ i.acl = a
    BY <1>3
  <2>. HIDE DEF i
  <2>. QED  BY <2>1 DEF Tuples
<1>9. obj[c].spec.acls \subseteq DesiredUnion(Contributions)
  BY <1>7, <1>8 DEF DesiredUnion
<1>10. ASSUME ~obj[c].spec.prune, NEW b \in obj[c].spec.acls
       PROVE  scopeKeyOf(b) \notin ConsentedScope(Contributions)
  <2>. DEFINE i == [acl |-> b, prune |-> obj[c].spec.prune]
  <2>1. i \in Contributions /\ i.acl = b /\ ~i.prune
    BY <1>3, <1>10
  <2>. HIDE DEF i
  <2>. QED  BY <1>7, <2>1 DEF ConsentedScope
<1>. QED  BY <1>9, <1>10 DEF buildClusterACLView

-----------------------------------------------------------------------------
(* Steps seen from the lock holder and from a claimant.                    *)

(* How a reconcile gets its view and its deletions.                        *)
HolderMoves(d) ==
  /\ pc'[d] = "list" => BuildView(d) \/ (pc[d] = "list" /\ view'[d] = view[d])
  /\ pc'[d] = "apply" => ListEnforce(d) \/ (pc[d] = "apply" /\ deletes'[d] \subseteq deletes[d])
  /\ pc'[d] = "deleteACLs" =>
       ShieldDeletion(d) \/ (pc[d] = "deleteACLs" /\ deletes'[d] = deletes[d])

(* There is no other way.                                                  *)
LEMMA HolderStep ==
  ASSUME BaseInv, Next, NEW d \in CRs
  PROVE  HolderMoves(d)
<1>. USE DEF BaseInv, TypeOK, Goto, Return, RequeueAfterReturn, apiVars, brokerVars,
     budgetVars, opsVars, HolderMoves
<1>1. ASSUME NEW c \in CRs, ReconcileStep(c)
      PROVE  HolderMoves(d)
  <2>1. CASE ReconcileGone(c) \/ Reconcile(c) \/ AddFinalizer(c) \/ UpdateFails(c)
    BY <2>1 DEF ReconcileGone, Reconcile, Begin, AddFinalizer, UpdateFails
  <2>2. CASE Lock(c) \/ ListReport(c)
    BY <2>2 DEF Lock, ListReport
  <2>3. CASE BuildView(c)
    BY <2>3 DEF BuildView
  <2>4. CASE ListEnforce(c)
    BY <2>4 DEF ListEnforce
  <2>5. ASSUME NEW a \in ACL, ApplyCreate(c, a) \/ ApplyDelete(c, a)
        PROVE  HolderMoves(d)
    BY <2>5 DEF ApplyCreate, ApplyDelete
  <2>6. CASE ApplyDone(c) \/ UpdateStatus(c) \/ UpdateStatusFails(c)
    BY <2>6 DEF ApplyDone, UpdateStatus, UpdateStatusFails
  <2>7. CASE ShieldDeletion(c)
    BY <2>7 DEF ShieldDeletion
  <2>8. CASE DeleteACLs(c) \/ RemoveFinalizer(c)
    BY <2>8 DEF DeleteACLs, RemoveFinalizer
  <2>. QED  BY <1>1, <2>1, <2>2, <2>3, <2>4, <2>5, <2>6, <2>7, <2>8 DEF ReconcileStep
<1>2. ASSUME NEW c \in CRs, FaultStep(c)
      PROVE  HolderMoves(d)
  <2>1. CASE ReconcileUnreachable(c) \/ ReadFails(c) \/ DeletionFails(c)
    BY <2>1 DEF ReconcileUnreachable, Begin, ReadFails, DeletionFails
  <2>2. ASSUME NEW a \in ACL, ApplyFails(c, a)
        PROVE  HolderMoves(d)
    BY <2>2 DEF ApplyFails
  <2>. QED  BY <1>2, <2>1, <2>2 DEF FaultStep
<1>3. ASSUME NEW c \in CRs, UserOp(c) \/ CacheSync(c)
      PROVE  HolderMoves(d)
  BY <1>3 DEF UserOp, Edit, Create, Delete, Annotate, UserStep, CacheSync
<1>4. CASE mapClusterToPolicies \/ Crash \/ \E a \in ACL : Tamper(a)
  BY <1>4 DEF mapClusterToPolicies, UserStep, Crash, Tamper
<1>. QED  BY <1>1, <1>2, <1>3, <1>4 DEF Next

(* A claim is staked by building a view, kept, or lost, never gained       *)
(* otherwise; and a claimant's spec does not change under it.              *)
ClaimKept(c) ==
  /\ obj[c].exists /\ ~obj[c].deleting
  /\ obj'[c].spec = obj[c].spec
  /\ obj'[c].gen = obj[c].gen
  /\ Claims(c) \/ (BuildView(c) /\ copy[c].gen = obj[c].gen)

(* While the object stands still.                                          *)
LEMMA ClaimReconcile ==
  ASSUME BaseInv, NEW c \in CRs, NEW d \in CRs, ReconcileStep(d) \/ FaultStep(d), Claims(c)'
  PROVE  ClaimKept(c)
<1>. USE DEF BaseInv, TypeOK, Goto, Return, RequeueAfterReturn, apiVars, brokerVars,
     budgetVars, opsVars
<1>u. ASSUME UNCHANGED <<obj, status>>, pc'[c] = pc[c], copy'[c] = copy[c], result'[c] = result[c]
      PROVE  ClaimKept(c)
  BY <1>u DEF Claims, ClaimKept
<1>r. ASSUME UNCHANGED <<obj, status>>, pc'[c] \notin {"list", "apply", "status"}
      PROVE  ClaimKept(c)
  BY <1>r DEF Claims, ClaimKept
<1>1. CASE ReconcileGone(d) \/ Reconcile(d) \/ UpdateFails(d) \/ Lock(d) \/ UpdateStatusFails(d)
           \/ ShieldDeletion(d) \/ DeleteACLs(d) \/ DeletionFails(d)
  BY <1>1, <1>u, <1>r DEF ReconcileGone, Reconcile, Begin, UpdateFails, Lock,
     UpdateStatusFails, ShieldDeletion, DeleteACLs, DeletionFails
<1>2. CASE ReconcileUnreachable(d) \/ ReadFails(d) \/ ListReport(d) \/ ApplyDone(d)
  <2>1. CASE d = c
    BY <1>2, <2>1 DEF ReconcileUnreachable, Begin, ReadFails, ListReport, ApplyDone,
       Claims, ClaimKept
  <2>2. CASE d # c
    BY <1>2, <2>2, <1>u DEF ReconcileUnreachable, Begin, ReadFails, ListReport, ApplyDone
  <2>. QED  BY <2>1, <2>2
<1>3. CASE BuildView(d)
  <2>1. CASE d = c
    BY <1>3, <2>1 DEF BuildView, Claims, ClaimKept
  <2>2. CASE d # c
    BY <1>3, <2>2, <1>u DEF BuildView
  <2>. QED  BY <2>1, <2>2
<1>4. CASE ListEnforce(d)
  <2>1. CASE d = c
    BY <1>4, <2>1 DEF ListEnforce, Claims, ClaimKept
  <2>2. CASE d # c
    BY <1>4, <2>2, <1>u DEF ListEnforce
  <2>. QED  BY <2>1, <2>2
<1>5. ASSUME NEW a \in ACL, ApplyCreate(d, a) \/ ApplyDelete(d, a) \/ ApplyFails(d, a)
      PROVE  ClaimKept(c)
  <2>1. UNCHANGED <<obj, status, pc, copy>>
    BY <1>5 DEF ApplyCreate, ApplyDelete, ApplyFails
  <2>2. result'[c] => result[c]
    BY <1>5 DEF ApplyCreate, ApplyDelete, ApplyFails
  <2>. QED  BY <2>1, <2>2 DEF Claims, ClaimKept
<1>6. CASE UpdateStatus(d)
  <2>1. UNCHANGED obj
    BY <1>6 DEF UpdateStatus
  <2>2. CASE d = c
    <3>1. /\ status'[c].ready = result[c] /\ status'[c].gen = copy[c].gen
          /\ pc[c] = "status" /\ pc'[c] = "idle"
      BY <1>6, <2>2 DEF UpdateStatus
    <3>. QED  BY <2>1, <3>1 DEF Claims, ClaimKept
  <2>3. CASE d # c
    <3>1. status'[c] = status[c] /\ pc'[c] = pc[c] /\ copy'[c] = copy[c] /\ result'[c] = result[c]
      BY <1>6, <2>3 DEF UpdateStatus
    <3>. QED  BY <2>1, <3>1 DEF Claims, ClaimKept
  <2>. QED  BY <2>2, <2>3
<1>7. CASE AddFinalizer(d)
  <2>1. CASE d = c
    <3>1. /\ obj'[c].exists = obj[c].exists /\ obj'[c].gen = obj[c].gen
          /\ obj'[c].spec = obj[c].spec /\ obj'[c].deleting = obj[c].deleting
      BY <1>7, <2>1, UpdateType, SpecsAssumption DEF AddFinalizer
    <3>2. pc'[c] = "lock" /\ UNCHANGED status
      BY <1>7, <2>1 DEF AddFinalizer
    <3>. QED  BY <3>1, <3>2 DEF Claims, ClaimKept
  <2>2. CASE d # c
    <3>1. /\ obj'[c] = obj[c] /\ status' = status /\ pc'[c] = pc[c] /\ copy'[c] = copy[c]
          /\ result'[c] = result[c]
      BY <1>7, <2>2 DEF AddFinalizer
    <3>. QED  BY <3>1 DEF Claims, ClaimKept
  <2>. QED  BY <2>1, <2>2
<1>8. CASE RemoveFinalizer(d)
  <2>1. CASE d = c
    <3>1. obj[c].gen \in Nat
      BY DEF Object
    <3>2. ~NoObject(obj[c].gen).exists
      BY <3>1, NoObjectType
    <3>. QED  BY <1>8, <2>1, <3>2 DEF RemoveFinalizer, Claims
  <2>2. CASE d # c
    <3>1. /\ obj'[c] = obj[c] /\ status'[c] = status[c] /\ pc'[c] = pc[c] /\ copy'[c] = copy[c]
          /\ result'[c] = result[c]
      BY <1>8, <2>2 DEF RemoveFinalizer
    <3>. QED  BY <3>1 DEF Claims, ClaimKept
  <2>. QED  BY <2>1, <2>2
<1>. QED  BY <1>1, <1>2, <1>3, <1>4, <1>5, <1>6, <1>7, <1>8 DEF ReconcileStep, FaultStep

(* Users take claims away, the informer and restarts leave them.           *)
LEMMA ClaimEnvironment ==
  ASSUME BaseInv, NEW c \in CRs, Claims(c)',
         \/ \E d \in CRs : UserOp(d) \/ CacheSync(d)
         \/ mapClusterToPolicies
         \/ \E a \in ACL : Tamper(a)
         \/ Crash
  PROVE  ClaimKept(c)
<1>. USE DEF BaseInv, TypeOK, apiVars, brokerVars, budgetVars, opsVars
<1>t. /\ obj[c] \in Object /\ obj[c].gen \in Nat /\ cache[c].gen \in Nat
      /\ copy[c].gen \in Nat /\ status[c].gen \in Nat
      /\ copy[c].gen <= obj[c].gen /\ status[c].gen <= obj[c].gen
  <2>1. /\ obj[c].gen \in Nat /\ cache[c].gen \in Nat
        /\ copy[c].gen \in Nat /\ status[c].gen \in Nat
    BY DEF Object, Status
  <2>2. copy[c].gen <= cache[c].gen /\ cache[c].gen <= obj[c].gen /\ status[c].gen <= cache[c].gen
    BY DEF VersionInv
  <2>. QED  BY <2>1, <2>2
<1>u. ASSUME obj'[c].exists = obj[c].exists, obj'[c].deleting = obj[c].deleting,
             obj'[c].gen = obj[c].gen, obj'[c].spec = obj[c].spec, status'[c] = status[c],
             pc'[c] = pc[c], copy'[c] = copy[c], result'[c] = result[c]
      PROVE  ClaimKept(c)
  BY <1>u DEF Claims, ClaimKept
<1>1. ASSUME NEW d \in CRs, UserOp(d)
      PROVE  ClaimKept(c)
  <2>0. UNCHANGED <<pc, copy, result>>
    BY <1>1 DEF UserOp, Edit, Create, Delete, Annotate, UserStep
  <2>1. CASE d # c
    <3>1. obj'[c] = obj[c] /\ status'[c] = status[c]
      BY <1>1, <2>1 DEF UserOp, Edit, Create, Delete, Annotate
    <3>. QED  BY <2>0, <3>1, <1>u
  <2>a. ASSUME obj'[c].gen = obj[c].gen + 1, status'[c] = status[c]
        PROVE  FALSE
    BY <2>0, <2>a, <1>t DEF Claims
  <2>2. ASSUME d = c, NEW s \in Specs, Edit(d, s)
        PROVE  FALSE
    BY <2>2, <2>a, UpdateType, <1>t DEF Edit
  <2>3. ASSUME d = c, NEW s \in Specs, NEW ok \in BOOLEAN, Create(d, s, ok)
        PROVE  FALSE
    <3>1. NewObject(obj[c].gen + 1, s, ok).gen = obj[c].gen + 1
      BY <1>t, NewObjectType
    <3>. QED  BY <2>3, <2>a, <3>1 DEF Create
  <2>4. ASSUME d = c, Delete(d)
        PROVE  FALSE
    <3>1. obj'[c] \in {Terminating(obj[c]), NoObject(obj[c].gen)}
      BY <2>4 DEF Delete
    <3>2. Terminating(obj[c]).deleting /\ ~NoObject(obj[c].gen).exists
      BY <1>t, UpdateType, NoObjectType, SpecsAssumption
    <3>. QED  BY <3>1, <3>2 DEF Claims
  <2>5. ASSUME d = c, Annotate(d)
        PROVE  ClaimKept(c)
    <3>1. obj'[c] \in {AllowDelete(obj[c]), ForceRemoval(obj[c])} /\ status'[c] = status[c]
      BY <2>5 DEF Annotate
    <3>2. /\ obj'[c].exists = obj[c].exists /\ obj'[c].gen = obj[c].gen
          /\ obj'[c].spec = obj[c].spec /\ obj'[c].deleting = obj[c].deleting
      BY <3>1, UpdateType, SpecsAssumption, <1>t
    <3>. QED  BY <2>0, <3>1, <3>2, <1>u
  <2>. QED  BY <1>1, <2>1, <2>2, <2>3, <2>4, <2>5 DEF UserOp
<1>2. CASE (\E d \in CRs : CacheSync(d)) \/ mapClusterToPolicies \/ \E a \in ACL : Tamper(a)
  BY <1>2, <1>u DEF CacheSync, mapClusterToPolicies, UserStep, Tamper
<1>3. CASE Crash
  BY <1>3 DEF Crash, Claims, ClaimKept
<1>. QED  BY <1>1, <1>2, <1>3

(* Every step keeps the claims.                                            *)
LEMMA ClaimStep ==
  ASSUME BaseInv, Next, NEW c \in CRs, Claims(c)'
  PROVE  ClaimKept(c)
BY ClaimReconcile, ClaimEnvironment DEF Next

(* What the holder goes by covers every claimant, before and after.        *)
LEMMA ViewStep ==
  ASSUME ConflictFree, BaseInv, ViewInv, Next
  PROVE  ViewInv'
<1>. SUFFICES ASSUME NEW c \in CRs, NEW d \in CRs, Claims(c)'
              PROVE  /\ pc'[d] = "list" => obj'[c].spec.acls \subseteq view'[d].desired
                     /\ pc'[d] = "list" /\ ~obj'[c].spec.prune =>
                          \A b \in obj'[c].spec.acls : scopeKeyOf(b) \notin view'[d].consented
                     /\ pc'[d] \in {"apply", "deleteACLs"} =>
                          obj'[c].spec.acls \cap deletes'[d] = {}
                     /\ pc'[d] = "apply" /\ ~obj'[c].spec.prune =>
                          \A a \in deletes'[d] : ~Covers(obj'[c].spec, a)
  BY DEF ViewInv
<1>1. ClaimKept(c)
  BY ClaimStep
<1>2. HolderMoves(d)
  BY HolderStep
<1>3. cache[c].gen = obj[c].gen
  BY <1>1, ClaimIsCurrent DEF ClaimKept, Claims
<1>4. /\ obj[c].spec.acls \subseteq buildClusterACLView.desired
      /\ ~obj[c].spec.prune =>
           \A b \in obj[c].spec.acls : scopeKeyOf(b) \notin buildClusterACLView.consented
  BY <1>1, <1>3, ViewCovers DEF ClaimKept
<1>5. ASSUME pc[d] \in SpanPCs, pc'[d] \in SpanPCs, ~BuildView(d)
      PROVE  Claims(c)
  <2>1. CASE BuildView(c)
    <3>1. pc[c] \in SpanPCs
      BY <2>1 DEF BuildView, SpanPCs
    <3>2. c = d
      BY <1>5, <3>1 DEF BaseInv, LockInv
    <3>. QED  BY <1>5, <2>1, <3>2
  <2>. QED  BY <1>1, <2>1 DEF ClaimKept
<1>6. CASE BuildView(d)
  <2>1. view'[d] = buildClusterACLView /\ pc'[d] = "list"
    BY <1>6 DEF BuildView, BaseInv, TypeOK, Goto
  <2>. QED  BY <1>1, <1>4, <2>1 DEF ClaimKept
<1>7. CASE ListEnforce(d)
  <2>1. pc[d] = "list" /\ pc'[d] = "apply" /\ deletes'[d] = DeleteAclOps(d)
    BY <1>7 DEF ListEnforce, BaseInv, TypeOK, Goto
  <2>2. ~BuildView(d)
    BY <2>1 DEF BuildView
  <2>3. Claims(c)
    BY <1>5, <2>1, <2>2 DEF SpanPCs
  <2>4. /\ obj[c].spec.acls \subseteq view[d].desired
        /\ ~obj[c].spec.prune =>
             \A b \in obj[c].spec.acls : scopeKeyOf(b) \notin view[d].consented
    BY <2>1, <2>3 DEF ViewInv
  <2>5. obj[c].spec.acls \cap DeleteAclOps(d) = {}
    BY <2>4 DEF DeleteAclOps, PruneCandidates
  <2>6. ~obj[c].spec.prune => \A a \in DeleteAclOps(d) : ~Covers(obj[c].spec, a)
    BY <2>4 DEF DeleteAclOps, Covers
  <2>. QED  BY <1>1, <2>1, <2>5, <2>6 DEF ClaimKept
<1>8. CASE ShieldDeletion(d)
  <2>1. pc'[d] = "deleteACLs" /\ deletes'[d] = shieldACLDeletion(d)
    BY <1>8 DEF ShieldDeletion, BaseInv, TypeOK, Goto
  <2>. QED  BY <1>1, <1>4, <2>1 DEF ClaimKept, shieldACLDeletion
<1>9. CASE /\ ~BuildView(d) /\ ~ListEnforce(d) /\ ~ShieldDeletion(d)
           /\ pc'[d] \in {"list", "apply", "deleteACLs"}
  <2>1. /\ pc[d] = pc'[d]
        /\ pc[d] = "list" => view'[d] = view[d]
        /\ pc[d] # "list" => deletes'[d] \subseteq deletes[d]
    BY <1>2, <1>9 DEF HolderMoves
  <2>2. Claims(c)
    BY <1>5, <1>9, <2>1 DEF SpanPCs
  <2>. QED  BY <1>1, <1>9, <2>1, <2>2 DEF ViewInv, ClaimKept
<1>. QED  BY <1>6, <1>7, <1>8, <1>9

-----------------------------------------------------------------------------
(* Grants.                                                                 *)

(* The operator takes a tuple away only in an approved deletion of the     *)
(* lock holder; what others take away stays accounted for.                 *)
LEMMA AccountedStep ==
  ASSUME BaseInv, Next, NEW a, a \in Accounted, a \notin Accounted'
  PROVE  \E d \in CRs : pc[d] \in {"apply", "deleteACLs"} /\ a \in deletes[d]
<1>. USE DEF BaseInv, TypeOK, Accounted, apiVars, brokerVars, budgetVars, opsVars
<1>1. ASSUME NEW c \in CRs, ReconcileStep(c), ~DeleteACLs(c),
             ~\E b \in ACL : ApplyCreate(c, b) \/ ApplyDelete(c, b)
      PROVE  FALSE
  BY <1>1 DEF ReconcileStep, ReconcileGone, Reconcile, AddFinalizer, UpdateFails, Lock,
     BuildView, ListEnforce, ListReport, ApplyDone, UpdateStatus, UpdateStatusFails,
     ShieldDeletion, RemoveFinalizer
<1>2. ASSUME NEW c \in CRs, NEW b \in ACL, ApplyCreate(c, b)
      PROVE  FALSE
  BY <1>2 DEF ApplyCreate
<1>3. ASSUME NEW c \in CRs, NEW b \in ACL, ApplyDelete(c, b)
      PROVE  pc[c] = "apply" /\ a \in deletes[c]
  BY <1>3 DEF ApplyDelete
<1>4. ASSUME NEW c \in CRs, DeleteACLs(c)
      PROVE  pc[c] = "deleteACLs" /\ a \in deletes[c]
  BY <1>4 DEF DeleteACLs
<1>5. ASSUME NEW c \in CRs, ReconcileUnreachable(c) \/ ReadFails(c)
      PROVE  FALSE
  BY <1>5 DEF ReconcileUnreachable, ReadFails
<1>6. ASSUME NEW c \in CRs, DeletionFails(c)
      PROVE  pc[c] = "deleteACLs" /\ a \in deletes[c]
  BY <1>6 DEF DeletionFails
<1>7. ASSUME NEW c \in CRs, NEW b \in ACL, ApplyFails(c, b)
      PROVE  pc[c] = "apply" /\ a \in deletes[c]
  BY <1>7 DEF ApplyFails
<1>8. ASSUME NEW c \in CRs, UserOp(c) \/ CacheSync(c)
      PROVE  FALSE
  BY <1>8 DEF UserOp, Edit, Create, Delete, Annotate, UserStep, CacheSync
<1>9. ASSUME mapClusterToPolicies \/ Crash \/ \E b \in ACL : Tamper(b)
      PROVE  FALSE
  BY <1>9 DEF mapClusterToPolicies, UserStep, Crash, Tamper
<1>. QED
  BY <1>1, <1>2, <1>3, <1>4, <1>5, <1>6, <1>7, <1>8, <1>9 DEF Next, FaultStep

(* So no step takes a tuple from a claimant.                               *)
LEMMA ClaimantKeepsTuples ==
  ASSUME BaseInv, ViewInv, Next, NEW c \in CRs, Claims(c)
  PROVE  obj[c].spec.acls \cap Accounted \subseteq Accounted'
BY AccountedStep DEF ViewInv

(* How a reconcile comes to report Ready: from operations it has computed  *)
(* itself, one after another.                                              *)
ReportMoves(c) ==
  /\ status'[c] = status[c]
       \/ status'[c] = NotReady
       \/ (/\ pc[c] = "status" /\ copy[c].exists
           /\ status'[c] = [ready |-> result[c], gen |-> copy[c].gen])
  /\ pc'[c] = "status" /\ result'[c] =>
       /\ copy'[c] = copy[c]
       /\ \/ pc[c] = "status" /\ result[c]
          \/ pc[c] = "list" /\ (copy[c].spec.mode # "ObserveOnly" => copy[c].spec.acls \subseteq acls)
          \/ pc[c] = "apply" /\ result[c] /\ creates[c] = {}
  /\ pc'[c] = "apply" /\ result'[c] =>
       /\ copy'[c] = copy[c]
       /\ \/ pc[c] = "list" /\ copy[c].spec.acls \subseteq acls \cup creates'[c]
          \/ pc[c] = "apply" /\ result[c] /\ creates[c] \subseteq creates'[c] \cup acls'

(* There is no other way.                                                  *)
LEMMA ReportStep ==
  ASSUME BaseInv, Next, NEW c \in CRs
  PROVE  ReportMoves(c)
<1>. USE DEF BaseInv, TypeOK, Goto, Return, RequeueAfterReturn, apiVars, brokerVars,
     budgetVars, opsVars
<1>u. ASSUME status'[c] = status[c], pc'[c] = pc[c], copy'[c] = copy[c],
             result'[c] = result[c], creates'[c] = creates[c]
      PROVE  ReportMoves(c)
  BY <1>u DEF ReportMoves
<1>r. ASSUME status'[c] \in {status[c], NotReady},
             pc'[c] \in {"status", "apply"} => pc'[c] = "status" /\ ~result'[c]
      PROVE  ReportMoves(c)
  BY <1>r DEF ReportMoves
<1>1. ASSUME NEW d \in CRs, d # c, ReconcileStep(d) \/ FaultStep(d)
      PROVE  ReportMoves(c)
  BY <1>1, <1>u DEF ReconcileStep, FaultStep, ReconcileGone, Reconcile, AddFinalizer,
     UpdateFails, Lock, BuildView, ListEnforce, ListReport, ApplyDone, UpdateStatus,
     UpdateStatusFails, ShieldDeletion, DeleteACLs, RemoveFinalizer, ApplyCreate, ApplyDelete,
     ReconcileUnreachable, ReadFails, DeletionFails, ApplyFails, Begin
<1>2. CASE \/ ReconcileGone(c) \/ Reconcile(c) \/ AddFinalizer(c) \/ UpdateFails(c)
           \/ Lock(c) \/ BuildView(c) \/ UpdateStatusFails(c) \/ ShieldDeletion(c)
           \/ DeleteACLs(c) \/ RemoveFinalizer(c) \/ ReconcileUnreachable(c)
           \/ ReadFails(c) \/ DeletionFails(c)
  BY <1>2, <1>u, <1>r DEF ReconcileGone, Reconcile, AddFinalizer, UpdateFails, Lock, BuildView,
     UpdateStatusFails, ShieldDeletion, DeleteACLs, RemoveFinalizer, ReconcileUnreachable,
     ReadFails, DeletionFails, Begin
<1>3. CASE ListEnforce(c)
  BY <1>3 DEF ListEnforce, CreateAclOps, ReportMoves
<1>4. CASE ListReport(c)
  BY <1>4 DEF ListReport, CreateAclOps, ReportMoves
<1>5. CASE ApplyDone(c)
  BY <1>5 DEF ApplyDone, ReportMoves
<1>6. ASSUME NEW a \in ACL, ApplyCreate(c, a) \/ ApplyDelete(c, a)
      PROVE  ReportMoves(c)
  BY <1>6 DEF ApplyCreate, ApplyDelete, ReportMoves
<1>7. ASSUME NEW a \in ACL, ApplyFails(c, a)
      PROVE  ReportMoves(c)
  BY <1>7 DEF ApplyFails, ReportMoves
<1>8. CASE UpdateStatus(c)
  <2>1. /\ pc[c] = "status" /\ pc'[c] = "idle"
        /\ status'[c] = [ready |-> result[c], gen |-> copy[c].gen]
    BY <1>8 DEF UpdateStatus
  <2>2. copy[c].exists
    BY <2>1 DEF PathInv
  <2>. QED  BY <2>1, <2>2 DEF ReportMoves
<1>9. ASSUME NEW d \in CRs, UserOp(d) \/ CacheSync(d)
      PROVE  ReportMoves(c)
  <2>1. /\ status'[c] \in {status[c], NotReady}
        /\ UNCHANGED <<pc, copy, result, creates>>
    BY <1>9 DEF UserOp, Edit, Create, Delete, Annotate, UserStep, CacheSync
  <2>. QED  BY <2>1 DEF ReportMoves
<1>10. CASE mapClusterToPolicies \/ \E a \in ACL : Tamper(a)
  BY <1>10, <1>u DEF mapClusterToPolicies, UserStep, Tamper
<1>11. CASE Crash
  BY <1>11, <1>r DEF Crash
<1>. QED
  BY <1>1, <1>2, <1>3, <1>4, <1>5, <1>6, <1>7, <1>8, <1>9, <1>10, <1>11
  DEF Next, ReconcileStep, FaultStep

(* A reconcile whose copy is at a live object's generation has its spec.   *)
LEMMA CopyIsCurrent ==
  ASSUME BaseInv, NEW c \in CRs, obj[c].exists, copy[c].exists, copy[c].gen = obj[c].gen
  PROVE  copy[c].spec = obj[c].spec
BY DEF BaseInv, VersionInv, Same

(* Grants survive every step.                                              *)
LEMMA GrantStep ==
  ASSUME BaseInv, ViewInv, GrantInv, Next
  PROVE  GrantInv'
<1>. SUFFICES ASSUME NEW c \in CRs, obj'[c].exists, ~obj'[c].deleting
              PROVE  /\ /\ status'[c].ready /\ status'[c].gen = obj'[c].gen
                        /\ obj'[c].spec.mode # "ObserveOnly"
                        => obj'[c].spec.acls \subseteq Accounted'
                     /\ /\ pc'[c] = "status" /\ result'[c] /\ copy'[c].gen = obj'[c].gen
                        /\ copy'[c].spec.mode # "ObserveOnly"
                        => copy'[c].spec.acls \subseteq Accounted'
                     /\ pc'[c] = "apply" /\ result'[c] /\ copy'[c].gen = obj'[c].gen
                        => copy'[c].spec.acls \subseteq Accounted' \cup creates'[c]
  BY DEF GrantInv
<1>1. ReportMoves(c)
  BY ReportStep
<1>2. acls \subseteq Accounted /\ acls' \subseteq Accounted'
  BY DEF Accounted
<1>3. ASSUME status'[c].ready, status'[c].gen = obj'[c].gen, obj'[c].spec.mode # "ObserveOnly"
      PROVE  obj'[c].spec.acls \subseteq Accounted'
  <2>0. status'[c] # NotReady
    BY <1>3 DEF NotReady
  <2>1. Claims(c)'
    BY <1>3 DEF Claims
  <2>2. ClaimKept(c)
    BY <2>1, ClaimStep
  <2>3. CASE status'[c] = status[c]
    <3>1. Claims(c)
      BY <1>3, <2>2, <2>3 DEF Claims, ClaimKept
    <3>2. obj[c].spec.acls \subseteq Accounted
      BY <1>3, <2>2, <2>3 DEF GrantInv, ClaimKept
    <3>. QED  BY <2>2, <3>1, <3>2, ClaimantKeepsTuples DEF ClaimKept
  <2>4. CASE /\ pc[c] = "status" /\ copy[c].exists
             /\ status'[c] = [ready |-> result[c], gen |-> copy[c].gen]
    <3>1. result[c] /\ copy[c].gen = obj[c].gen
      BY <1>3, <2>2, <2>4 DEF ClaimKept
    <3>2. Claims(c)
      BY <2>2, <2>4, <3>1 DEF Claims, ClaimKept
    <3>3. copy[c].spec = obj[c].spec
      BY <2>2, <2>4, <3>1, CopyIsCurrent DEF ClaimKept
    <3>4. obj[c].spec.acls \subseteq Accounted
      BY <1>3, <2>2, <2>4, <3>1, <3>3 DEF GrantInv, ClaimKept
    <3>. QED  BY <2>2, <3>2, <3>4, ClaimantKeepsTuples DEF ClaimKept
  <2>. QED  BY <1>1, <2>0, <2>3, <2>4 DEF ReportMoves
<1>4. ASSUME pc'[c] \in {"status", "apply"}, result'[c], copy'[c].gen = obj'[c].gen
      PROVE  /\ Claims(c) /\ obj[c].exists /\ ~obj[c].deleting
             /\ copy'[c] = copy[c] /\ copy[c].gen = obj[c].gen
             /\ copy[c].spec = obj[c].spec
  <2>1. Claims(c)'
    BY <1>4 DEF Claims
  <2>2. ClaimKept(c)
    BY <2>1, ClaimStep
  <2>3. copy'[c] = copy[c] /\ pc[c] \in {"list", "apply", "status"}
    BY <1>1, <1>4 DEF ReportMoves
  <2>4. copy[c].gen = obj[c].gen
    BY <1>4, <2>2, <2>3 DEF ClaimKept
  <2>5. copy[c].exists
    BY <2>3 DEF BaseInv, PathInv, InSyncPCs
  <2>6. Claims(c)
    BY <2>2, <2>3 DEF ClaimKept, BuildView
  <2>. QED  BY <2>2, <2>3, <2>4, <2>5, <2>6, CopyIsCurrent DEF ClaimKept
<1>5. ASSUME pc'[c] = "status", result'[c], copy'[c].gen = obj'[c].gen,
             copy'[c].spec.mode # "ObserveOnly"
      PROVE  copy'[c].spec.acls \subseteq Accounted'
  <2>1. /\ Claims(c) /\ obj[c].exists /\ ~obj[c].deleting
        /\ copy'[c] = copy[c] /\ copy[c].gen = obj[c].gen /\ copy[c].spec = obj[c].spec
    BY <1>4, <1>5
  <2>2. copy[c].spec.mode # "ObserveOnly"
    BY <1>5, <2>1
  <2>3. copy[c].spec.acls \subseteq Accounted
    <3>1. CASE pc[c] = "status" /\ result[c]
      BY <2>1, <2>2, <3>1 DEF GrantInv
    <3>2. CASE copy[c].spec.acls \subseteq acls
      BY <1>2, <3>2
    <3>3. CASE pc[c] = "apply" /\ result[c] /\ creates[c] = {}
      BY <2>1, <3>3 DEF GrantInv
    <3>. QED  BY <1>1, <1>5, <2>2, <3>1, <3>2, <3>3 DEF ReportMoves
  <2>. QED  BY <2>1, <2>3, ClaimantKeepsTuples
<1>6. ASSUME pc'[c] = "apply", result'[c], copy'[c].gen = obj'[c].gen
      PROVE  copy'[c].spec.acls \subseteq Accounted' \cup creates'[c]
  <2>1. /\ Claims(c) /\ obj[c].exists /\ ~obj[c].deleting
        /\ copy'[c] = copy[c] /\ copy[c].gen = obj[c].gen /\ copy[c].spec = obj[c].spec
    BY <1>4, <1>6
  <2>2. obj[c].spec.acls \cap Accounted \subseteq Accounted'
    BY <2>1, ClaimantKeepsTuples
  <2>3. CASE pc[c] = "list" /\ copy[c].spec.acls \subseteq acls \cup creates'[c]
    BY <1>2, <2>1, <2>2, <2>3
  <2>4. CASE pc[c] = "apply" /\ result[c] /\ creates[c] \subseteq creates'[c] \cup acls'
    <3>1. copy[c].spec.acls \subseteq Accounted \cup creates[c]
      BY <2>1, <2>4 DEF GrantInv
    <3>. QED  BY <1>2, <2>1, <2>2, <2>4, <3>1
  <2>. QED  BY <1>1, <1>6, <2>3, <2>4 DEF ReportMoves
<1>. QED  BY <1>3, <1>5, <1>6

(* The full inductive invariant.                                           *)
LEMMA FullInvariant == ConflictFree => (Spec => []IInv)
<1>. SUFFICES ASSUME ConflictFree PROVE Spec => []IInv
  OBVIOUS
<1>1. Init => ViewInv /\ GrantInv
  <2>. SUFFICES ASSUME Init PROVE ViewInv /\ GrantInv
    OBVIOUS
  <2>1. \A c \in CRs : pc[c] = "idle" /\ ~status[c].ready
    BY DEF Init, NotReady
  <2>. QED  BY <2>1 DEF ViewInv, GrantInv
<1>2. BaseInv /\ ViewInv /\ GrantInv /\ [Next]_vars => (ViewInv /\ GrantInv)'
  <2>1. ViewInv /\ GrantInv /\ UNCHANGED vars => (ViewInv /\ GrantInv)'
    BY DEF ViewInv, GrantInv, Claims, Accounted, Covers, vars
  <2>. QED  BY <2>1, ViewStep, GrantStep
<1>3. BaseInv /\ ViewInv /\ GrantInv => IInv
  BY DEF IInv
<1>. QED  BY <1>1, <1>2, <1>3, BaseInvariant, PTL DEF Spec

(* Ready means granted, for any number of CRs with specs that do not       *)
(* contradict each other: no interleaving of reconciles, deletions, stale  *)
(* caches, failed calls and restarts revokes a tuple from a CR that        *)
(* reports Ready for its current spec.                                     *)
THEOREM ReadyIsGranted == ConflictFree => (Spec => []ReadyMeansGranted)
<1>1. IInv => ReadyMeansGranted
  BY DEF IInv, GrantInv, ReadyMeansGranted, Settled, Accounted
<1>. QED  BY <1>1, FullInvariant, PTL

(* The prune veto, under the same assumption: no prune of a tuple in the   *)
(* scope of a Ready CR that did not set spec.prune.                        *)
THEOREM VetoIsRespected == ConflictFree => (Spec => VetoRespected)
<1>1. ASSUME IInv, Next, NEW c \in CRs, NEW d \in CRs, NEW a \in ACL,
             Pruned(c, a), Settled(d), Covers(obj[d].spec, a)
      PROVE  obj[d].spec.prune
  <2>1. Claims(d)
    BY <1>1 DEF Settled, Claims
  <2>2. pc[c] = "apply" /\ a \in deletes[c]
    BY <1>1 DEF Pruned
  <2>. QED  BY <1>1, <2>1, <2>2 DEF IInv, ViewInv
<1>2. IInv /\ [Next]_vars =>
        [\A c, d \in CRs : \A a \in ACL :
           Pruned(c, a) /\ Settled(d) /\ Covers(obj[d].spec, a) => obj[d].spec.prune]_vars
  BY <1>1
<1>. QED  BY <1>2, FullInvariant, PTL DEF Spec, VetoRespected

(* How a finalizer leaves its deletion step.                               *)
LEMMA FinalizerLeaves ==
  ASSUME BaseInv, Next, NEW c \in CRs, pc[c] = "deleteACLs", pc'[c] # "deleteACLs"
  PROVE  DeleteACLs(c) \/ DeletionFails(c) \/ Crash
<1>. USE DEF BaseInv, TypeOK, Goto, Return, RequeueAfterReturn, apiVars, brokerVars,
     budgetVars, opsVars
<1>1. ASSUME NEW d \in CRs, ReconcileStep(d), ~DeleteACLs(c)
      PROVE  FALSE
  BY <1>1 DEF ReconcileStep, ReconcileGone, Reconcile, AddFinalizer, UpdateFails, Lock,
     BuildView, ListEnforce, ListReport, ApplyDone, UpdateStatus, UpdateStatusFails,
     ShieldDeletion, DeleteACLs, RemoveFinalizer, ApplyCreate, ApplyDelete, Begin
<1>2. ASSUME NEW d \in CRs, FaultStep(d), ~DeletionFails(c)
      PROVE  FALSE
  BY <1>2 DEF FaultStep, ReconcileUnreachable, ReadFails, DeletionFails, ApplyFails, Begin
<1>3. ASSUME NEW d \in CRs, UserOp(d) \/ CacheSync(d)
      PROVE  FALSE
  BY <1>3 DEF UserOp, Edit, Create, Delete, Annotate, UserStep, CacheSync
<1>4. ASSUME mapClusterToPolicies \/ \E a \in ACL : Tamper(a)
      PROVE  FALSE
  BY <1>4 DEF mapClusterToPolicies, UserStep, Tamper
<1>. QED  BY <1>1, <1>2, <1>3, <1>4 DEF Next

(* The co-ownership shield, under the same assumption: a finalizer never   *)
(* removes a tuple that another CR, Ready for its current spec, desires.   *)
THEOREM SharedTuplesSurvive == ConflictFree => (Spec => SharedTupleSurvivesDeletion)
<1>1. ASSUME IInv, Next, NEW c \in CRs, NEW d \in CRs,
             pc[c] = "deleteACLs", pc'[c] # "deleteACLs", Settled(d)
      PROVE  obj[d].spec.acls \cap acls \subseteq acls'
  <2>1. Claims(d)
    BY <1>1 DEF Settled, Claims
  <2>2. obj[d].spec.acls \cap deletes[c] = {}
    BY <1>1, <2>1 DEF IInv, ViewInv
  <2>3. DeleteACLs(c) \/ DeletionFails(c) \/ Crash
    BY <1>1, FinalizerLeaves DEF IInv
  <2>4. acls \ deletes[c] \subseteq acls'
    BY <1>1, <2>3 DEF DeleteACLs, DeletionFails, Crash, brokerVars
  <2>. QED  BY <2>2, <2>4
<1>2. IInv /\ [Next]_vars =>
        [\A c, d \in CRs :
           pc[c] = "deleteACLs" /\ pc'[c] # "deleteACLs" /\ Settled(d)
             => obj[d].spec.acls \cap acls \subseteq acls']_vars
  BY <1>1
<1>. QED  BY <1>2, FullInvariant, PTL DEF Spec, SharedTupleSurvivesDeletion

=============================================================================
