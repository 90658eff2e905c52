---------------------------- MODULE AclSubstrate ----------------------------
(***************************************************************************)
(* The operator's writers of one KafkaCluster's ACL substrate: the         *)
(* KafkaAccessPolicy controller with the ACL view, the diff, the executor  *)
(* and the lock it calls.  The KafkaTopic controller writes its ACLs       *)
(* through the same view, lock, diff and shield, and a topic contributes   *)
(* to the view as a policy does.                                           *)
(*                                                                         *)
(* The API server holds the objects (obj) and their status; the operator   *)
(* reads an object and its siblings from the informer cache (cache), which *)
(* lags arbitrarily.  The work queue runs at most one reconcile per CR and *)
(* reconciles of different CRs concurrently.  A reconcile is a sequence of *)
(* steps, one for each call that reads or changes state others share       *)
(* (cache, API server, lock, broker); anything may happen in between.      *)
(***************************************************************************)
EXTENDS AccessSet, FiniteSets

CONSTANTS
  CRs,             \* the custom resources referencing the cluster
  Specs,           \* the specs users give them
  NoCR,            \* holder of the free lock
  InitialACLs,     \* ACLs on the broker before the operator first runs
  MaxConcurrent,   \* MaxConcurrentReconciles
  MaxUserOps,      \* bound: creates, edits, deletes and annotations by users
  MaxFaults        \* bound: failing calls, operator restarts, and ACL changes
                   \* made behind the operator's back

PolicySpec == [acls : SUBSET ACL, prune : BOOLEAN,
               mode : {"Enforce", "DetectOnly", "ObserveOnly"},
               deletionPolicy : {"Delete", "Orphan"}]

(* A spec that both allows and denies a subject fails validation and is    *)
(* never applied; such specs are left out.                                 *)
ASSUME SpecsAssumption ==
  /\ Specs # {}
  /\ Specs \subseteq PolicySpec
  /\ \A s \in Specs : \A a \in s.acls : Opposite(a) \notin s.acls

ASSUME NoCRAssumption == NoCR \notin CRs

ASSUME BoundsAssumption ==
  /\ InitialACLs \subseteq ACL
  /\ MaxConcurrent \in Nat \ {0}
  /\ MaxUserOps \in Nat
  /\ MaxFaults \in Nat

VARIABLES
  obj,        \* API server: the object of each CR
  status,     \* API server: its Ready condition and observedGeneration
  cache,      \* the informer cache's copy of each object
  queue,      \* the work queue, delayed and rate-limited entries included
  pc,         \* where each CR's reconcile stands
  copy,       \* the object a reconcile fetched and updates in place
  view,       \* the ClusterACLView a reconcile holds
  creates,    \* its CreateAcl operations still to execute
  deletes,    \* its approved ACL deletions still to execute
  result,     \* Ready, as the reconcile is about to report it
  aclLock,    \* holder of the (cluster, acl) mutex
  acls,       \* the broker's ACLs
  tampered,   \* tuples removed behind the operator's back, not restored yet
  userOps,    \* user operations so far
  faults      \* faults so far

apiVars    == <<obj, status>>
brokerVars == <<acls, tampered>>
budgetVars == <<userOps, faults>>
opsVars    == <<view, creates, deletes>>
vars == <<obj, status, cache, queue, pc, copy, view, creates, deletes, result,
          aclLock, acls, tampered, userOps, faults>>

-----------------------------------------------------------------------------
(* Objects.  gen stands for the pair (uid, generation): an edit, a         *)
(* deletion and a re-creation each move it forward.  Two copies of an      *)
(* object are equal iff they have the same resourceVersion (status writes, *)
(* which also bump it, are covered by Update calls that fail as faults).   *)

Object == [exists : BOOLEAN, gen : Nat, spec : Specs, deleting : BOOLEAN,
           finalizer : BOOLEAN, allowDelete : BOOLEAN, force : BOOLEAN]

NewObject(g, s, approved) ==
  [exists |-> TRUE, gen |-> g, spec |-> s, deleting |-> FALSE,
   finalizer |-> FALSE, allowDelete |-> approved, force |-> FALSE]

NoObject(g) ==
  [NewObject(g, CHOOSE s \in Specs : TRUE, FALSE) EXCEPT !.exists = FALSE]

(* What users and the finalizer update do to an object.                    *)
Finalized(o) == [o EXCEPT !.finalizer = TRUE]

NextGen(o) == [o EXCEPT !.gen = @ + 1]

Edited(o, s) == NextGen([o EXCEPT !.spec = s])

Terminating(o) == NextGen([o EXCEPT !.deleting = TRUE])

AllowDelete(o) == [o EXCEPT !.allowDelete = TRUE]

ForceRemoval(o) == [o EXCEPT !.force = TRUE]

Status == [ready : BOOLEAN, gen : Nat]

NotReady == [ready |-> FALSE, gen |-> 0]

ClusterACLView ==
  [desired : SUBSET ACL, managed : SUBSET ScopeKeys, consented : SUBSET ScopeKeys]

NoView == [desired |-> {}, managed |-> {}, consented |-> {}]

PCs == {"idle", "addFinalizer", "lock", "view", "list", "apply", "status",
        "lockDelete", "shield", "deleteACLs", "removeFinalizer"}

(* The steps inside the (cluster, acl) critical section.                   *)
SpanPCs == {"view", "list", "apply", "shield", "deleteACLs"}

TypeOK ==
  /\ obj \in [CRs -> Object]
  /\ status \in [CRs -> Status]
  /\ cache \in [CRs -> Object]
  /\ queue \subseteq CRs
  /\ pc \in [CRs -> PCs]
  /\ copy \in [CRs -> Object]
  /\ view \in [CRs -> ClusterACLView]
  /\ creates \in [CRs -> SUBSET ACL]
  /\ deletes \in [CRs -> SUBSET ACL]
  /\ result \in [CRs -> BOOLEAN]
  /\ aclLock \in CRs \cup {NoCR}
  /\ acls \subseteq ACL
  /\ tampered \subseteq ACL
  /\ userOps \in Nat
  /\ faults \in Nat

(* The operator starts on a cluster where some CRs have been created, none *)
(* has been reconciled, and the broker holds ACLs nobody declared.         *)
Init ==
  /\ obj \in [CRs -> {NoObject(0)} \cup {NewObject(1, s, ok) : s \in Specs, ok \in BOOLEAN}]
  /\ status = [c \in CRs |-> NotReady]
  /\ cache = obj
  /\ queue = {c \in CRs : obj[c].exists}
  /\ pc = [c \in CRs |-> "idle"]
  /\ copy = [c \in CRs |-> NoObject(0)]
  /\ view = [c \in CRs |-> NoView]
  /\ creates = [c \in CRs |-> {}]
  /\ deletes = [c \in CRs |-> {}]
  /\ result = [c \in CRs |-> FALSE]
  /\ aclLock = NoCR
  /\ acls = InitialACLs
  /\ tampered = {}
  /\ userOps = 0
  /\ faults = 0

-----------------------------------------------------------------------------
(* The cluster-wide view, built from the informer cache.                   *)

CompilePolicy(s) == {[acl |-> a, prune |-> s.prune] : a \in s.acls}

(* buildClusterACLView skips CRs being deleted.                            *)
Contributions ==
  UNION {CompilePolicy(cache[c].spec) :
           c \in {d \in CRs : cache[d].exists /\ ~cache[d].deleting}}

(* Mutant: the view's desired tuples keep their attribution.               *)
buildClusterACLViewAttributed ==
  [desired   |-> Contributions,
   managed   |-> ManagedScope(Contributions),
   consented |-> ConsentedScope(Contributions)]

buildClusterACLView ==
  [desired   |-> DesiredUnion(Contributions),
   managed   |-> ManagedScope(Contributions),
   consented |-> ConsentedScope(Contributions)]

(* The per-CR half of the diff: desired tuples the broker lacks.           *)
CreateAclOps(c) == copy[c].spec.acls \ acls

(* Mutant: everything in the managed scope is a candidate.                 *)
PruneCandidatesDesiredToo(c) == {a \in acls : scopeKeyOf(a) \in view[c].managed}

(* The aggregated half: live tuples in the managed scope nobody desires.   *)
PruneCandidates(c) ==
  {a \in acls : scopeKeyOf(a) \in view[c].managed} \ view[c].desired

(* The executor runs a prune only with the scope entry's consent; the      *)
(* others are PruneDisabled, which does not fail the run.                  *)
DeleteAclOps(c) == {a \in PruneCandidates(c) : scopeKeyOf(a) \in view[c].consented}

(* Mutant: no shield.                                                      *)
shieldACLDeletionNone(c) == copy[c].spec.acls

(* The finalizer's shield: what the CR compiles to, less what the          *)
(* remaining CRs desire.                                                   *)
shieldACLDeletion(c) == copy[c].spec.acls \ buildClusterACLView.desired

-----------------------------------------------------------------------------
(* Control.                                                                *)

Goto(c, next) == pc' = [pc EXCEPT ![c] = next]

(* The reconcile of c returns; locals are dropped, and c is queued again   *)
(* after the resync interval or the error backoff, which may be any time.  *)
Return(c) ==
  /\ Goto(c, "idle")
  /\ copy' = [copy EXCEPT ![c] = NoObject(0)]
  /\ view' = [view EXCEPT ![c] = NoView]
  /\ creates' = [creates EXCEPT ![c] = {}]
  /\ deletes' = [deletes EXCEPT ![c] = {}]
  /\ result' = [result EXCEPT ![c] = FALSE]

RequeueAfterReturn(c) == Return(c) /\ queue' = queue \cup {c}

(* Mutant: no registry, every span runs unserialized.                      *)
lockSubstrateNil(c) == aclLock' = c

lockSubstrate(c) == aclLock = NoCR /\ aclLock' = c

unlockACL == aclLock' = NoCR

Fault ==
  /\ faults < MaxFaults
  /\ faults' = faults + 1
  /\ UNCHANGED userOps

Running == {c \in CRs : pc[c] # "idle"}

(* A worker takes c from the queue and fetches it from the cache.          *)
Begin(c, next) ==
  /\ c \in queue
  /\ pc[c] = "idle"
  /\ Cardinality(Running) < MaxConcurrent
  /\ queue' = queue \ {c}
  /\ cache[c].exists
  /\ copy' = [copy EXCEPT ![c] = cache[c]]
  /\ Goto(c, next)

-----------------------------------------------------------------------------
(* Reconcile, up to the first write.                                       *)

(* NotFound: the object is gone; nothing is queued again.                  *)
ReconcileGone(c) ==
  /\ c \in queue
  /\ pc[c] = "idle"
  /\ ~cache[c].exists
  /\ queue' = queue \ {c}
  /\ UNCHANGED <<apiVars, cache, pc, copy, opsVars, result, aclLock, brokerVars, budgetVars>>

(* The cluster resolves and the clients build: the deletion path or the    *)
(* in-sync path.  A deletion that is not approved only requeues, which     *)
(* changes nothing, and has no step here.                                  *)
Reconcile(c) ==
  /\ \/ ~cache[c].deleting /\ ~cache[c].finalizer /\ Begin(c, "addFinalizer")
     \/ ~cache[c].deleting /\ cache[c].finalizer /\ Begin(c, "lock")
     \/ cache[c].deleting /\ cache[c].spec.deletionPolicy = "Delete"
        /\ cache[c].allowDelete /\ Begin(c, "lockDelete")
     \/ cache[c].deleting /\ cache[c].spec.deletionPolicy = "Orphan"
        /\ Begin(c, "removeFinalizer")
  /\ UNCHANGED <<apiVars, cache, opsVars, result, aclLock, brokerVars, budgetVars>>

(* The cluster lookup or the client build fails: an error status on the    *)
(* in-sync path; on the deletion path the finalizer goes only when its     *)
(* removal is forced (otherwise the error requeues and changes nothing).   *)
ReconcileUnreachable(c) ==
  /\ \/ ~cache[c].deleting /\ Begin(c, "status")
     \/ cache[c].deleting /\ cache[c].force /\ Begin(c, "removeFinalizer")
  /\ result' = [result EXCEPT ![c] = FALSE]
  /\ Fault
  /\ UNCHANGED <<apiVars, cache, opsVars, aclLock, brokerVars>>

(* Mutant: the finalizer is set on the local copy and never persisted.     *)
AddFinalizerLocally(c) ==
  /\ pc[c] = "addFinalizer"
  /\ copy' = [copy EXCEPT ![c] = Finalized(@)]
  /\ Goto(c, "lock")
  /\ UNCHANGED <<obj, status, cache, queue, opsVars, result, aclLock, brokerVars, budgetVars>>

(* Update with the finalizer added; the response replaces the copy.        *)
AddFinalizer(c) ==
  /\ pc[c] = "addFinalizer"
  /\ obj[c] = copy[c]
  /\ obj' = [obj EXCEPT ![c] = Finalized(@)]
  /\ copy' = [copy EXCEPT ![c] = obj'[c]]
  /\ Goto(c, "lock")
  /\ UNCHANGED <<status, cache, queue, opsVars, result, aclLock, brokerVars, budgetVars>>

(* An Update that adds or removes the finalizer fails: 409 Conflict on a   *)
(* stale copy, or any API error.                                           *)
UpdateFails(c) ==
  /\ pc[c] \in {"addFinalizer", "removeFinalizer"}
  /\ \/ obj[c] # copy[c] /\ UNCHANGED budgetVars
     \/ obj[c] = copy[c] /\ Fault
  /\ RequeueAfterReturn(c)
  /\ UNCHANGED <<apiVars, cache, aclLock, brokerVars>>

-----------------------------------------------------------------------------
(* The in-sync path: the critical section from the view to the last write. *)

Lock(c) ==
  /\ \/ pc[c] = "lock" /\ Goto(c, "view")
     \/ pc[c] = "lockDelete" /\ Goto(c, "shield")
  /\ lockSubstrate(c)
  /\ UNCHANGED <<apiVars, cache, queue, copy, opsVars, result, brokerVars, budgetVars>>

BuildView(c) ==
  /\ pc[c] = "view"
  /\ view' = [view EXCEPT ![c] = buildClusterACLView]
  /\ Goto(c, "list")
  /\ UNCHANGED <<apiVars, cache, queue, copy, creates, deletes, result, aclLock,
                 brokerVars, budgetVars>>

(* Listing the CRs or the live ACLs fails: the lock is released before the *)
(* error status is written.                                                *)
ReadFails(c) ==
  /\ pc[c] \in {"view", "list"}
  /\ Fault
  /\ view' = [view EXCEPT ![c] = NoView]
  /\ result' = [result EXCEPT ![c] = FALSE]
  /\ unlockACL
  /\ Goto(c, "status")
  /\ UNCHANGED <<apiVars, cache, queue, copy, creates, deletes, brokerVars>>

(* ListACLs and diff.Compute, then Enforce: the operations go to the       *)
(* executor.                                                               *)
ListEnforce(c) ==
  /\ pc[c] = "list"
  /\ copy[c].spec.mode = "Enforce"
  /\ creates' = [creates EXCEPT ![c] = CreateAclOps(c)]
  /\ deletes' = [deletes EXCEPT ![c] = DeleteAclOps(c)]
  /\ view' = [view EXCEPT ![c] = NoView]
  /\ result' = [result EXCEPT ![c] = TRUE]
  /\ Goto(c, "apply")
  /\ UNCHANGED <<apiVars, cache, queue, copy, aclLock, brokerVars, budgetVars>>

(* DetectOnly reports Ready iff nothing is pending; ObserveOnly always.    *)
ListReport(c) ==
  /\ pc[c] = "list"
  /\ copy[c].spec.mode # "Enforce"
  /\ result' = [result EXCEPT ![c] = copy[c].spec.mode = "ObserveOnly"
                                     \/ CreateAclOps(c) \cup PruneCandidates(c) = {}]
  /\ view' = [view EXCEPT ![c] = NoView]
  /\ unlockACL
  /\ Goto(c, "status")
  /\ UNCHANGED <<apiVars, cache, queue, copy, creates, deletes, brokerVars, budgetVars>>

(* The executor runs the operations one by one, creates (sorted first)     *)
(* before deletes, and goes on after a failure.                            *)
ApplyCreate(c, a) ==
  /\ pc[c] = "apply"
  /\ a \in creates[c]
  /\ creates' = [creates EXCEPT ![c] = @ \ {a}]
  /\ acls' = acls \cup {a}
  /\ tampered' = tampered \ {a}
  /\ UNCHANGED <<apiVars, cache, queue, pc, copy, view, deletes, result, aclLock, budgetVars>>

ApplyDelete(c, a) ==
  /\ pc[c] = "apply"
  /\ creates[c] = {}
  /\ a \in deletes[c]
  /\ deletes' = [deletes EXCEPT ![c] = @ \ {a}]
  /\ acls' = acls \ {a}
  /\ UNCHANGED <<apiVars, cache, queue, pc, copy, view, creates, result, aclLock,
                 tampered, budgetVars>>

(* Mutant: the executor's failure does not reach the status.               *)
ApplyFailsSwallowed(c, a) ==
  /\ pc[c] = "apply"
  /\ a \in creates[c]
  /\ creates' = [creates EXCEPT ![c] = @ \ {a}]
  /\ Fault
  /\ UNCHANGED <<apiVars, cache, queue, pc, copy, view, deletes, result, aclLock, brokerVars>>

(* A call that fails may or may not have taken effect on the broker.       *)
ApplyFails(c, a) ==
  /\ pc[c] = "apply"
  /\ \/ /\ a \in creates[c]
        /\ creates' = [creates EXCEPT ![c] = @ \ {a}]
        /\ acls' \in {acls, acls \cup {a}}
        /\ UNCHANGED deletes
     \/ /\ creates[c] = {}
        /\ a \in deletes[c]
        /\ deletes' = [deletes EXCEPT ![c] = @ \ {a}]
        /\ acls' \in {acls, acls \ {a}}
        /\ UNCHANGED creates
  /\ result' = [result EXCEPT ![c] = FALSE]
  /\ tampered' = tampered \ acls'
  /\ Fault
  /\ UNCHANGED <<apiVars, cache, queue, pc, copy, view, aclLock>>

(* Mutant: the lock is not released after the apply.                       *)
ApplyDoneHoldsLock(c) ==
  /\ pc[c] = "apply"
  /\ creates[c] = {}
  /\ deletes[c] = {}
  /\ Goto(c, "status")
  /\ UNCHANGED <<apiVars, cache, queue, copy, opsVars, result, aclLock, brokerVars, budgetVars>>

ApplyDone(c) ==
  /\ pc[c] = "apply"
  /\ creates[c] = {}
  /\ deletes[c] = {}
  /\ unlockACL
  /\ Goto(c, "status")
  /\ UNCHANGED <<apiVars, cache, queue, copy, opsVars, result, brokerVars, budgetVars>>

(* updateStatus re-reads the object through the cache and writes with its  *)
(* resourceVersion, retrying on conflict: the write lands only once the    *)
(* cache has caught up.                                                    *)
UpdateStatus(c) ==
  /\ pc[c] = "status"
  /\ obj[c].exists
  /\ cache[c] = obj[c]
  /\ status' = [status EXCEPT ![c] = [ready |-> result[c], gen |-> copy[c].gen]]
  /\ RequeueAfterReturn(c)
  /\ UNCHANGED <<obj, cache, aclLock, brokerVars, budgetVars>>

UpdateStatusFails(c) ==
  /\ pc[c] = "status"
  /\ \/ cache[c] # obj[c] /\ UNCHANGED budgetVars
     \/ cache[c] = obj[c] /\ Fault
  /\ RequeueAfterReturn(c)
  /\ UNCHANGED <<apiVars, cache, aclLock, brokerVars>>

-----------------------------------------------------------------------------
(* The deletion path.                                                      *)

ShieldDeletion(c) ==
  /\ pc[c] = "shield"
  /\ deletes' = [deletes EXCEPT ![c] = shieldACLDeletion(c)]
  /\ Goto(c, "deleteACLs")
  /\ UNCHANGED <<apiVars, cache, queue, copy, view, creates, result, aclLock,
                 brokerVars, budgetVars>>

DeleteACLs(c) ==
  /\ pc[c] = "deleteACLs"
  /\ acls' = acls \ deletes[c]
  /\ deletes' = [deletes EXCEPT ![c] = {}]
  /\ unlockACL
  /\ Goto(c, "removeFinalizer")
  /\ UNCHANGED <<apiVars, cache, queue, copy, view, creates, result, tampered, budgetVars>>

(* The view cannot be built, or DeleteACLs fails after deleting some of    *)
(* the tuples: the finalizer stays and the deletion is retried.            *)
DeletionFails(c) ==
  /\ \/ pc[c] = "shield" /\ UNCHANGED acls
     \/ pc[c] = "deleteACLs" /\ \E part \in SUBSET deletes[c] : acls' = acls \ part
  /\ Fault
  /\ unlockACL
  /\ RequeueAfterReturn(c)
  /\ UNCHANGED <<apiVars, cache, tampered>>

(* Update without the finalizer lets the API server collect the object.    *)
RemoveFinalizer(c) ==
  /\ pc[c] = "removeFinalizer"
  /\ obj[c] = copy[c]
  /\ obj' = [obj EXCEPT ![c] = NoObject(obj[c].gen)]
  /\ status' = [status EXCEPT ![c] = NotReady]
  /\ Return(c)
  /\ UNCHANGED <<cache, queue, aclLock, brokerVars, budgetVars>>

-----------------------------------------------------------------------------
(* The environment: users, the informer, other broker clients, crashes.    *)

UserStep ==
  /\ userOps < MaxUserOps
  /\ userOps' = userOps + 1
  /\ UNCHANGED <<cache, pc, copy, opsVars, result, aclLock, brokerVars, faults>>

Create(c, s, approved) ==
  /\ ~obj[c].exists
  /\ obj' = [obj EXCEPT ![c] = NewObject(obj[c].gen + 1, s, approved)]
  /\ UNCHANGED <<status, queue>>
  /\ UserStep

Edit(c, s) ==
  /\ obj[c].exists
  /\ s # obj[c].spec
  /\ obj' = [obj EXCEPT ![c] = Edited(@, s)]
  /\ UNCHANGED <<status, queue>>
  /\ UserStep

(* Without a finalizer the object is gone at once.                         *)
Delete(c) ==
  /\ obj[c].exists
  /\ ~obj[c].deleting
  /\ \/ /\ obj[c].finalizer
        /\ obj' = [obj EXCEPT ![c] = Terminating(@)]
        /\ UNCHANGED <<status, queue>>
     \/ /\ ~obj[c].finalizer
        /\ obj' = [obj EXCEPT ![c] = NoObject(obj[c].gen)]
        /\ status' = [status EXCEPT ![c] = NotReady]
        /\ UNCHANGED queue
  /\ UserStep

Annotate(c) ==
  /\ obj[c].exists
  /\ \/ ~obj[c].allowDelete /\ obj' = [obj EXCEPT ![c] = AllowDelete(@)]
     \/ ~obj[c].force /\ obj' = [obj EXCEPT ![c] = ForceRemoval(@)]
  /\ UNCHANGED <<status, queue>>
  /\ UserStep

(* A spec change of the KafkaCluster, or of a Secret it references, queues *)
(* its dependents, whatever their cached copies say.                       *)
mapClusterToPolicies ==
  /\ queue' = queue \cup {c \in CRs : cache[c].exists}
  /\ UNCHANGED apiVars
  /\ UserStep

(* A watch event reaches the cache and the event filter queues the CR.     *)
CacheSync(c) ==
  /\ cache[c] # obj[c]
  /\ cache' = [cache EXCEPT ![c] = obj[c]]
  /\ queue' = queue \cup {c}
  /\ UNCHANGED <<apiVars, pc, copy, opsVars, result, aclLock, brokerVars, budgetVars>>

(* Somebody changes the broker's ACLs by other means.                      *)
Tamper(a) ==
  /\ Fault
  /\ \/ a \in acls /\ acls' = acls \ {a} /\ tampered' = tampered \cup {a}
     \/ a \notin acls /\ acls' = acls \cup {a} /\ tampered' = tampered \ {a}
  /\ UNCHANGED <<apiVars, cache, queue, pc, copy, opsVars, result, aclLock>>

(* The operator dies between two steps and starts again: in-process locks  *)
(* and reconciles are gone, the cache is listed afresh, every CR is queued.*)
Crash ==
  /\ Fault
  /\ cache' = obj
  /\ queue' = {c \in CRs : obj[c].exists}
  /\ pc' = [c \in CRs |-> "idle"]
  /\ copy' = [c \in CRs |-> NoObject(0)]
  /\ view' = [c \in CRs |-> NoView]
  /\ creates' = [c \in CRs |-> {}]
  /\ deletes' = [c \in CRs |-> {}]
  /\ result' = [c \in CRs |-> FALSE]
  /\ aclLock' = NoCR
  /\ UNCHANGED <<apiVars, brokerVars>>

-----------------------------------------------------------------------------

(* The steps of c's reconcile.                                             *)
ReconcileStep(c) ==
  \/ ReconcileGone(c) \/ Reconcile(c) \/ AddFinalizer(c) \/ UpdateFails(c)
  \/ Lock(c) \/ BuildView(c) \/ ListEnforce(c) \/ ListReport(c)
  \/ \E a \in ACL : ApplyCreate(c, a) \/ ApplyDelete(c, a)
  \/ ApplyDone(c) \/ UpdateStatus(c) \/ UpdateStatusFails(c)
  \/ ShieldDeletion(c) \/ DeleteACLs(c) \/ RemoveFinalizer(c)

FaultStep(c) ==
  \/ ReconcileUnreachable(c) \/ ReadFails(c) \/ DeletionFails(c)
  \/ \E a \in ACL : ApplyFails(c, a)

UserOp(c) ==
  \/ \E s \in Specs : Edit(c, s) \/ \E ok \in BOOLEAN : Create(c, s, ok)
  \/ Delete(c)
  \/ Annotate(c)

Next ==
  \/ \E c \in CRs : ReconcileStep(c) \/ FaultStep(c) \/ UserOp(c) \/ CacheSync(c)
  \/ mapClusterToPolicies
  \/ \E a \in ACL : Tamper(a)
  \/ Crash

Spec == Init /\ [][Next]_vars

(* Workers keep running and the queue is first come first served,          *)
(* sync.Mutex does not starve a waiter, requeue timers fire, and the watch *)
(* delivers.  Users, faults and crashes owe nothing.                       *)
Fairness == \A c \in CRs : SF_vars(ReconcileStep(c)) /\ WF_vars(CacheSync(c))

FairSpec == Spec /\ Fairness

-----------------------------------------------------------------------------
(* Properties.                                                             *)

(* c reports Ready for the generation it is at now.                        *)
Settled(c) ==
  /\ obj[c].exists
  /\ ~obj[c].deleting
  /\ status[c].ready
  /\ status[c].gen = obj[c].gen

Covers(s, a) == \E b \in s.acls : scopeKeyOf(b) = scopeKeyOf(a)

(* This step executes c's prune (DeleteAcl) of a.                          *)
Pruned(c, a) ==
  /\ pc[c] = "apply"
  /\ a \in deletes[c] /\ a \notin deletes'[c]
  /\ a \in acls /\ a \notin acls'

(* The read-compute-write spans of one cluster's ACL writers do not        *)
(* overlap: at most one reconcile is between its view build and its last   *)
(* broker write, and it is the one holding the mutex.                      *)
SpansExclude ==
  \A c, d \in CRs : pc[c] \in SpanPCs /\ pc[d] \in SpanPCs => c = d

(* Ready means granted: while a CR reports Ready for its current spec,     *)
(* every tuple of it is on the broker unless somebody other than the       *)
(* operator took it away.  No prune, finalizer, stale cache, failed call   *)
(* or restart of any reconcile revokes it.                                 *)
ReadyMeansGranted ==
  \A c \in CRs :
    Settled(c) /\ obj[c].spec.mode # "ObserveOnly"
      => obj[c].spec.acls \subseteq acls \cup tampered

(* The finalizer is on the API server's object, not just on the cached     *)
(* copy, whenever a reconcile may grant, so that an interrupted reconcile  *)
(* still leaves cleanup possible.  (A finalizer's own cleanup may run      *)
(* again from a stale cache after the object is gone.)                     *)
GranterIsFinalized ==
  \A c \in CRs : pc[c] \in {"lock", "view", "list", "apply"}
                  => obj[c].exists /\ obj[c].finalizer

(* The prune veto (Operation.PruneAllowed): a tuple is pruned only if      *)
(* every resource whose scope covers it set spec.prune - every resource    *)
(* that reports Ready for its current spec, since others may not have      *)
(* reached the cache yet.                                                  *)
VetoRespected ==
  [][\A c, d \in CRs : \A a \in ACL :
       Pruned(c, a) /\ Settled(d) /\ Covers(obj[d].spec, a) => obj[d].spec.prune]_vars

(* The co-ownership shield: finalizing one CR removes no tuple that        *)
(* another CR, Ready for its current spec, still desires.                  *)
SharedTupleSurvivesDeletion ==
  [][\A c, d \in CRs :
       pc[c] = "deleteACLs" /\ pc'[c] # "deleteACLs" /\ Settled(d)
         => obj[d].spec.acls \cap acls \subseteq acls']_vars

(* What a CR is driven to: an enforcing one is Ready for its current spec  *)
(* and granted in full, and an approved or orphaning deletion is complete. *)
Converged(c) ==
  obj[c].exists =>
    IF obj[c].deleting
      THEN obj[c].spec.deletionPolicy = "Delete" /\ ~obj[c].allowDelete
      ELSE obj[c].spec.mode = "Enforce" => Settled(c) /\ obj[c].spec.acls \subseteq acls

(* Once users and faults stop, every CR converges and stays converged:     *)
(* retries, resyncs and the cache always catch up with the last change.    *)
EventuallySettled == <>[](\A c \in CRs : Converged(c))

(* No flapping: the broker's ACLs eventually stop changing.                *)
NoFlapping == <>[][acls' = acls]_vars

=============================================================================
