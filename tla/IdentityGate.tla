---------------------------- MODULE IdentityGate ----------------------------
(***************************************************************************)
(* Several CRs of one kind that claim one broker identity: a topic name, a *)
(* quota entity or a username on one cluster.  The duplicate-identity gate *)
(* lets only the oldest live claimant write to the broker, and the         *)
(* finalizer of a quota or a user leaves the broker state to a surviving   *)
(* claimant.  Both decide from the informer cache, which lags, and go to   *)
(* the API server (the quorum recheck) where a wrong answer would hurt.    *)
(*                                                                         *)
(* The CRs of a behaviour are of one kind.  "KafkaUser" stands for users   *)
(* of one mechanism and, with the policy Delete alone, for quotas: the two *)
(* controllers agree in all that is modelled here.  The CRs enforce, and   *)
(* what a topic does to its ACLs is AclSubstrate's subject.                *)
(***************************************************************************)
EXTENDS Integers

CONSTANTS
  Kinds,        \* of {"KafkaTopic", "KafkaUser"}
  CRs,          \* namespaced names of the claimants
  NameRank,     \* their lexicographic order
  Policies,     \* what users may ask of a deletion
  Nobody,       \* holder of a free lock, writer of an absent broker state
  MaxUserOps,   \* bound: creations, deletions, annotations
  MaxFaults     \* bound: failing calls and operator restarts

ASSUME KindsAssumption == Kinds \subseteq {"KafkaTopic", "KafkaUser"} /\ Kinds # {}
ASSUME NamesAssumption ==
  /\ Nobody \notin CRs /\ Nobody \notin [cr : CRs, uid : Nat]
  /\ NameRank \in [CRs -> Nat]
  /\ \A c, d \in CRs : NameRank[c] = NameRank[d] => c = d
ASSUME PoliciesAssumption ==
  /\ "Delete" \in Policies
  /\ Policies \subseteq {"Orphan", "Delete", "Unapproved"}
ASSUME BoundsAssumption == MaxUserOps \in Nat /\ MaxFaults \in Nat

VARIABLES
  kind,     \* the kind of the CRs
  obj,      \* API server: the object of each name
  cache,    \* the informer cache's copy of it
  pc, copy, result,   \* each reconcile's place, the object it fetched, its outcome
  idLock,   \* holder of the identity mutex
  aclLock,  \* holder of the cluster's ACL mutex, which only topics take
  broker,   \* the object whose values the broker holds for the identity
  now,      \* the API server's clock, in seconds
  userOps, faults

locks   == <<idLock, aclLock>>
budgets == <<kind, userOps, faults>>
vars == <<kind, obj, cache, pc, copy, result, idLock, aclLock, broker, now, userOps, faults>>

(* Two copies are equal iff they have the same resourceVersion.  onDelete  *)
(* is the deletion policy, "Unapproved" the policy Delete without the      *)
(* allow-delete annotation, which only topics need.                        *)
Object ==
  [exists : BOOLEAN, uid : Nat, created : Nat, onDelete : Policies, force : BOOLEAN,
   deleting : BOOLEAN, finalizer : BOOLEAN,
   status : {"none", "ready", "error", "duplicate"}]

NoObject(u) ==
  [exists |-> FALSE, uid |-> u, created |-> 0, onDelete |-> CHOOSE p \in Policies : TRUE,
   force |-> FALSE, deleting |-> FALSE, finalizer |-> FALSE, status |-> "none"]

Live(o) == o.exists /\ ~o.deleting

Writers == [cr : CRs, uid : Nat]

PCs ==
  {"idle", "lock", "gate", "recheck", "finalizer", "lockACL", "engine", "status",
   "lockDelete", "coScan", "coRecheck", "cleanup", "removeFinalizer"}

TypeOK ==
  /\ kind \in Kinds
  /\ obj \in [CRs -> Object]
  /\ cache \in [CRs -> Object]
  /\ pc \in [CRs -> PCs]
  /\ copy \in [CRs -> Object]
  /\ result \in [CRs -> {"none", "ready", "error", "duplicate"}]
  /\ idLock \in CRs \cup {Nobody}
  /\ aclLock \in CRs \cup {Nobody}
  /\ broker \in Writers \cup {Nobody}
  /\ now \in Nat
  /\ userOps \in Nat
  /\ faults \in Nat

(* A claim as a user makes it.                                             *)
NewObject(u, t, p) ==
  [NoObject(u) EXCEPT !.exists = TRUE, !.created = t, !.onDelete = p]

(* Only a topic's deletion needs the annotation.                           *)
PoliciesOf == IF kind = "KafkaTopic" THEN Policies ELSE Policies \ {"Unapproved"}

(* The operator is running; users have just made some of the claims, the   *)
(* first in second 1, and the cache has seen none of them yet.  A lone one *)
(* may carry the annotation that forces its removal.                       *)
Init ==
  /\ kind \in Kinds
  /\ \E p \in PoliciesOf :
       \/ obj \in [CRs -> {NoObject(0), NewObject(1, 1, p), NewObject(1, 2, p)}]
       \/ \E c \in CRs : obj = [d \in CRs |-> IF d = c
                                  THEN [NewObject(1, 1, p) EXCEPT !.force = TRUE] ELSE NoObject(0)]
  /\ \E c \in CRs : obj[c].created = 1
  /\ cache = [c \in CRs |-> NoObject(0)]
  /\ pc = [c \in CRs |-> "idle"]
  /\ copy = cache
  /\ result = [c \in CRs |-> "none"]
  /\ idLock = Nobody
  /\ aclLock = Nobody
  /\ broker = Nobody
  /\ now = 2
  /\ userOps = 0
  /\ faults = 0

-----------------------------------------------------------------------------
(* Scans.  `objects' is the cache, or the API server for the recheck.      *)

(* Object o of a claims the identity before object p of b: the earlier     *)
(* creationTimestamp, then the smaller name.                               *)
olderIdentityClaim(a, b, o, p) ==
  o.created < p.created \/ (o.created = p.created /\ NameRank[a] < NameRank[b])

(* Live claimants in objects other than the object c is working on.        *)
Rivals(c, objects) ==
  {d \in CRs : Live(objects[d]) /\ ~(d = c /\ objects[d].uid = copy[c].uid)}

(* findOlder...Claim: some rival precedes c's claim.                       *)
findOlderClaim(c, objects) ==
  \E d \in Rivals(c, objects) : olderIdentityClaim(d, c, objects[d], copy[c])

(* Mutant: only an older claimant counts.                                  *)
findLiveCoClaimantOlder(c, objects) ==
  \E d \in Rivals(c, objects) : olderIdentityClaim(d, c, objects[d], copy[c])

(* findLive...CoClaimant: any rival, older or younger.                     *)
findLiveCoClaimant(c, objects) == Rivals(c, objects) # {}

identityMaterialized(o) == o.status = "ready"

-----------------------------------------------------------------------------

Goto(c, label) == pc' = [pc EXCEPT ![c] = label]

Fault == faults < MaxFaults /\ faults' = faults + 1 /\ UNCHANGED <<kind, userOps>>

(* The deferred unlocks.                                                   *)
Unlock(c) ==
  /\ idLock' = IF idLock = c THEN Nobody ELSE idLock
  /\ aclLock' = IF aclLock = c THEN Nobody ELSE aclLock

(* The reconcile returns; the resync or the error backoff brings it back.  *)
Return(c) ==
  /\ Goto(c, "idle")
  /\ copy' = [copy EXCEPT ![c] = NoObject(0)]
  /\ result' = [result EXCEPT ![c] = "none"]
  /\ Unlock(c)

(* On to the status write with outcome r.                                  *)
Report(c, r) ==
  /\ result' = [result EXCEPT ![c] = r]
  /\ Goto(c, "status")

(* Get, the cluster lookup, and the branch on the DeletionTimestamp.  A    *)
(* topic's deletion takes no identity lock, and cleans up only under an    *)
(* approved Delete policy.                                                 *)
Reconcile(c) ==
  /\ pc[c] = "idle"
  /\ cache[c].exists
  /\ copy' = [copy EXCEPT ![c] = cache[c]]
  /\ IF ~cache[c].deleting THEN Goto(c, "lock")
     ELSE IF kind = "KafkaUser" \/ cache[c].onDelete = "Delete" THEN Goto(c, "lockDelete")
     ELSE cache[c].onDelete = "Orphan" /\ Goto(c, "removeFinalizer")
  /\ UNCHANGED <<obj, cache, result, locks, broker, now, budgets>>

(* The cluster is missing, or its clients do not build (for a user and on  *)
(* the in-sync path that is found out under the identity lock): a live CR  *)
(* reports the error, a deleting one goes only if forced to.               *)
Unreachable(c) ==
  /\ \/ /\ pc[c] = "idle"
        /\ cache[c].exists
        /\ copy' = [copy EXCEPT ![c] = cache[c]]
     \/ pc[c] \in {"finalizer", "coScan"} /\ UNCHANGED copy
  /\ Fault
  /\ UNCHANGED <<obj, cache, broker, now>>
  /\ \/ ~copy'[c].deleting /\ Report(c, "error") /\ UNCHANGED locks
     \/ copy'[c].deleting /\ copy'[c].force
          /\ Goto(c, "removeFinalizer") /\ UNCHANGED <<result, locks>>
     \/ copy'[c].deleting /\ ~copy'[c].force
          /\ Goto(c, "idle") /\ UNCHANGED result /\ Unlock(c)

(* Mutant: a deletion takes no identity lock.                              *)
lockIdentityNotDeleting(c) ==
  /\ \/ pc[c] = "lock" /\ idLock = Nobody /\ idLock' = c /\ Goto(c, "gate")
     \/ /\ pc[c] = "lockDelete" /\ kind = "KafkaUser"
        /\ Goto(c, "coScan")
        /\ UNCHANGED idLock
  /\ UNCHANGED <<obj, cache, copy, result, aclLock, broker, now, budgets>>

lockIdentity(c) ==
  /\ idLock = Nobody
  /\ \/ pc[c] = "lock" /\ Goto(c, "gate")
     \/ pc[c] = "lockDelete" /\ kind = "KafkaUser" /\ Goto(c, "coScan")
  /\ idLock' = c
  /\ UNCHANGED <<obj, cache, copy, result, aclLock, broker, now, budgets>>

(* Topics: around the engine, and around deleteTopicState.                 *)
lockSubstrate(c) ==
  /\ aclLock = Nobody
  /\ \/ pc[c] = "lockACL" /\ Goto(c, "engine")
     \/ pc[c] = "lockDelete" /\ kind = "KafkaTopic" /\ Goto(c, "cleanup")
  /\ aclLock' = c
  /\ UNCHANGED <<obj, cache, copy, result, idLock, broker, now, budgets>>

-----------------------------------------------------------------------------
(* The in-sync path.                                                       *)

(* Mutant: the cached answer stands unless it names a rival.               *)
duplicateIdentityGateCached(c) ==
  /\ pc[c] = "gate"
  /\ Goto(c, IF findOlderClaim(c, cache) THEN "recheck" ELSE "finalizer")
  /\ UNCHANGED <<obj, cache, copy, result, locks, broker, now, budgets>>

(* The cached scan.  Only a CR that has been Ready and sees no rival does  *)
(* without the recheck.                                                    *)
duplicateIdentityGate(c) ==
  /\ pc[c] = "gate"
  /\ Goto(c, IF findOlderClaim(c, cache) \/ ~identityMaterialized(copy[c])
               THEN "recheck" ELSE "finalizer")
  /\ UNCHANGED <<obj, cache, copy, result, locks, broker, now, budgets>>

(* Mutant: a loser returns without a status.                               *)
GateRecheckSilent(c) ==
  /\ pc[c] = "recheck"
  /\ \/ findOlderClaim(c, obj) /\ Return(c)
     \/ ~findOlderClaim(c, obj) /\ Goto(c, "finalizer") /\ UNCHANGED <<copy, result, locks>>
  /\ UNCHANGED <<obj, cache, broker, now, budgets>>

(* The quorum recheck decides.  A loser goes terminal.                     *)
GateRecheck(c) ==
  /\ pc[c] = "recheck"
  /\ IF findOlderClaim(c, obj)
       THEN Report(c, "duplicate")
       ELSE Goto(c, "finalizer") /\ UNCHANGED result
  /\ UNCHANGED <<obj, cache, copy, locks, broker, now, budgets>>

(* A scan fails.                                                           *)
GateFails(c) ==
  /\ pc[c] \in {"gate", "recheck"}
  /\ Fault
  /\ Report(c, "error")
  /\ UNCHANGED <<obj, cache, copy, locks, broker, now>>

EnsureFinalizer(c) ==
  /\ pc[c] = "finalizer"
  /\ \/ copy[c].finalizer /\ UNCHANGED <<obj, copy>>
     \/ /\ ~copy[c].finalizer
        /\ obj[c] = copy[c]
        /\ obj' = [obj EXCEPT ![c].finalizer = TRUE]
        /\ copy' = [copy EXCEPT ![c] = obj'[c]]
  /\ Goto(c, IF kind = "KafkaTopic" THEN "lockACL" ELSE "engine")
  /\ UNCHANGED <<cache, result, locks, broker, now, budgets>>

(* An Update that adds or removes the finalizer: conflict or API error.    *)
UpdateFails(c) ==
  /\ pc[c] \in {"finalizer", "removeFinalizer"}
  /\ pc[c] = "finalizer" => ~copy[c].finalizer
  /\ \/ obj[c] # copy[c] /\ UNCHANGED budgets
     \/ obj[c] = copy[c] /\ Fault
  /\ Return(c)
  /\ UNCHANGED <<obj, cache, broker, now>>

(* The engine makes the broker's state that of c; the locks go before the  *)
(* status write.                                                           *)
Engine(c) ==
  /\ pc[c] = "engine"
  /\ broker' = [cr |-> c, uid |-> copy[c].uid]
  /\ Unlock(c)
  /\ Report(c, "ready")
  /\ UNCHANGED <<obj, cache, copy, now, budgets>>

(* Mutant: the engine's error does not reach the status.                   *)
EngineFailsSwallowed(c) ==
  /\ pc[c] = "engine"
  /\ broker' \in {broker, [cr |-> c, uid |-> copy[c].uid]}
  /\ Unlock(c)
  /\ Report(c, "ready")
  /\ Fault
  /\ UNCHANGED <<obj, cache, copy, now>>

(* It may fail before or after the broker took the change.                 *)
EngineFails(c) ==
  /\ pc[c] = "engine"
  /\ broker' \in {broker, [cr |-> c, uid |-> copy[c].uid]}
  /\ Unlock(c)
  /\ Report(c, "error")
  /\ Fault
  /\ UNCHANGED <<obj, cache, copy, now>>

(* updateStatus: re-read through the cache, written with that version.     *)
UpdateStatus(c) ==
  /\ pc[c] = "status"
  /\ obj[c].exists
  /\ cache[c] = obj[c]
  /\ obj' = [obj EXCEPT ![c].status = result[c]]
  /\ Return(c)
  /\ UNCHANGED <<cache, broker, now, budgets>>

UpdateStatusFails(c) ==
  /\ pc[c] = "status"
  /\ \/ (cache[c] # obj[c] \/ ~obj[c].exists) /\ UNCHANGED budgets
     \/ cache[c] = obj[c] /\ obj[c].exists /\ Fault
  /\ Return(c)
  /\ UNCHANGED <<obj, cache, broker, now>>

-----------------------------------------------------------------------------
(* The deletion path.                                                      *)

(* An orphaning user needs no scan.                                        *)
CoClaimantScan(c) ==
  /\ pc[c] = "coScan"
  /\ Goto(c, IF copy[c].onDelete = "Orphan" \/ findLiveCoClaimant(c, cache)
               THEN "removeFinalizer" ELSE "coRecheck")
  /\ UNCHANGED <<obj, cache, copy, result, locks, broker, now, budgets>>

(* The quorum recheck, before broker state is destroyed.                   *)
CoClaimantRecheck(c) ==
  /\ pc[c] = "coRecheck"
  /\ Goto(c, IF findLiveCoClaimant(c, obj) THEN "removeFinalizer" ELSE "cleanup")
  /\ UNCHANGED <<obj, cache, copy, result, locks, broker, now, budgets>>

(* Mutant: the scan is best-effort, as the deletion of the credential is.  *)
CoClaimantScanBestEffort(c) ==
  /\ pc[c] \in {"coScan", "coRecheck"}
  /\ Fault
  /\ Goto(c, "cleanup")
  /\ UNCHANGED <<obj, cache, copy, result, locks, broker, now>>

(* The scan is not best-effort: a failure retries the deletion.            *)
CoClaimantScanFails(c) ==
  /\ pc[c] \in {"coScan", "coRecheck"}
  /\ Fault
  /\ Return(c)
  /\ UNCHANGED <<obj, cache, broker, now>>

(* DeleteScramCredential, DeleteQuota or DeleteTopic.  The topic's lock    *)
(* ends with deleteTopicState.                                             *)
Cleanup(c) ==
  /\ pc[c] = "cleanup"
  /\ broker' = Nobody
  /\ Goto(c, "removeFinalizer")
  /\ aclLock' = IF aclLock = c THEN Nobody ELSE aclLock
  /\ UNCHANGED <<obj, cache, copy, result, idLock, now, budgets>>

(* A user's deletion is best-effort, a topic's is retried.                 *)
CleanupFails(c) ==
  /\ pc[c] = "cleanup"
  /\ broker' \in {broker, Nobody}
  /\ \/ /\ kind = "KafkaUser"
        /\ Goto(c, "removeFinalizer")
        /\ UNCHANGED <<copy, result, locks>>
     \/ kind = "KafkaTopic" /\ Return(c)
  /\ Fault
  /\ UNCHANGED <<obj, cache, now>>

removeFinalizer(c) ==
  /\ pc[c] = "removeFinalizer"
  /\ obj[c] = copy[c]
  /\ obj' = [obj EXCEPT ![c] = NoObject(obj[c].uid)]
  /\ Return(c)
  /\ UNCHANGED <<cache, broker, now, budgets>>

-----------------------------------------------------------------------------
(* The environment.                                                        *)

UserStep ==
  /\ userOps < MaxUserOps
  /\ userOps' = userOps + 1
  /\ UNCHANGED <<kind, cache, pc, copy, result, locks, broker, faults>>

(* The admission webhook is off, as it is by default.  Timestamps have     *)
(* whole seconds: an object may be created in the second of the one before.*)
Create(c, t, p) ==
  /\ ~obj[c].exists
  /\ p \in PoliciesOf
  /\ t \in {now, now + 1}
  /\ now' = t
  /\ obj' = [obj EXCEPT ![c] = NewObject(obj[c].uid + 1, t, p)]
  /\ UserStep

Delete(c) ==
  /\ Live(obj[c])
  /\ obj' = [obj EXCEPT ![c] = IF @.finalizer THEN [@ EXCEPT !.deleting = TRUE]
                                              ELSE NoObject(@.uid)]
  /\ UNCHANGED now
  /\ UserStep

Annotate(c) ==
  /\ obj[c].exists
  /\ \/ ~obj[c].force /\ obj' = [obj EXCEPT ![c].force = TRUE]
     \/ obj[c].onDelete = "Unapproved" /\ obj' = [obj EXCEPT ![c].onDelete = "Delete"]
  /\ UNCHANGED now
  /\ UserStep

CacheSync(c) ==
  /\ cache[c] # obj[c]
  /\ cache' = [cache EXCEPT ![c] = obj[c]]
  /\ UNCHANGED <<obj, pc, copy, result, locks, broker, now, budgets>>

Crash ==
  /\ Fault
  /\ cache' = obj
  /\ pc' = [c \in CRs |-> "idle"]
  /\ copy' = [c \in CRs |-> NoObject(0)]
  /\ result' = [c \in CRs |-> "none"]
  /\ idLock' = Nobody
  /\ aclLock' = Nobody
  /\ UNCHANGED <<obj, broker, now>>

-----------------------------------------------------------------------------

ReconcileStep(c) ==
  \/ Reconcile(c) \/ lockIdentity(c) \/ lockSubstrate(c)
  \/ duplicateIdentityGate(c) \/ GateRecheck(c) \/ EnsureFinalizer(c) \/ Engine(c)
  \/ UpdateStatus(c) \/ UpdateStatusFails(c) \/ UpdateFails(c)
  \/ CoClaimantScan(c) \/ CoClaimantRecheck(c) \/ Cleanup(c) \/ removeFinalizer(c)

FaultStep(c) ==
  \/ Unreachable(c) \/ GateFails(c) \/ EngineFails(c) \/ CoClaimantScanFails(c)
  \/ CleanupFails(c)

Next ==
  \/ \E c \in CRs : ReconcileStep(c) \/ FaultStep(c) \/ CacheSync(c)
  \/ \E c \in CRs : Delete(c) \/ Annotate(c)
  \/ \E c \in CRs, t \in {now, now + 1}, p \in Policies : Create(c, t, p)
  \/ Crash

Spec == Init /\ [][Next]_vars

(* Resync, backoff and the watch are as in AclSubstrate.                   *)
FairSpec == Spec /\ \A c \in CRs : SF_vars(ReconcileStep(c)) /\ WF_vars(CacheSync(c))

-----------------------------------------------------------------------------
(* Properties.                                                             *)

(* A claimant never gets past the gate while a live claimant created in an *)
(* earlier second exists, however far the cache lags: the quorum recheck   *)
(* of a CR that has never been Ready closes that window for good.          *)
YoungerNeverMutates ==
  \A c, d \in CRs :
    pc[c] \in {"finalizer", "lockACL", "engine"} /\ Live(obj[d])
      => obj[d].created >= copy[c].created

(* As long as some live user reports Ready, the broker holds a credential  *)
(* for the identity: no finalizer of another claimant has removed it.      *)
ReadyHasBrokerState ==
  kind = "KafkaUser" /\ (\E c \in CRs : Live(obj[c]) /\ obj[c].status = "ready") => broker # Nobody

(* This step destroys the broker state that live claimant d counts on: it  *)
(* has been through the gate, and is Ready or waits as a duplicate.        *)
CleanupHurts(d) ==
  /\ \E c \in CRs \ {d} : pc[c] = "cleanup" /\ pc'[c] # "cleanup" /\ broker' = Nobody
  /\ Live(obj[d])
  /\ obj[d].status \in {"ready", "duplicate"}

(* The finalizer of a user or a quota leaves the broker state to any other *)
(* claimant that has been through the gate: the winner's state when a      *)
(* loser is deleted, and a waiting loser's inheritance when the winner is. *)
CleanupSparesClaimants ==
  [][kind = "KafkaUser" => \A d \in CRs : ~CleanupHurts(d)]_vars

Oldest(c) ==
  /\ Live(obj[c])
  /\ \A d \in CRs \ {c} : Live(obj[d]) => olderIdentityClaim(c, d, obj[c], obj[d])

(* No last-writer-wins flapping: once users and faults stop, exactly the   *)
(* oldest live claimant is Ready, the others are terminal duplicates, and  *)
(* the broker holds the oldest one's values for good.                      *)
SettlesOnOldest ==
  <>[](\A c \in CRs : Live(obj[c]) =>
         IF Oldest(c) THEN obj[c].status = "ready" /\ broker = [cr |-> c, uid |-> obj[c].uid]
                      ELSE obj[c].status = "duplicate")

=============================================================================
