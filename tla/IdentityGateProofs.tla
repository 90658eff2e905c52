------------------------- MODULE IdentityGateProofs -------------------------
(***************************************************************************)
(* Proofs about the duplicate-identity gate: no claimant with an elder     *)
(* gets past it however far the cache lags, and a user's or a quota's      *)
(* finalizer spares the broker state that other claimants rely on.         *)
(***************************************************************************)
EXTENDS IdentityGate, TLAPS

-----------------------------------------------------------------------------
(* Inductive invariants.                                                   *)

(* o is an earlier version of p, or of an object p's name had before.      *)
Earlier(o, p) ==
  /\ o.uid <= p.uid
  /\ o.uid = p.uid /\ p.exists
       => o.exists /\ o.created = p.created /\ (o.deleting => p.deleting)

(* A reconcile works on a version no newer than the cache's, and that one  *)
(* is no newer than the API server's.                                      *)
VersionInv ==
  \A c \in CRs :
    /\ Earlier(copy[c], cache[c])
    /\ Earlier(cache[c], obj[c])
    /\ obj[c].exists => obj[c].uid # 0
    /\ cache[c].exists => cache[c].uid # 0

TimeInv ==
  \A c \in CRs : obj[c].created <= now /\ cache[c].created <= now /\ copy[c].created <= now

LivePath     == {"lock", "gate", "recheck", "finalizer", "lockACL", "engine"}
DeletionPath == {"lockDelete", "coScan", "coRecheck", "cleanup", "removeFinalizer"}

PathInv ==
  \A c \in CRs :
    /\ pc[c] \in LivePath => copy[c].exists /\ ~copy[c].deleting
    /\ pc[c] \in DeletionPath => copy[c].exists /\ copy[c].deleting

(* The engine has run for c and the outcome is still to be written.        *)
Applied(c) == pc[c] = "status" /\ result[c] = "ready"

(* The object o is a version of is still there, held by its finalizer.     *)
Pinned(c, o) == obj[c].exists /\ obj[c].uid = o.uid /\ obj[c].finalizer

PinInv ==
  \A c \in CRs :
    /\ cache[c].exists /\ cache[c].finalizer /\ ~cache[c].deleting => Pinned(c, cache[c])
    /\ pc[c] \in LivePath /\ copy[c].finalizer => Pinned(c, copy[c])
    /\ pc[c] \in {"lockACL", "engine"} \/ Applied(c) => Pinned(c, copy[c])

(* No live claimant was created in a second before o's.                    *)
NoElder(o) == \A d \in CRs : Live(obj[d]) => obj[d].created >= o.created

(* Whoever has been Ready, or has passed the gate, has no elder, and will  *)
(* not get one.                                                            *)
ElderInv ==
  \A c \in CRs :
    /\ obj[c].exists /\ obj[c].status = "ready" => NoElder(obj[c])
    /\ cache[c].exists /\ cache[c].status = "ready" => NoElder(cache[c])
    /\ copy[c].exists /\ copy[c].status = "ready" => NoElder(copy[c])
    /\ pc[c] \in {"finalizer", "lockACL", "engine"} \/ Applied(c) => NoElder(copy[c])

GateInv == VersionInv /\ TimeInv /\ PathInv /\ PinInv /\ ElderInv

(* Users: the sections that the identity lock serialises.                  *)
Guarded == {"gate", "recheck", "finalizer", "engine", "coScan", "coRecheck", "cleanup"}

LockInv ==
  \A c \in CRs :
    /\ pc[c] # "lockACL"
    /\ pc[c] \in Guarded => idLock = c
    /\ pc[c] = "status" /\ result[c] = "duplicate" => idLock = c

(* While a finalizer cleans up, the live claimants are ones that came      *)
(* after its recheck and have not been through the gate.                   *)
SpareInv ==
  \A c \in CRs : pc[c] = "cleanup" =>
    \A d \in CRs : Live(obj[d]) => obj[d].status \notin {"ready", "duplicate"} /\ ~obj[d].finalizer

BrokerInv ==
  \A c \in CRs : Live(obj[c]) /\ (obj[c].status = "ready" \/ Applied(c)) => broker # Nobody

UserInv == kind = "KafkaUser" => LockInv /\ SpareInv /\ BrokerInv

-----------------------------------------------------------------------------
(* Steps.                                                                  *)

UserAct(a) ==
  Delete(a) \/ Annotate(a) \/ \E t \in {now, now + 1}, p \in Policies : Create(a, t, p)

(* A step for or of claimant a.                                            *)
Act(a) == ReconcileStep(a) \/ FaultStep(a) \/ CacheSync(a) \/ UserAct(a)

(* What a step may do to the object of claimant a.                         *)
Modified(a) ==
  /\ obj[a].exists /\ obj'[a].exists
  /\ obj'[a].uid = obj[a].uid /\ obj'[a].created = obj[a].created
  /\ obj[a].deleting => obj'[a].deleting
  /\ obj[a].finalizer => obj'[a].finalizer
  /\ obj'[a].finalizer /\ ~obj[a].finalizer => EnsureFinalizer(a)
  /\ obj'[a].status = obj[a].status \/ (UpdateStatus(a) /\ obj'[a].status = result[a])

Removed(a) ==
  /\ obj[a].exists /\ ~obj'[a].exists
  /\ obj'[a].uid = obj[a].uid /\ obj'[a].created = 0
  /\ ~obj[a].finalizer \/ (removeFinalizer(a) /\ obj[a] = copy[a])

Added(a) ==
  /\ ~obj[a].exists /\ obj'[a].exists
  /\ obj'[a].uid = obj[a].uid + 1 /\ obj'[a].created = now'
  /\ ~obj'[a].finalizer /\ ~obj'[a].deleting /\ obj'[a].status = "none"

(* A step of the system is a restart or a step of one claimant.            *)
LEMMA NextIsAct == Next <=> Crash \/ \E a \in CRs : Act(a)
BY DEF Next, Act, UserAct

(* The objects that stand for no object and for a new claim.               *)
LEMMA NewObjects ==
  ASSUME NEW u \in Nat
  PROVE  /\ NoObject(u) \in Object /\ ~NoObject(u).exists /\ NoObject(u).uid = u
         /\ NoObject(u).created = 0 /\ NoObject(u).status = "none" /\ ~NoObject(u).finalizer
         /\ \A t \in Nat, p \in Policies :
              /\ NewObject(u, t, p) \in Object /\ NewObject(u, t, p).exists
              /\ NewObject(u, t, p).uid = u /\ NewObject(u, t, p).created = t
              /\ ~NewObject(u, t, p).deleting /\ ~NewObject(u, t, p).finalizer
              /\ NewObject(u, t, p).status = "none"
<1>. DEFINE q == CHOOSE p \in Policies : TRUE
<1>1. q \in Policies
  BY PoliciesAssumption
<1>2. NoObject(u) = [exists |-> FALSE, uid |-> u, created |-> 0, onDelete |-> q, force |-> FALSE,
                     deleting |-> FALSE, finalizer |-> FALSE, status |-> "none"]
  BY DEF NoObject
<1>. HIDE DEF q
<1>3. NoObject(u) \in Object
  BY <1>1, <1>2 DEF Object
<1>4. /\ ~NoObject(u).exists /\ NoObject(u).uid = u /\ NoObject(u).created = 0
      /\ NoObject(u).status = "none" /\ ~NoObject(u).finalizer /\ ~NoObject(u).deleting
  BY <1>2
<1>5. ASSUME NEW t \in Nat, NEW p \in Policies
      PROVE  /\ NewObject(u, t, p) \in Object /\ NewObject(u, t, p).exists
             /\ NewObject(u, t, p).uid = u /\ NewObject(u, t, p).created = t
             /\ ~NewObject(u, t, p).deleting /\ ~NewObject(u, t, p).finalizer
             /\ NewObject(u, t, p).status = "none"
  BY <1>3, <1>4, <1>5 DEF NewObject, Object
<1>. QED  BY <1>3, <1>4, <1>5

(* What changing the finalizer, the deletion, an annotation or the status *)
(* of an object leaves as it was.                                          *)
Keeps(o, q) ==
  /\ q \in Object /\ (o.exists => q.exists) /\ q.uid = o.uid /\ q.created = o.created
  /\ o.deleting => q.deleting
  /\ o.finalizer => q.finalizer

(* A step for a leaves the other claimants' objects alone and turns a's    *)
(* into a later version of it, none, or a new one.                         *)
LEMMA ObjectStep ==
  ASSUME TypeOK, PathInv, NEW a \in CRs, Act(a)
  PROVE  /\ obj' \in [CRs -> Object] /\ now' \in Nat /\ now' >= now
         /\ \A c \in CRs \ {a} : obj'[c] = obj[c]
         /\ obj'[a] = obj[a] \/ Modified(a) \/ Removed(a) \/ Added(a)
<1>0. obj \in [CRs -> Object] /\ obj[a] \in Object /\ obj[a].uid \in Nat /\ now \in Nat
      /\ result[a] \in {"none", "ready", "error", "duplicate"}
  BY DEF TypeOK, Object
<1>1. ASSUME NEW o, obj' = [obj EXCEPT ![a] = o]
      PROVE  /\ obj'[a] = o /\ \A c \in CRs \ {a} : obj'[c] = obj[c]
             /\ obj'[a] \in Object => obj' \in [CRs -> Object]
  BY <1>0, <1>1
<1>2. CASE UNCHANGED <<obj, now>>
  BY <1>0, <1>2
<1>3. CASE EnsureFinalizer(a) /\ obj' # obj
  <2>1. PICK o : o = [obj[a] EXCEPT !.finalizer = TRUE] /\ obj' = [obj EXCEPT ![a] = o] /\ now' = now
    BY <1>3 DEF EnsureFinalizer
  <2>2. obj[a].exists
    BY <1>3 DEF EnsureFinalizer, PathInv, LivePath
  <2>3. Keeps(obj[a], o) /\ o.status = obj[a].status
    BY <1>0, <2>1 DEF Object, Keeps
  <2>4. obj'[a] = o /\ \A c \in CRs \ {a} : obj'[c] = obj[c]
    BY <1>1, <2>1
  <2>5. Modified(a) /\ obj' \in [CRs -> Object]
    BY <1>1, <1>3, <2>1, <2>2, <2>3, <2>4 DEF Modified, Keeps
  <2>. QED  BY <1>0, <2>1, <2>4, <2>5
<1>4. CASE UpdateStatus(a)
  <2>1. PICK o : /\ o = [obj[a] EXCEPT !.status = result[a]] /\ obj' = [obj EXCEPT ![a] = o]
                 /\ now' = now /\ obj[a].exists
    BY <1>4 DEF UpdateStatus
  <2>2. Keeps(obj[a], o) /\ o.status = result[a] /\ (o.finalizer => obj[a].finalizer)
    BY <1>0, <2>1 DEF Object, Keeps
  <2>3. obj'[a] = o /\ \A c \in CRs \ {a} : obj'[c] = obj[c]
    BY <1>1, <2>1
  <2>4. Modified(a) /\ obj' \in [CRs -> Object]
    BY <1>1, <1>4, <2>1, <2>2, <2>3 DEF Modified, Keeps
  <2>. QED  BY <1>0, <2>1, <2>3, <2>4
<1>5. CASE removeFinalizer(a)
  <2>1. now' = now /\ obj[a] = copy[a] /\ obj' = [obj EXCEPT ![a] = NoObject(obj[a].uid)]
    BY <1>5 DEF removeFinalizer
  <2>2. obj[a].exists
    BY <1>5, <2>1 DEF removeFinalizer, PathInv, DeletionPath
  <2>3. obj'[a] = NoObject(obj[a].uid)
    BY <1>1, <2>1
  <2>4. Removed(a) /\ obj'[a] \in Object
    BY <1>0, <1>5, <2>1, <2>2, <2>3, NewObjects DEF Removed
  <2>. QED  BY <1>0, <1>1, <2>1, <2>4
<1>6. CASE Delete(a)
  <2>1. now' = now /\ obj[a].exists
    BY <1>6 DEF Delete, Live
  <2>2. CASE obj[a].finalizer
    <3>1. PICK o : o = [obj[a] EXCEPT !.deleting = TRUE] /\ obj' = [obj EXCEPT ![a] = o]
      BY <1>6, <2>2 DEF Delete
    <3>2. Keeps(obj[a], o) /\ o.status = obj[a].status
      BY <1>0, <3>1 DEF Object, Keeps
    <3>3. obj'[a] = o /\ \A c \in CRs \ {a} : obj'[c] = obj[c]
      BY <1>1, <3>1
    <3>4. Modified(a) /\ obj' \in [CRs -> Object]
      BY <1>1, <2>1, <2>2, <3>1, <3>2, <3>3 DEF Modified, Keeps
    <3>. QED  BY <1>0, <2>1, <3>3, <3>4
  <2>3. CASE ~obj[a].finalizer
    <3>1. obj' = [obj EXCEPT ![a] = NoObject(obj[a].uid)]
      BY <1>6, <2>3 DEF Delete
    <3>2. obj'[a] = NoObject(obj[a].uid)
      BY <1>1, <3>1
    <3>3. Removed(a) /\ obj'[a] \in Object
      BY <1>0, <2>1, <2>3, <3>2, NewObjects DEF Removed
    <3>. QED  BY <1>0, <1>1, <2>1, <3>1, <3>3
  <2>. QED  BY <2>2, <2>3
<1>7. CASE Annotate(a)
  <2>1. now' = now /\ obj[a].exists
    BY <1>7 DEF Annotate
  <2>2. PICK o : /\ obj' = [obj EXCEPT ![a] = o]
                 /\ o \in {[obj[a] EXCEPT !.force = TRUE], [obj[a] EXCEPT !.onDelete = "Delete"]}
    BY <1>7 DEF Annotate
  <2>3. /\ Keeps(obj[a], o) /\ o.status = obj[a].status
        /\ o.finalizer => obj[a].finalizer
    BY <1>0, <2>2, PoliciesAssumption DEF Object, Keeps
  <2>4. obj'[a] = o /\ \A c \in CRs \ {a} : obj'[c] = obj[c]
    BY <1>1, <2>2
  <2>5. Modified(a) /\ obj' \in [CRs -> Object]
    BY <1>1, <2>1, <2>2, <2>3, <2>4 DEF Modified, Keeps
  <2>. QED  BY <1>0, <2>1, <2>4, <2>5
<1>8. ASSUME NEW t \in {now, now + 1}, NEW p \in Policies, Create(a, t, p)
      PROVE  /\ obj' \in [CRs -> Object] /\ now' \in Nat /\ now' >= now
             /\ \A c \in CRs \ {a} : obj'[c] = obj[c]
             /\ Added(a)
  <2>1. /\ ~obj[a].exists /\ now' = t
        /\ obj' = [obj EXCEPT ![a] = NewObject(obj[a].uid + 1, t, p)]
    BY <1>8 DEF Create
  <2>2. t \in Nat /\ now' >= now /\ obj[a].uid + 1 \in Nat
    BY <1>0, <2>1
  <2>3. obj'[a] = NewObject(obj[a].uid + 1, t, p)
    BY <1>1, <2>1
  <2>4. Added(a) /\ obj'[a] \in Object
    BY <2>1, <2>2, <2>3, NewObjects DEF Added
  <2>. QED  BY <1>1, <2>1, <2>2, <2>4
<1>. QED
  BY <1>2, <1>3, <1>4, <1>5, <1>6, <1>7, <1>8 DEF Act, UserAct, ReconcileStep, FaultStep,
     Reconcile, lockIdentity, lockSubstrate, duplicateIdentityGate, GateRecheck, EnsureFinalizer,
     Engine, UpdateStatusFails, UpdateFails, CoClaimantScan, CoClaimantRecheck, Cleanup,
     Unreachable, GateFails, EngineFails, CoClaimantScanFails, CleanupFails, CacheSync

(* The version a's reconcile works on: the one it had, the cache's, the    *)
(* one it has just added the finalizer to, or none.                        *)
CopyMove(a) ==
  \/ copy'[a] = copy[a]
  \/ copy'[a] = cache[a] /\ pc[a] = "idle" /\ UNCHANGED <<obj, cache>>
  \/ copy'[a] = NoObject(0) /\ pc'[a] = "idle" /\ UNCHANGED cache
  \/ copy'[a] = obj'[a] /\ obj[a] = copy[a] /\ EnsureFinalizer(a)

(* Everything of the other claimants stays.                                *)
OthersStay(a) ==
  \A c \in CRs \ {a} :
    pc'[c] = pc[c] /\ result'[c] = result[c] /\ copy'[c] = copy[c] /\ cache'[c] = cache[c]

(* What a step for a does to the reconciles and to the cache.              *)
LEMMA ReconcileMoves ==
  ASSUME TypeOK, PathInv, NEW a \in CRs, Act(a)
  PROVE  /\ OthersStay(a) /\ CopyMove(a)
         /\ cache'[a] = cache[a] \/ (cache'[a] = obj[a] /\ UNCHANGED <<obj, pc, copy, result>>)
         /\ pc' \in [CRs -> PCs]
         /\ result' \in [CRs -> {"none", "ready", "error", "duplicate"}]
         /\ copy' \in [CRs -> Object] /\ cache' \in [CRs -> Object]
<1>. USE DEF OthersStay, CopyMove, locks, budgets
<1>0. /\ obj \in [CRs -> Object] /\ cache \in [CRs -> Object] /\ copy \in [CRs -> Object]
      /\ pc \in [CRs -> PCs] /\ result \in [CRs -> {"none", "ready", "error", "duplicate"}]
      /\ obj' \in [CRs -> Object] /\ NoObject(0) \in Object
  BY ObjectStep, NewObjects DEF TypeOK
<1>1. CASE Reconcile(a) \/ Unreachable(a)
  <2>1. /\ UNCHANGED <<obj, cache>>
        /\ copy' = copy \/ (copy' = [copy EXCEPT ![a] = cache[a]] /\ pc[a] = "idle")
        /\ \E l \in PCs : pc' = [pc EXCEPT ![a] = l]
        /\ result' = result \/ result' = [result EXCEPT ![a] = "error"]
    BY <1>1 DEF Reconcile, Unreachable, Goto, Report, PCs
  <2>. QED  BY <1>0, <2>1
<1>2. CASE lockIdentity(a) \/ lockSubstrate(a) \/ duplicateIdentityGate(a) \/ CoClaimantScan(a)
             \/ CoClaimantRecheck(a) \/ Cleanup(a)
  <2>1. UNCHANGED <<obj, cache, copy, result>> /\ \E l \in PCs : pc' = [pc EXCEPT ![a] = l]
    BY <1>2 DEF lockIdentity, lockSubstrate, duplicateIdentityGate, CoClaimantScan,
       CoClaimantRecheck, Cleanup, Goto, PCs
  <2>. QED  BY <1>0, <2>1
<1>3. CASE GateRecheck(a) \/ GateFails(a) \/ Engine(a) \/ EngineFails(a)
  <2>1. /\ UNCHANGED <<obj, cache, copy>> /\ \E l \in PCs : pc' = [pc EXCEPT ![a] = l]
        /\ \/ UNCHANGED result
           \/ \E r \in {"none", "ready", "error", "duplicate"} : result' = [result EXCEPT ![a] = r]
    BY <1>3 DEF GateRecheck, GateFails, Engine, EngineFails, Goto, Report, PCs
  <2>. QED  BY <1>0, <2>1
<1>4. CASE EnsureFinalizer(a)
  <2>1. /\ UNCHANGED <<cache, result>>
        /\ \E l \in PCs : pc' = [pc EXCEPT ![a] = l]
        /\ UNCHANGED copy \/ (copy' = [copy EXCEPT ![a] = obj'[a]] /\ obj[a] = copy[a])
    BY <1>4 DEF EnsureFinalizer, Goto, PCs
  <2>. QED  BY <1>0, <1>4, <2>1
<1>5. CASE UpdateStatus(a) \/ UpdateStatusFails(a) \/ UpdateFails(a) \/ removeFinalizer(a)
             \/ CoClaimantScanFails(a) \/ (CleanupFails(a) /\ Return(a))
  <2>1. UNCHANGED cache /\ Return(a)
    BY <1>5 DEF UpdateStatus, UpdateStatusFails, UpdateFails, removeFinalizer, CoClaimantScanFails,
       CleanupFails
  <2>. QED  BY <1>0, <2>1 DEF Return, Goto, PCs
<1>6. CASE CleanupFails(a) /\ ~Return(a)
  <2>1. UNCHANGED <<obj, cache, copy, result>> /\ \E l \in PCs : pc' = [pc EXCEPT ![a] = l]
    BY <1>6 DEF CleanupFails, Goto, PCs
  <2>. QED  BY <1>0, <2>1
<1>7. CASE CacheSync(a)
  BY <1>0, <1>7 DEF CacheSync
<1>8. CASE UserAct(a)
  <2>1. UNCHANGED <<cache, copy, pc, result>>
    BY <1>8 DEF UserAct, Delete, Annotate, Create, UserStep
  <2>. QED  BY <1>0, <2>1
<1>. QED
  BY <1>1, <1>2, <1>3, <1>4, <1>5, <1>6, <1>7, <1>8 DEF Act, ReconcileStep, FaultStep

(* The version a reconcile works on is live on the way to the engine, and  *)
(* one being deleted on the way to the finalizer's removal.                *)
LEMMA PathStep ==
  ASSUME TypeOK, PathInv, NEW a \in CRs, Act(a)
  PROVE  PathInv'
<1>. USE DEF locks, budgets, Goto, LivePath, DeletionPath
<1>0. /\ cache[a] \in Object /\ copy[a] \in Object /\ pc \in [CRs -> PCs] /\ copy \in [CRs -> Object]
  BY DEF TypeOK
<1>1. SUFFICES /\ pc'[a] \in LivePath => copy'[a].exists /\ ~copy'[a].deleting
               /\ pc'[a] \in DeletionPath => copy'[a].exists /\ copy'[a].deleting
  BY ReconcileMoves DEF PathInv, OthersStay
<1>2. CASE Reconcile(a)
  BY <1>0, <1>2 DEF Reconcile
<1>3. CASE Unreachable(a)
  <2>1. copy'[a].exists
    BY <1>0, <1>3 DEF Unreachable, PathInv
  <2>2. \/ pc'[a] \in {"status", "idle"}
        \/ pc'[a] = "removeFinalizer" /\ copy'[a].deleting
    BY <1>0, <1>3 DEF Unreachable, Report
  <2>. QED  BY <2>1, <2>2
<1>4. CASE EnsureFinalizer(a)
  <2>1. pc[a] = "finalizer" /\ pc'[a] \in {"lockACL", "engine"}
    BY <1>0, <1>4 DEF EnsureFinalizer
  <2>2. copy[a].exists /\ ~copy[a].deleting
    BY <2>1 DEF PathInv
  <2>3. copy'[a] = copy[a] \/ (obj[a] = copy[a] /\ copy'[a] = [copy[a] EXCEPT !.finalizer = TRUE])
    BY <1>0, <1>4 DEF EnsureFinalizer, TypeOK
  <2>4. copy'[a].exists /\ ~copy'[a].deleting
    BY <1>0, <2>2, <2>3 DEF Object
  <2>. QED  BY <2>1, <2>4
<1>5. CASE UNCHANGED <<pc, copy>>
  BY <1>5 DEF PathInv
<1>6. CASE lockIdentity(a) \/ lockSubstrate(a) \/ duplicateIdentityGate(a) \/ GateRecheck(a)
             \/ GateFails(a) \/ Engine(a) \/ EngineFails(a) \/ CoClaimantScan(a)
             \/ CoClaimantRecheck(a) \/ Cleanup(a) \/ (CleanupFails(a) /\ ~Return(a))
  <2>1. /\ UNCHANGED copy
        /\ \/ pc'[a] = "status"
           \/ pc[a] \in LivePath /\ pc'[a] \in LivePath
           \/ pc[a] \in DeletionPath /\ pc'[a] \in DeletionPath
    BY <1>0, <1>6 DEF lockIdentity, lockSubstrate, duplicateIdentityGate, GateRecheck, GateFails,
       Engine, EngineFails, CoClaimantScan, CoClaimantRecheck, Cleanup, CleanupFails, Report
  <2>. QED  BY <2>1 DEF PathInv
<1>7. CASE UpdateStatus(a) \/ UpdateStatusFails(a) \/ UpdateFails(a) \/ removeFinalizer(a)
             \/ CoClaimantScanFails(a) \/ (CleanupFails(a) /\ Return(a))
  <2>1. pc'[a] = "idle"
    BY <1>0, <1>7 DEF UpdateStatus, UpdateStatusFails, UpdateFails, removeFinalizer,
       CoClaimantScanFails, CleanupFails, Return
  <2>. QED  BY <2>1
<1>. QED
  BY <1>2, <1>3, <1>4, <1>5, <1>6, <1>7 DEF Act, UserAct, ReconcileStep, FaultStep, CacheSync,
     Delete, Annotate, Create, UserStep

(* A restart forgets the reconciles and reads everything anew.             *)
LEMMA CrashStep ==
  ASSUME Crash
  PROVE  /\ UNCHANGED <<obj, broker, now, kind, userOps>> /\ cache' = obj /\ idLock' = Nobody
         /\ aclLock' = Nobody /\ faults' = faults + 1
         /\ \A c \in CRs : pc'[c] = "idle" /\ copy'[c] = NoObject(0) /\ result'[c] = "none"
BY DEF Crash, Fault

(* Every step keeps the types.                                             *)
LEMMA TypeStep == TypeOK /\ PathInv /\ [Next]_vars => TypeOK' /\ PathInv'
<1>. SUFFICES ASSUME TypeOK, PathInv, [Next]_vars PROVE TypeOK' /\ PathInv'
  OBVIOUS
<1>. USE DEF locks, budgets
<1>1. ASSUME NEW a \in CRs, Act(a) PROVE TypeOK' /\ PathInv'
  <2>1. kind' = kind /\ userOps' \in Nat /\ faults' \in Nat
    BY <1>1 DEF TypeOK, Act, ReconcileStep, FaultStep, UserAct, CacheSync, Delete, Annotate, Create,
       UserStep, Fault, Reconcile, lockIdentity, lockSubstrate, duplicateIdentityGate, GateRecheck,
       EnsureFinalizer, Engine, UpdateStatus, UpdateStatusFails, UpdateFails, CoClaimantScan,
       CoClaimantRecheck, Cleanup, removeFinalizer, Unreachable, GateFails, EngineFails,
       CoClaimantScanFails, CleanupFails
  <2>2. idLock' \in {idLock, a, Nobody} /\ aclLock' \in {aclLock, a, Nobody}
    BY <1>1 DEF Act, ReconcileStep, FaultStep, UserAct, CacheSync, Delete, Annotate, Create,
       UserStep, Reconcile, lockIdentity, lockSubstrate, duplicateIdentityGate, GateRecheck,
       EnsureFinalizer, Engine, UpdateStatus, UpdateStatusFails, UpdateFails, CoClaimantScan,
       CoClaimantRecheck, Cleanup, removeFinalizer, Unreachable, GateFails, EngineFails,
       CoClaimantScanFails, CleanupFails, Return, Unlock
  <2>3. broker' \in {broker, Nobody, [cr |-> a, uid |-> copy[a].uid]}
    BY <1>1 DEF Act, ReconcileStep, FaultStep, UserAct, CacheSync, Delete, Annotate, Create,
       UserStep, Reconcile, lockIdentity, lockSubstrate, duplicateIdentityGate, GateRecheck,
       EnsureFinalizer, Engine, UpdateStatus, UpdateStatusFails, UpdateFails, CoClaimantScan,
       CoClaimantRecheck, Cleanup, removeFinalizer, Unreachable, GateFails, EngineFails,
       CoClaimantScanFails, CleanupFails
  <2>4. [cr |-> a, uid |-> copy[a].uid] \in Writers
    BY DEF TypeOK, Object, Writers
  <2>. QED  BY <1>1, <2>1, <2>2, <2>3, <2>4, ObjectStep, ReconcileMoves, PathStep DEF TypeOK
<1>2. CASE Crash
  <2>1. NoObject(0) \in Object
    BY NewObjects
  <2>. QED  BY <1>2, <2>1 DEF Crash, Fault, TypeOK, PathInv, LivePath, DeletionPath, PCs
<1>3. CASE UNCHANGED vars
  BY <1>3 DEF vars, TypeOK, PathInv
<1>. QED  BY <1>1, <1>2, <1>3, NextIsAct

(* The initial claims are well typed.                                      *)
LEMMA TypeInit == Init => TypeOK /\ PathInv
<1>. SUFFICES ASSUME Init PROVE TypeOK /\ PathInv
  OBVIOUS
<1>1. /\ NoObject(0) \in Object
      /\ \A p \in Policies : NewObject(1, 1, p) \in Object /\ NewObject(1, 2, p) \in Object
  BY NewObjects
<1>2. \A p \in Policies : [NewObject(1, 1, p) EXCEPT !.force = TRUE] \in Object
  BY <1>1 DEF Object
<1>3. \A p \in PoliciesOf : p \in Policies
  BY DEF PoliciesOf
<1>4. obj \in [CRs -> Object]
  BY <1>1, <1>2, <1>3 DEF Init
<1>. QED  BY <1>1, <1>4 DEF Init, TypeOK, PathInv, LivePath, DeletionPath, PCs

(* Every variable of the gate's model keeps its type.                      *)
THEOREM TypeCorrect == Spec => []TypeOK
<1>. QED  BY TypeInit, TypeStep, PTL DEF Spec

-----------------------------------------------------------------------------
(* The gate.                                                               *)

(* Being an earlier version is transitive.                                 *)
LEMMA EarlierTransitive ==
  ASSUME NEW o \in Object, NEW p \in Object, NEW q \in Object, Earlier(o, p), Earlier(p, q)
  PROVE  Earlier(o, q)
BY DEF Earlier, Object

(* An object only ever gets later versions.                                *)
LEMMA ObjectAdvances ==
  ASSUME TypeOK, PathInv, NEW a \in CRs, Act(a), NEW c \in CRs
  PROVE  Earlier(obj[c], obj'[c])
<1>1. obj[c] \in Object /\ obj'[c] \in Object
  BY ObjectStep DEF TypeOK
<1>2. obj'[c] = obj[c] \/ (c = a /\ (Modified(a) \/ Removed(a) \/ Added(a)))
  BY ObjectStep
<1>. QED  BY <1>1, <1>2 DEF Earlier, Object, Modified, Removed, Added

(* No step makes a reconcile or the cache run ahead of the API server.     *)
LEMMA VersionStep ==
  ASSUME TypeOK, PathInv, VersionInv, NEW a \in CRs, Act(a)
  PROVE  VersionInv'
<1>. SUFFICES ASSUME NEW c \in CRs
              PROVE  /\ Earlier(copy'[c], cache'[c]) /\ Earlier(cache'[c], obj'[c])
                     /\ obj'[c].exists => obj'[c].uid # 0
                     /\ cache'[c].exists => cache'[c].uid # 0
  BY DEF VersionInv
<1>0. /\ obj[c] \in Object /\ cache[c] \in Object /\ copy[c] \in Object
      /\ obj'[c] \in Object /\ cache'[c] \in Object /\ copy'[c] \in Object
  BY ObjectStep, ReconcileMoves DEF TypeOK
<1>1. Earlier(obj[c], obj'[c])
  BY ObjectAdvances
<1>2. obj'[c].exists => obj'[c].uid # 0
  <2>1. obj'[c] = obj[c] \/ (c = a /\ (Modified(a) \/ Removed(a) \/ Added(a)))
    BY ObjectStep
  <2>. QED  BY <1>0, <2>1 DEF VersionInv, Modified, Removed, Added, Object
<1>3. CASE cache'[c] = cache[c]
  <2>1. Earlier(cache'[c], obj'[c])
    BY <1>0, <1>1, <1>3, EarlierTransitive DEF VersionInv
  <2>2. Earlier(copy'[c], cache[c])
    <3>1. c # a => copy'[c] = copy[c]
      BY ReconcileMoves DEF OthersStay
    <3>2. CASE copy'[c] \in {copy[c], cache[c]}
      BY <1>0, <3>2 DEF VersionInv, Earlier, Object
    <3>3. CASE copy'[c] = NoObject(0)
      BY <1>0, <3>3, NewObjects DEF VersionInv, Earlier, Object
    <3>4. CASE c = a /\ copy'[a] = obj'[a] /\ obj[a] = copy[a] /\ EnsureFinalizer(a)
      <4>1. obj'[a] = obj[a] \/ obj'[a] = [obj[a] EXCEPT !.finalizer = TRUE]
        BY <3>4 DEF EnsureFinalizer, TypeOK
      <4>. QED  BY <1>0, <3>4, <4>1 DEF VersionInv, Earlier, Object
    <3>. QED  BY <3>1, <3>2, <3>3, <3>4, ReconcileMoves DEF CopyMove
  <2>. QED  BY <1>2, <1>3, <2>1, <2>2 DEF VersionInv
<1>4. CASE cache'[c] # cache[c]
  <2>1. c = a /\ cache'[c] = obj[c] /\ UNCHANGED <<obj, copy>>
    BY <1>4, ReconcileMoves DEF OthersStay
  <2>2. Earlier(copy[c], obj[c])
    BY <1>0, EarlierTransitive DEF VersionInv
  <2>3. Earlier(obj[c], obj[c])
    BY <1>0 DEF Earlier, Object
  <2>. QED  BY <1>2, <2>1, <2>2, <2>3
<1>. QED  BY <1>3, <1>4

(* No object is from the future.                                           *)
LEMMA TimeStep ==
  ASSUME TypeOK, PathInv, TimeInv, NEW a \in CRs, Act(a)
  PROVE  TimeInv'
<1>. SUFFICES ASSUME NEW c \in CRs
              PROVE  obj'[c].created <= now' /\ cache'[c].created <= now' /\ copy'[c].created <= now'
  BY DEF TimeInv
<1>0. /\ obj[c] \in Object /\ cache[c] \in Object /\ copy[c] \in Object
      /\ now \in Nat /\ now' \in Nat /\ now' >= now
  BY ObjectStep DEF TypeOK
<1>1. obj'[c].created <= now'
  <2>1. obj'[c] = obj[c] \/ (c = a /\ (Modified(a) \/ Removed(a) \/ Added(a)))
    BY ObjectStep
  <2>. QED  BY <1>0, <2>1 DEF TimeInv, Modified, Removed, Added, Object
<1>2. cache'[c] \in {cache[c], obj[c]}
  BY ReconcileMoves DEF OthersStay
<1>3. copy'[c] \in {copy[c], cache[c], NoObject(0), obj'[c]}
  BY ReconcileMoves DEF OthersStay, CopyMove
<1>. QED  BY <1>0, <1>1, <1>2, <1>3, NewObjects DEF TimeInv, Object

(* Where a reconcile came from when it is found on the way to the engine,  *)
(* past the gate, or done with the engine.                                 *)
LEMMA Arrivals ==
  ASSUME TypeOK, NEW a \in CRs, Act(a)
  PROVE  /\ pc'[a] \in LivePath =>
              \/ pc[a] \in LivePath /\ copy'[a] = copy[a]
              \/ copy'[a] = cache[a] /\ cache[a].exists /\ ~cache[a].deleting /\ UNCHANGED <<obj, cache>>
              \/ EnsureFinalizer(a)
         /\ pc'[a] = "finalizer" =>
              \/ pc[a] = "finalizer" /\ copy'[a] = copy[a]
              \/ /\ pc[a] \in LivePath /\ UNCHANGED <<obj, copy>>
                 /\ identityMaterialized(copy[a]) \/ ~findOlderClaim(a, obj)
         /\ pc'[a] \in {"lockACL", "engine"} =>
              (pc[a] \in {"lockACL", "engine"} /\ copy'[a] = copy[a]) \/ EnsureFinalizer(a)
         /\ Applied(a)' =>
              (Applied(a) /\ UNCHANGED <<copy, pc, result>>) \/ (Engine(a) /\ UNCHANGED <<obj, copy>>)
<1>. USE DEF locks, budgets, Goto, LivePath
<1>0. /\ pc \in [CRs -> PCs] /\ copy \in [CRs -> Object]
      /\ result \in [CRs -> {"none", "ready", "error", "duplicate"}]
  BY DEF TypeOK
<1>1. CASE Reconcile(a)
  BY <1>0, <1>1 DEF Reconcile, Applied
<1>2. CASE Unreachable(a)
  <2>1. \/ pc'[a] = "status" /\ result'[a] = "error"
        \/ pc'[a] \in {"idle", "removeFinalizer"}
    BY <1>0, <1>2 DEF Unreachable, Report
  <2>. QED  BY <2>1 DEF Applied
<1>3. CASE EnsureFinalizer(a)
  BY <1>0, <1>3 DEF EnsureFinalizer, Applied
<1>4. CASE UNCHANGED <<pc, copy, result>>
  BY <1>4 DEF Applied
<1>5. CASE duplicateIdentityGate(a) \/ GateRecheck(a)
  <2>1. /\ pc[a] \in {"gate", "recheck"} /\ UNCHANGED <<obj, copy>>
        /\ \/ pc'[a] = "recheck"
           \/ pc'[a] = "finalizer" /\ (identityMaterialized(copy[a]) \/ ~findOlderClaim(a, obj))
           \/ pc'[a] = "status" /\ result'[a] = "duplicate"
    BY <1>0, <1>5 DEF duplicateIdentityGate, GateRecheck, Report
  <2>. QED  BY <2>1 DEF Applied
<1>6. CASE lockIdentity(a) \/ lockSubstrate(a)
  BY <1>0, <1>6 DEF lockIdentity, lockSubstrate, Applied
<1>7. CASE GateFails(a) \/ EngineFails(a)
  <2>1. pc'[a] = "status" /\ result'[a] = "error"
    BY <1>0, <1>7 DEF GateFails, EngineFails, Report
  <2>. QED  BY <2>1 DEF Applied
<1>8. CASE Engine(a)
  <2>1. pc'[a] = "status" /\ UNCHANGED <<obj, copy>>
    BY <1>0, <1>8 DEF Engine, Report
  <2>. QED  BY <1>8, <2>1
<1>9. CASE CoClaimantScan(a) \/ CoClaimantRecheck(a) \/ Cleanup(a) \/ (CleanupFails(a) /\ ~Return(a))
  <2>1. pc'[a] \in {"removeFinalizer", "coRecheck", "cleanup"}
    BY <1>0, <1>9 DEF CoClaimantScan, CoClaimantRecheck, Cleanup, CleanupFails
  <2>. QED  BY <2>1 DEF Applied
<1>10. CASE UpdateStatus(a) \/ UpdateStatusFails(a) \/ UpdateFails(a) \/ removeFinalizer(a)
             \/ CoClaimantScanFails(a) \/ (CleanupFails(a) /\ Return(a))
  <2>1. pc'[a] = "idle"
    BY <1>0, <1>10 DEF UpdateStatus, UpdateStatusFails, UpdateFails, removeFinalizer,
       CoClaimantScanFails, CleanupFails, Return
  <2>. QED  BY <2>1 DEF Applied
<1>. QED
  BY <1>1, <1>2, <1>3, <1>4, <1>5, <1>6, <1>7, <1>8, <1>9, <1>10 DEF Act, UserAct, ReconcileStep,
     FaultStep, CacheSync, Delete, Annotate, Create, UserStep

(* An object held by its finalizer goes only with removeFinalizer.         *)
LEMMA PinnedStays ==
  ASSUME TypeOK, PathInv, NEW a \in CRs, Act(a), NEW c \in CRs, NEW o, Pinned(c, o),
         c = a => pc[a] # "removeFinalizer"
  PROVE  obj'[c].exists /\ obj'[c].uid = o.uid /\ obj'[c].finalizer
<1>1. obj'[c] = obj[c] \/ (c = a /\ (Modified(a) \/ Removed(a) \/ Added(a)))
  BY ObjectStep
<1>. QED  BY <1>1 DEF Pinned, Modified, Removed, Added, removeFinalizer

(* The finalizer a reconcile relies on is there.                           *)
LEMMA PinStep ==
  ASSUME TypeOK, PathInv, VersionInv, PinInv, NEW a \in CRs, Act(a)
  PROVE  PinInv'
<1>. SUFFICES ASSUME NEW c \in CRs
              PROVE  /\ cache'[c].exists /\ cache'[c].finalizer /\ ~cache'[c].deleting
                          => Pinned(c, cache[c])'
                     /\ pc'[c] \in LivePath /\ copy'[c].finalizer => Pinned(c, copy[c])'
                     /\ pc'[c] \in {"lockACL", "engine"} \/ Applied(c)' => Pinned(c, copy[c])'
  BY DEF PinInv, Applied
<1>0. /\ obj[c] \in Object /\ cache[c] \in Object /\ copy[c] \in Object
      /\ obj'[c] \in Object /\ cache'[c] \in Object /\ copy'[c] \in Object
  BY ObjectStep, ReconcileMoves DEF TypeOK
<1>1. ASSUME cache'[c].exists, cache'[c].finalizer, ~cache'[c].deleting PROVE Pinned(c, cache[c])'
  <2>1. CASE cache'[c] = cache[c]
    <3>1. Pinned(c, cache[c])
      BY <1>1, <2>1 DEF PinInv
    <3>2. CASE c = a /\ pc[a] = "removeFinalizer"
      <4>1. copy[c].deleting
        BY <3>2 DEF PathInv, DeletionPath
      <4>2. obj[c].uid = cache[c].uid /\ obj[c].exists
        BY <3>1 DEF Pinned
      <4>3. obj[c] # copy[c]
        <5>. SUFFICES ASSUME obj[c] = copy[c] PROVE FALSE
          OBVIOUS
        <5>. QED  BY <1>0, <1>1, <2>1, <4>1, <4>2 DEF VersionInv, Earlier, Object
      <4>4. obj'[c] = obj[c] \/ Modified(c)
        BY <3>1, <3>2, <4>3, ObjectStep DEF Removed, Added, Pinned
      <4>. QED  BY <2>1, <3>1, <4>4 DEF Pinned, Modified
    <3>3. CASE ~(c = a /\ pc[a] = "removeFinalizer")
      BY <2>1, <3>1, <3>3, PinnedStays DEF Pinned
    <3>. QED  BY <3>2, <3>3
  <2>2. CASE cache'[c] # cache[c]
    BY <1>1, <2>2, ReconcileMoves DEF OthersStay, Pinned
  <2>. QED  BY <2>1, <2>2
<1>2. ASSUME Pinned(c, copy[c]), copy'[c] = copy[c], pc[c] # "removeFinalizer"
      PROVE  Pinned(c, copy[c])'
  BY <1>2, PinnedStays DEF Pinned
<1>3. ASSUME c = a, EnsureFinalizer(a) PROVE Pinned(c, copy[c])'
  <2>1. pc[a] = "finalizer"
    BY <1>3 DEF EnsureFinalizer
  <2>2. CASE copy[a].finalizer
    <3>1. UNCHANGED <<obj, copy>>
      BY <1>3, <2>2 DEF EnsureFinalizer
    <3>2. Pinned(a, copy[a])
      BY <2>1, <2>2 DEF PinInv, LivePath
    <3>. QED  BY <1>3, <3>1, <3>2 DEF Pinned
  <2>3. CASE ~copy[a].finalizer
    <3>1. /\ obj[a] = copy[a] /\ obj'[a] = [obj[a] EXCEPT !.finalizer = TRUE] /\ copy'[a] = obj'[a]
      BY <1>3, <2>3 DEF EnsureFinalizer, TypeOK
    <3>2. obj[a].exists
      BY <2>1, <3>1 DEF PathInv, LivePath
    <3>3. obj'[a].exists /\ obj'[a].finalizer
      BY <1>0, <1>3, <3>1, <3>2 DEF Object
    <3>. QED  BY <1>3, <3>1, <3>3 DEF Pinned
  <2>. QED  BY <2>2, <2>3
<1>4. ASSUME c # a PROVE pc'[c] = pc[c] /\ copy'[c] = copy[c] /\ (Applied(c)' <=> Applied(c))
  BY <1>4, ReconcileMoves DEF OthersStay, Applied
<1>5. ASSUME pc'[c] \in LivePath, copy'[c].finalizer PROVE Pinned(c, copy[c])'
  <2>1. CASE pc[c] \in LivePath /\ copy'[c] = copy[c]
    BY <1>2, <1>5, <2>1 DEF PinInv, LivePath
  <2>2. CASE c = a /\ copy'[a] = cache[a] /\ cache[a].exists /\ ~cache[a].deleting /\ UNCHANGED <<obj, cache>>
    BY <1>5, <2>2 DEF PinInv, Pinned
  <2>. QED  BY <1>3, <1>4, <1>5, <2>1, <2>2, Arrivals
<1>6. ASSUME pc'[c] \in {"lockACL", "engine"} \/ Applied(c)' PROVE Pinned(c, copy[c])'
  <2>1. CASE (pc[c] \in {"lockACL", "engine"} \/ Applied(c)) /\ copy'[c] = copy[c]
    BY <1>2, <2>1 DEF PinInv, Applied
  <2>2. CASE c = a /\ Engine(a) /\ UNCHANGED <<obj, copy>>
    BY <2>2 DEF PinInv, Pinned, Engine
  <2>. QED  BY <1>3, <1>4, <1>6, <2>1, <2>2, Arrivals
<1>. QED  BY <1>1, <1>5, <1>6

(* New claims are made in the current second or later: who has no elder    *)
(* does not get one.                                                       *)
LEMMA ElderStays ==
  ASSUME TypeOK, PathInv, NEW a \in CRs, Act(a), NEW o \in Object, o.created <= now, NoElder(o)
  PROVE  \A d \in CRs : Live(obj'[d]) => obj'[d].created >= o.created
<1>. SUFFICES ASSUME NEW d \in CRs, Live(obj'[d]) PROVE obj'[d].created >= o.created
  OBVIOUS
<1>0. /\ obj[d] \in Object /\ obj'[d] \in Object /\ now \in Nat /\ now' \in Nat /\ now' >= now
      /\ o.created \in Nat
  BY ObjectStep DEF TypeOK, Object
<1>1. obj'[d] = obj[d] \/ (d = a /\ (Modified(a) \/ Removed(a) \/ Added(a)))
  BY ObjectStep
<1>2. CASE obj'[d].created = obj[d].created /\ Live(obj[d])
  BY <1>2 DEF NoElder
<1>3. CASE obj'[d].created = now'
  BY <1>0, <1>3
<1>. QED  BY <1>1, <1>2, <1>3 DEF Live, Modified, Removed, Added

(* Who has passed the gate, or has been Ready, stays without an elder.     *)
LEMMA ElderStep ==
  ASSUME TypeOK, PathInv, VersionInv, TimeInv, PinInv, ElderInv, NEW a \in CRs, Act(a)
  PROVE  ElderInv'
<1>. SUFFICES ASSUME NEW c \in CRs
              PROVE  /\ obj'[c].exists /\ obj'[c].status = "ready" => NoElder(obj[c])'
                     /\ cache'[c].exists /\ cache'[c].status = "ready" => NoElder(cache[c])'
                     /\ copy'[c].exists /\ copy'[c].status = "ready" => NoElder(copy[c])'
                     /\ pc'[c] \in {"finalizer", "lockACL", "engine"} \/ Applied(c)' => NoElder(copy[c])'
  BY DEF ElderInv, Applied
<1>0. /\ obj[c] \in Object /\ cache[c] \in Object /\ copy[c] \in Object
      /\ obj'[c] \in Object /\ cache'[c] \in Object /\ copy'[c] \in Object
      /\ obj[c].created <= now /\ cache[c].created <= now /\ copy[c].created <= now
  BY ObjectStep, ReconcileMoves DEF TypeOK, TimeInv
<1>1. ASSUME NEW o \in Object, NEW q \in Object, o.created <= now, NoElder(o), q.created = o.created
      PROVE  \A d \in CRs : Live(obj'[d]) => obj'[d].created >= q.created
  BY <1>1, ElderStays
<1>2. ASSUME obj'[c].exists, obj'[c].status = "ready" PROVE NoElder(obj[c])'
  <2>1. CASE obj[c].exists /\ obj[c].status = "ready" /\ obj'[c].created = obj[c].created
    BY <1>0, <1>1, <2>1 DEF ElderInv, NoElder
  <2>2. CASE c = a /\ UpdateStatus(a) /\ result[a] = "ready" /\ obj'[c].created = obj[c].created
    <3>1. Applied(c)
      BY <2>2 DEF UpdateStatus, Applied
    <3>2. Pinned(c, copy[c]) /\ NoElder(copy[c])
      BY <3>1 DEF PinInv, ElderInv
    <3>3. Earlier(copy[c], obj[c])
      BY <1>0, EarlierTransitive DEF VersionInv
    <3>4. obj'[c].created = copy[c].created
      BY <2>2, <3>2, <3>3 DEF Earlier, Pinned
    <3>. QED  BY <1>0, <1>1, <3>2, <3>4 DEF NoElder
  <2>3. obj'[c] = obj[c] \/ (c = a /\ (Modified(a) \/ Removed(a) \/ Added(a)))
    BY ObjectStep
  <2>. QED  BY <1>2, <2>1, <2>2, <2>3 DEF Modified, Removed, Added
<1>3. ASSUME cache'[c].exists, cache'[c].status = "ready" PROVE NoElder(cache[c])'
  <2>1. cache'[c] \in {cache[c], obj[c]}
    BY ReconcileMoves DEF OthersStay
  <2>. QED  BY <1>0, <1>1, <1>3, <2>1 DEF ElderInv, NoElder
<1>4. ASSUME copy'[c].exists, copy'[c].status = "ready" PROVE NoElder(copy[c])'
  <2>1. CASE copy'[c] \in {copy[c], cache[c]}
    BY <1>0, <1>1, <1>4, <2>1 DEF ElderInv, NoElder
  <2>2. CASE copy'[c] = NoObject(0)
    BY <1>4, <2>2, NewObjects
  <2>3. CASE copy'[c] = obj'[c]
    BY <1>2, <1>4, <2>3 DEF NoElder
  <2>. QED  BY <2>1, <2>2, <2>3, ReconcileMoves DEF OthersStay, CopyMove
<1>5. ASSUME pc'[c] \in {"finalizer", "lockACL", "engine"} \/ Applied(c)' PROVE NoElder(copy[c])'
  <2>1. CASE NoElder(copy[c]) /\ copy'[c] = copy[c]
    BY <1>0, <1>1, <2>1 DEF NoElder
  <2>2. CASE c # a
    <3>1. pc'[c] = pc[c] /\ copy'[c] = copy[c] /\ (Applied(c)' <=> Applied(c))
      BY <2>2, ReconcileMoves DEF OthersStay, Applied
    <3>. QED  BY <1>5, <2>1, <3>1 DEF ElderInv
  <2>3. CASE c = a /\ EnsureFinalizer(a)
    <3>1. NoElder(copy[c])
      BY <2>3 DEF ElderInv, EnsureFinalizer
    <3>2. copy'[c] = copy[c] \/ (obj[a] = copy[a] /\ copy'[a] = [copy[a] EXCEPT !.finalizer = TRUE])
      BY <2>3 DEF EnsureFinalizer, TypeOK
    <3>3. copy'[c].created = copy[c].created
      BY <1>0, <2>3, <3>2 DEF Object
    <3>. QED  BY <1>0, <1>1, <3>1, <3>3 DEF NoElder
  <2>4. CASE c = a /\ Engine(a) /\ UNCHANGED <<obj, copy>>
    BY <2>1, <2>4 DEF ElderInv, Engine
  <2>5. CASE c = a /\ pc[a] \in LivePath /\ UNCHANGED <<obj, copy>> /\ identityMaterialized(copy[a])
    BY <2>1, <2>5 DEF ElderInv, PathInv, identityMaterialized
  <2>6. CASE c = a /\ pc[a] \in LivePath /\ UNCHANGED <<obj, copy>> /\ ~findOlderClaim(a, obj)
    <3>1. ASSUME NEW d \in CRs, Live(obj[d]) PROVE obj[d].created >= copy[c].created
      <4>0. obj[d] \in Object
        BY DEF TypeOK
      <4>1. CASE d \in Rivals(c, obj)
        BY <1>0, <2>6, <4>0, <4>1 DEF findOlderClaim, olderIdentityClaim, Object
      <4>2. CASE d = c /\ obj[d].uid = copy[c].uid
        <5>1. Earlier(copy[c], obj[c])
          BY <1>0, EarlierTransitive DEF VersionInv
        <5>. QED  BY <1>0, <3>1, <4>2, <5>1 DEF Earlier, Live, Object
      <4>. QED  BY <3>1, <4>1, <4>2 DEF Rivals
    <3>. QED  BY <2>1, <2>6, <3>1 DEF NoElder
  <2>. QED  BY <1>5, <2>1, <2>2, <2>3, <2>4, <2>5, <2>6, Arrivals DEF ElderInv
<1>. QED  BY <1>2, <1>3, <1>4, <1>5

(* Every step, a restart included, keeps the gate's invariant.             *)
LEMMA GateStep == TypeOK /\ GateInv /\ [Next]_vars => GateInv'
<1>. SUFFICES ASSUME TypeOK, GateInv, [Next]_vars PROVE GateInv'
  OBVIOUS
<1>1. ASSUME NEW a \in CRs, Act(a) PROVE GateInv'
  BY <1>1, PathStep, VersionStep, TimeStep, PinStep, ElderStep DEF GateInv
<1>2. CASE Crash
  <2>. USE NewObjects
  <2>0. \A c \in CRs : obj[c] \in Object /\ now \in Nat
    BY DEF TypeOK
  <2>1. /\ obj' = obj /\ now' = now /\ cache' = obj
        /\ \A c \in CRs : pc'[c] = "idle" /\ copy'[c] = NoObject(0)
    BY <1>2, CrashStep
  <2>2. VersionInv'
    BY <2>0, <2>1 DEF GateInv, VersionInv, Earlier, Object
  <2>3. TimeInv'
    BY <2>0, <2>1 DEF GateInv, TimeInv
  <2>4. PathInv' /\ PinInv'
    BY <2>1 DEF PathInv, PinInv, LivePath, DeletionPath, Applied, Pinned
  <2>5. ElderInv'
    BY <2>1 DEF GateInv, ElderInv, NoElder, Applied
  <2>. QED  BY <2>2, <2>3, <2>4, <2>5 DEF GateInv
<1>3. CASE UNCHANGED vars
  BY <1>3 DEF vars, GateInv, VersionInv, TimeInv, PathInv, PinInv, ElderInv, NoElder, Applied, Pinned
<1>. QED  BY <1>1, <1>2, <1>3, NextIsAct

(* What the initial claims look like.                                      *)
LEMMA InitClaims ==
  ASSUME Init, NEW c \in CRs
  PROVE  /\ obj[c] \in Object /\ obj[c].status = "none" /\ obj[c].created <= 2
         /\ obj[c].exists => obj[c].uid = 1
         /\ cache[c] = NoObject(0) /\ copy[c] = NoObject(0)
<1>0. \A p \in PoliciesOf : p \in Policies
  BY DEF PoliciesOf
<1>1. PICK p \in Policies :
        obj[c] \in {NoObject(0), NewObject(1, 1, p), NewObject(1, 2, p),
                   [NewObject(1, 1, p) EXCEPT !.force = TRUE]}
  BY <1>0 DEF Init
<1>2. PICK n : n = NewObject(1, 1, p)
  OBVIOUS
<1>3. n \in Object /\ n.uid = 1 /\ n.created = 1 /\ n.status = "none"
  BY <1>2, NewObjects
<1>4. PICK f : f = [n EXCEPT !.force = TRUE]
  OBVIOUS
<1>5. f \in Object /\ f.uid = 1 /\ f.created = 1 /\ f.status = "none"
  BY <1>3, <1>4 DEF Object
<1>6. obj[c] \in {NoObject(0), NewObject(1, 1, p), NewObject(1, 2, p), f}
  BY <1>1, <1>2, <1>4
<1>7. cache[c] = NoObject(0) /\ copy[c] = NoObject(0)
  BY DEF Init
<1>. QED  BY <1>5, <1>6, <1>7, NewObjects

(* The initial states satisfy the gate's invariant.                        *)
LEMMA GateInit == Init => GateInv
<1>. SUFFICES ASSUME Init PROVE GateInv
  OBVIOUS
<1>1. now = 2 /\ \A c \in CRs : pc[c] = "idle" /\ result[c] = "none"
  BY DEF Init
<1>2. /\ NoObject(0) \in Object /\ ~NoObject(0).exists
      /\ NoObject(0).uid = 0 /\ NoObject(0).created = 0
  BY NewObjects
<1>3. VersionInv
  BY <1>2, InitClaims DEF VersionInv, Earlier, Object
<1>4. TimeInv
  BY <1>1, <1>2, InitClaims DEF TimeInv
<1>5. PathInv /\ PinInv
  BY <1>1, <1>2, InitClaims DEF PathInv, PinInv, LivePath, DeletionPath, Applied
<1>6. ElderInv
  BY <1>1, <1>2, InitClaims DEF ElderInv, Applied
<1>. QED  BY <1>3, <1>4, <1>5, <1>6 DEF GateInv

(* However far the cache lags and whatever is created, deleted, annotated  *)
(* or restarted: a claimant past the gate has no live rival that was       *)
(* created in an earlier second.                                           *)
THEOREM GateHoldsYoungerBack == Spec => []YoungerNeverMutates
<1>1. TypeOK /\ GateInv => YoungerNeverMutates
  BY DEF GateInv, ElderInv, NoElder, YoungerNeverMutates
<1>. QED  BY <1>1, GateInit, GateStep, TypeCorrect, PTL DEF Spec

-----------------------------------------------------------------------------
(* The finalizer.                                                          *)

(* How a step for a moves the identity lock.                               *)
LEMMA LockMoves ==
  ASSUME TypeOK, kind = "KafkaUser", NEW a \in CRs, Act(a)
  PROVE  /\ kind' = kind
         /\ \/ idLock' = idLock
            \/ idLock = Nobody /\ idLock' = a
            \/ /\ idLock = a /\ idLock' = Nobody /\ pc'[a] \notin Guarded
               /\ ~(pc'[a] = "status" /\ result'[a] = "duplicate")
         /\ pc'[a] = "lockACL" => pc[a] = "lockACL"
         /\ pc'[a] \in Guarded => idLock' = a \/ (pc[a] \in Guarded \cup {"lockACL"} /\ idLock' = idLock)
         /\ pc'[a] = "status" /\ result'[a] = "duplicate" =>
              /\ idLock' = idLock
              /\ pc[a] = "recheck" \/ (pc[a] = "status" /\ result[a] = "duplicate")
         /\ pc'[a] = "cleanup" =>
              pc[a] = "cleanup" \/ (pc[a] = "coRecheck" /\ UNCHANGED obj /\ Rivals(a, obj) = {})
         /\ EnsureFinalizer(a) => pc[a] \in Guarded
<1>. USE DEF locks, budgets, Goto, Guarded
<1>0. /\ pc \in [CRs -> PCs] /\ result \in [CRs -> {"none", "ready", "error", "duplicate"}]
  BY DEF TypeOK
<1>1. CASE Reconcile(a)
  BY <1>0, <1>1 DEF Reconcile, EnsureFinalizer
<1>2. CASE Unreachable(a)
  <2>1. \/ pc'[a] = "status" /\ result'[a] = "error" /\ idLock' = idLock
        \/ pc'[a] = "removeFinalizer" /\ idLock' = idLock
        \/ pc'[a] = "idle" /\ Unlock(a)
    BY <1>0, <1>2 DEF Unreachable, Report
  <2>2. kind' = kind
    BY <1>2 DEF Unreachable, Fault
  <2>. QED  BY <2>1, <2>2 DEF Unlock, EnsureFinalizer
<1>3. CASE EnsureFinalizer(a)
  BY <1>0, <1>3 DEF EnsureFinalizer
<1>4. CASE UNCHANGED <<pc, result, idLock, kind>>
  BY <1>4 DEF EnsureFinalizer
<1>5. CASE duplicateIdentityGate(a) \/ GateRecheck(a) \/ GateFails(a)
  <2>1. /\ pc[a] \in {"gate", "recheck"} /\ idLock' = idLock /\ kind' = kind
        /\ \/ pc'[a] \in {"recheck", "finalizer"}
           \/ pc'[a] = "status" /\ (result'[a] = "duplicate" => pc[a] = "recheck")
    BY <1>0, <1>5 DEF duplicateIdentityGate, GateRecheck, GateFails, Fault, Report
  <2>. QED  BY <2>1 DEF EnsureFinalizer
<1>6. CASE lockIdentity(a) \/ lockSubstrate(a)
  BY <1>0, <1>6 DEF lockIdentity, lockSubstrate, EnsureFinalizer
<1>7. CASE Engine(a) \/ EngineFails(a)
  <2>1. pc'[a] = "status" /\ result'[a] \in {"ready", "error"} /\ Unlock(a) /\ kind' = kind
    BY <1>0, <1>7 DEF Engine, EngineFails, Fault, Report
  <2>. QED  BY <1>7, <2>1 DEF Unlock, EnsureFinalizer
<1>8. CASE CoClaimantScan(a) \/ CoClaimantRecheck(a) \/ Cleanup(a) \/ (CleanupFails(a) /\ ~Return(a))
  <2>1. /\ pc[a] \in {"coScan", "coRecheck", "cleanup"} /\ idLock' = idLock /\ kind' = kind
        /\ \/ pc'[a] \in {"removeFinalizer", "coRecheck"}
           \/ pc'[a] = "cleanup" /\ pc[a] = "coRecheck" /\ UNCHANGED obj /\ Rivals(a, obj) = {}
    BY <1>0, <1>8 DEF CoClaimantScan, CoClaimantRecheck, Cleanup, CleanupFails, Fault,
       findLiveCoClaimant
  <2>. QED  BY <2>1 DEF EnsureFinalizer
<1>9. CASE UpdateStatus(a) \/ UpdateStatusFails(a) \/ UpdateFails(a) \/ removeFinalizer(a)
             \/ CoClaimantScanFails(a) \/ (CleanupFails(a) /\ Return(a))
  <2>1. pc'[a] = "idle" /\ Unlock(a) /\ kind' = kind
    BY <1>0, <1>9 DEF UpdateStatus, UpdateStatusFails, UpdateFails, removeFinalizer,
       CoClaimantScanFails, CleanupFails, Return, Fault
  <2>. QED  BY <2>1 DEF Unlock, EnsureFinalizer
<1>. QED
  BY <1>1, <1>2, <1>3, <1>4, <1>5, <1>6, <1>7, <1>8, <1>9 DEF Act, UserAct, ReconcileStep,
     FaultStep, CacheSync, Delete, Annotate, Create, UserStep

(* The identity lock serialises the guarded sections.                      *)
LEMMA LockStep ==
  ASSUME TypeOK, PathInv, kind = "KafkaUser", LockInv, NEW a \in CRs, Act(a)
  PROVE  LockInv'
<1>. SUFFICES ASSUME NEW c \in CRs
              PROVE  /\ pc'[c] # "lockACL"
                     /\ pc'[c] \in Guarded => idLock' = c
                     /\ pc'[c] = "status" /\ result'[c] = "duplicate" => idLock' = c
  BY DEF LockInv
<1>1. CASE c = a
  BY <1>1, LockMoves DEF LockInv, Guarded
<1>2. CASE c # a
  <2>1. pc'[c] = pc[c] /\ result'[c] = result[c]
    BY <1>2, ReconcileMoves DEF OthersStay
  <2>2. idLock = c => idLock' = c
    BY <1>2, LockMoves, NamesAssumption
  <2>. QED  BY <2>1, <2>2 DEF LockInv
<1>. QED  BY <1>1, <1>2

(* A claimant that became live, Ready, a duplicate or pinned during the    *)
(* cleanup would have had to hold the lock.                                *)
LEMMA SpareStep ==
  ASSUME TypeOK, GateInv, kind = "KafkaUser", LockInv, LockInv', SpareInv, NEW a \in CRs, Act(a)
  PROVE  SpareInv'
<1>. SUFFICES ASSUME NEW c \in CRs, pc'[c] = "cleanup", NEW d \in CRs, Live(obj'[d])
              PROVE  obj'[d].status \notin {"ready", "duplicate"} /\ ~obj'[d].finalizer
  BY DEF SpareInv
<1>0. PathInv /\ VersionInv /\ PinInv /\ obj[d] \in Object /\ copy[d] \in Object /\ cache[d] \in Object
  BY DEF GateInv, TypeOK
<1>1. CASE pc[c] # "cleanup"
  <2>1. c = a /\ pc[a] = "coRecheck" /\ UNCHANGED obj /\ Rivals(a, obj) = {}
    BY <1>0, <1>1, LockMoves, ReconcileMoves DEF OthersStay
  <2>2. d = a /\ obj[a].uid = copy[a].uid /\ obj[a].exists /\ ~obj[a].deleting
    BY <2>1 DEF Rivals, Live
  <2>3. copy[a].deleting
    BY <1>0, <2>1 DEF PathInv, DeletionPath
  <2>4. Earlier(copy[a], obj[a])
    BY <1>0, <2>2, EarlierTransitive DEF VersionInv
  <2>. QED  BY <2>2, <2>3, <2>4 DEF Earlier
<1>2. CASE pc[c] = "cleanup"
  <2>0. idLock = c
    BY <1>2 DEF LockInv, Guarded
  <2>1. CASE obj'[d] = obj[d]
    BY <1>2, <2>1 DEF SpareInv
  <2>2. CASE d = a /\ Modified(a)
    <3>1. Live(obj[d])
      BY <2>2 DEF Live, Modified
    <3>2. obj[d].status \notin {"ready", "duplicate"} /\ ~obj[d].finalizer
      BY <1>2, <3>1 DEF SpareInv
    <3>3. ~EnsureFinalizer(a)
      BY <1>2, <2>0 DEF LockInv, Guarded, EnsureFinalizer
    <3>4. ~(UpdateStatus(a) /\ result[a] \in {"ready", "duplicate"})
      <4>. SUFFICES ASSUME UpdateStatus(a), result[a] \in {"ready", "duplicate"} PROVE FALSE
        OBVIOUS
      <4>1. pc[a] = "status"
        BY DEF UpdateStatus
      <4>2. CASE result[a] = "ready"
        BY <1>0, <2>2, <3>2, <4>1, <4>2 DEF PinInv, Applied, Pinned
      <4>3. CASE result[a] = "duplicate"
        BY <1>2, <2>0, <4>1, <4>3 DEF LockInv
      <4>. QED  BY <4>2, <4>3
    <3>. QED  BY <2>2, <3>2, <3>3, <3>4 DEF Modified
  <2>3. CASE d = a /\ (Removed(a) \/ Added(a))
    BY <2>3 DEF Removed, Added, Live
  <2>. QED  BY <1>0, <2>1, <2>2, <2>3, ObjectStep
<1>. QED  BY <1>1, <1>2

(* Only a cleanup empties the broker, and the live claimants it meets have *)
(* no broker state yet.                                                    *)
LEMMA BrokerStep ==
  ASSUME TypeOK, GateInv, kind = "KafkaUser", LockInv, SpareInv, BrokerInv, NEW a \in CRs, Act(a)
  PROVE  BrokerInv'
<1>. SUFFICES ASSUME NEW c \in CRs, Live(obj'[c]), obj'[c].status = "ready" \/ Applied(c)'
              PROVE  broker' # Nobody
  BY DEF BrokerInv, Applied
<1>0. PathInv /\ PinInv /\ [cr |-> a, uid |-> copy[a].uid] \in Writers
  BY DEF GateInv, TypeOK, Object, Writers
<1>1. \/ broker' = broker
      \/ broker' = [cr |-> a, uid |-> copy[a].uid]
      \/ broker' = Nobody /\ pc[a] = "cleanup" /\ UNCHANGED obj
  BY DEF Act, ReconcileStep, FaultStep, UserAct, CacheSync, Delete, Annotate, Create,
     UserStep, Reconcile, lockIdentity, lockSubstrate, duplicateIdentityGate, GateRecheck,
     EnsureFinalizer, Engine, UpdateStatus, UpdateStatusFails, UpdateFails, CoClaimantScan,
     CoClaimantRecheck, Cleanup, removeFinalizer, Unreachable, GateFails, EngineFails,
     CoClaimantScanFails, CleanupFails
<1>2. CASE Engine(a)
  BY <1>0, <1>2, NamesAssumption DEF Engine, Writers
<1>3. ASSUME ~Engine(a) PROVE Live(obj[c]) /\ (obj[c].status = "ready" \/ Applied(c))
  <2>1. Applied(c)' => Applied(c) /\ obj[c].exists
    BY <1>0, <1>3, Arrivals, ReconcileMoves DEF OthersStay, Applied, PinInv, Pinned
  <2>2. obj'[c] = obj[c] \/ (c = a /\ (Modified(a) \/ Removed(a) \/ Added(a)))
    BY <1>0, ObjectStep
  <2>. QED  BY <2>1, <2>2 DEF Live, Modified, Removed, Added, UpdateStatus, Applied
<1>4. CASE broker' = broker /\ ~Engine(a)
  BY <1>3, <1>4 DEF BrokerInv
<1>5. CASE pc[a] = "cleanup" /\ ~Engine(a)
  <2>1. Live(obj[c]) /\ (obj[c].status = "ready" \/ obj[c].finalizer)
    BY <1>0, <1>3, <1>5 DEF PinInv, Pinned
  <2>. QED  BY <1>5, <2>1 DEF SpareInv
<1>6. CASE broker' = [cr |-> a, uid |-> copy[a].uid]
  BY <1>0, <1>6, NamesAssumption DEF Writers
<1>. QED  BY <1>1, <1>2, <1>4, <1>5, <1>6

(* Every step keeps what the finalizers of users rely on.                  *)
LEMMA UserInvStep == TypeOK /\ GateInv /\ UserInv /\ [Next]_vars => UserInv'
<1>. SUFFICES ASSUME TypeOK, GateInv, UserInv, [Next]_vars, kind' = "KafkaUser"
              PROVE  LockInv' /\ SpareInv' /\ BrokerInv'
  BY DEF UserInv
<1>1. ASSUME NEW a \in CRs, Act(a) PROVE LockInv' /\ SpareInv' /\ BrokerInv'
  <2>1. kind = "KafkaUser"
    BY <1>1 DEF Act, ReconcileStep, FaultStep, UserAct, CacheSync, Delete, Annotate, Create,
       UserStep, Fault, budgets, Reconcile, lockIdentity, lockSubstrate, duplicateIdentityGate,
       GateRecheck, EnsureFinalizer, Engine, UpdateStatus, UpdateStatusFails, UpdateFails,
       CoClaimantScan, CoClaimantRecheck, Cleanup, removeFinalizer, Unreachable, GateFails,
       EngineFails, CoClaimantScanFails, CleanupFails
  <2>2. LockInv'
    BY <1>1, <2>1, LockStep DEF GateInv, UserInv
  <2>. QED  BY <1>1, <2>1, <2>2, SpareStep, BrokerStep DEF UserInv
<1>2. CASE Crash
  <2>1. /\ UNCHANGED <<obj, broker, kind>>
        /\ \A c \in CRs : pc'[c] = "idle" /\ result'[c] = "none"
    BY <1>2, CrashStep
  <2>. QED  BY <2>1 DEF UserInv, LockInv, SpareInv, BrokerInv, Guarded, Applied
<1>3. CASE UNCHANGED vars
  BY <1>3 DEF vars, UserInv, LockInv, SpareInv, BrokerInv, Applied
<1>. QED  BY <1>1, <1>2, <1>3, NextIsAct

(* The invariants hold in every reachable state.                           *)
LEMMA UserInvariant == Spec => [](TypeOK /\ GateInv /\ UserInv)
<1>1. Init => UserInv
  <2>. SUFFICES ASSUME Init PROVE LockInv /\ SpareInv /\ BrokerInv
    BY DEF UserInv
  <2>1. \A c \in CRs : pc[c] = "idle" /\ result[c] = "none"
    BY DEF Init
  <2>. QED  BY <2>1, InitClaims DEF LockInv, SpareInv, BrokerInv, Guarded, Applied
<1>. QED  BY <1>1, GateInit, GateStep, UserInvStep, TypeCorrect, PTL DEF Spec

(* As long as a live user or quota is Ready, the broker holds its state:   *)
(* no finalizer has removed it, in any interleaving of claimants.          *)
THEOREM ReadyIsServed == Spec => []ReadyHasBrokerState
<1>1. UserInv => ReadyHasBrokerState
  BY DEF UserInv, BrokerInv, ReadyHasBrokerState
<1>. QED  BY <1>1, UserInvariant, PTL

(* A finalizer that destroys the broker state meets no other live claimant *)
(* that is Ready or waits as a duplicate.                                  *)
THEOREM FinalizerSparesClaimants == Spec => CleanupSparesClaimants
<1>1. UserInv /\ [Next]_vars => [kind = "KafkaUser" => \A d \in CRs : ~CleanupHurts(d)]_vars
  BY DEF UserInv, SpareInv, CleanupHurts
<1>. QED  BY <1>1, UserInvariant, PTL DEF Spec, CleanupSparesClaimants

=============================================================================
