------------------------------- MODULE Locking -------------------------------
(***************************************************************************)
(* The operator's keyed mutexes (locking.Registry) and how the five        *)
(* reconcilers take and release them.  A worker runs one reconcile (job)   *)
(* at a time: it takes the locks of its path one after the other, runs the *)
(* span they guard, and releases them explicitly before the status write,  *)
(* with the deferred calls as the backstop of every other return.          *)
(***************************************************************************)
EXTENDS Integers, Sequences

CONSTANTS
  Workers,       \* goroutines of the controllers' worker pools
  Clusters,      \* KafkaCluster objects
  RBACClusters,  \* those whose accessBackends include rbac
  Identities,    \* resolved broker identities
  NoWorker       \* owner of a free mutex

ASSUME RBACAssumption == RBACClusters \subseteq Clusters
ASSUME NoWorkerAssumption == NoWorker \notin Workers
ASSUME NonEmptyAssumption == Clusters # {} /\ Identities # {}

VARIABLES
  owner,   \* the Registry: who holds each mutex
  phase,   \* idle, taking locks, between identity and substrate locks,
           \* inside the span, or on the way out of it
  job,     \* the reconcile each worker runs
  got,     \* how many locks of its sequence it has taken
  held     \* the levels whose release func has not run yet

vars == <<owner, phase, job, got, held>>

Kinds == {"KafkaTopic", "KafkaAccessPolicy", "KafkaRoleBinding", "KafkaQuota", "KafkaUser"}

Job == [kind : Kinds, deleting : BOOLEAN, cluster : Clusters, identity : Identities]

NoJob == CHOOSE j \in Job : TRUE

Levels == {"identity", "acl", "rbac"}

-----------------------------------------------------------------------------
(* Keys.  A substrate mutex is named by cluster and substrate, an identity *)
(* mutex by cluster, CR kind and identity.                                 *)

LockSubstrate(cluster, substrate) ==
  [cluster |-> cluster, kind |-> "substrate", name |-> substrate]

LockIdentity(cluster, kind, identity) ==
  [cluster |-> cluster, kind |-> kind, name |-> identity]

Keys ==
  [cluster : Clusters, kind : {"substrate"}, name : {"acl", "rbac"}]
    \cup [cluster : Clusters, kind : Kinds, name : Identities]

Key(j, level) ==
  IF level = "identity"
    THEN LockIdentity(j.cluster, j.kind, j.identity)
    ELSE LockSubstrate(j.cluster, level)

(* The order in which each path takes its locks.                           *)

(* Quotas and users take the identity lock on both paths, topics and role  *)
(* bindings only when not being deleted, policies never.                   *)
lockIdentity(j) ==
  IF j.kind \in {"KafkaQuota", "KafkaUser"}
     \/ (j.kind \in {"KafkaTopic", "KafkaRoleBinding"} /\ ~j.deleting)
    THEN <<"identity">>
    ELSE <<>>

lockTopicSubstrates(j) ==
  IF j.cluster \in RBACClusters THEN <<"acl", "rbac">> ELSE <<"acl">>

lockSubstrates(j) ==
  CASE j.kind = "KafkaTopic" /\ ~j.deleting -> lockTopicSubstrates(j)
    [] j.kind = "KafkaTopic" /\ j.deleting  -> <<"acl">>
    [] j.kind = "KafkaAccessPolicy"         -> <<"acl">>
    [] j.kind = "KafkaRoleBinding"          -> <<"rbac">>
    [] OTHER                                -> <<>>

(* Mutant: the topic's finalizer takes the identity lock as well, under    *)
(* the substrate lock it already holds.                                    *)
LockSequenceFinalizerIdentity(j) ==
  IF j.kind = "KafkaTopic" /\ j.deleting
    THEN <<"acl", "identity">>
    ELSE lockIdentity(j) \o lockSubstrates(j)

LockSequence(j) == lockIdentity(j) \o lockSubstrates(j)

(* What the span of a job reads and writes on the broker and in MDS.  The  *)
(* DeleteTopic call of a topic's finalizer, which the operator leaves      *)
(* outside the identity lock, is IdentityGate's subject.                   *)
Touches(j) ==
  {Key(j, l) : l \in
     CASE j.kind = "KafkaTopic" /\ ~j.deleting ->
            {"identity", "acl"} \cup (IF j.cluster \in RBACClusters THEN {"rbac"} ELSE {})
       [] j.kind = "KafkaTopic" /\ j.deleting -> {"acl"}
       [] j.kind = "KafkaAccessPolicy"        -> {"acl"}
       [] j.kind = "KafkaRoleBinding" /\ ~j.deleting -> {"identity", "rbac"}
       [] j.kind = "KafkaRoleBinding" /\ j.deleting -> {"rbac"}
       [] OTHER -> {"identity"}}

-----------------------------------------------------------------------------

TypeOK ==
  /\ owner \in [Keys -> Workers \cup {NoWorker}]
  /\ phase \in [Workers -> {"idle", "acquire", "gate", "span", "exit"}]
  /\ job \in [Workers -> Job]
  /\ got \in [Workers -> 0..3]
  /\ held \in [Workers -> SUBSET Levels]

Init ==
  /\ owner = [k \in Keys |-> NoWorker]
  /\ phase = [w \in Workers |-> "idle"]
  /\ job = [w \in Workers |-> NoJob]
  /\ got = [w \in Workers |-> 0]
  /\ held = [w \in Workers |-> {}]

Dispatch(w, j) ==
  /\ phase[w] = "idle"
  /\ phase' = [phase EXCEPT ![w] = "acquire"]
  /\ job' = [job EXCEPT ![w] = j]
  /\ UNCHANGED <<owner, got, held>>

NextLevel(w) == LockSequence(job[w])[got[w] + 1]

NextKey(w) == Key(job[w], NextLevel(w))

Waiting(w) == phase[w] = "acquire" /\ got[w] < Len(LockSequence(job[w]))

(* Registry.lock: Lock blocks until the mutex is free.                     *)
lock(w) ==
  /\ Waiting(w)
  /\ owner[NextKey(w)] = NoWorker
  /\ owner' = [owner EXCEPT ![NextKey(w)] = w]
  /\ got' = [got EXCEPT ![w] = @ + 1]
  /\ held' = [held EXCEPT ![w] = @ \cup {NextLevel(w)}]
  /\ phase' = [phase EXCEPT ![w] =
                 IF NextLevel(w) = "identity" /\ ~job[w].deleting THEN "gate" ELSE @]
  /\ UNCHANGED job

(* Under the identity lock: the duplicate gate lets the reconcile pass, the*)
(* clients build and the finalizer is in place.                            *)
PassGate(w) ==
  /\ phase[w] = "gate"
  /\ phase' = [phase EXCEPT ![w] = "acquire"]
  /\ UNCHANGED <<owner, job, got, held>>

EnterSpan(w) ==
  /\ phase[w] = "acquire"
  /\ got[w] = Len(LockSequence(job[w]))
  /\ phase' = [phase EXCEPT ![w] = "span"]
  /\ UNCHANGED <<owner, job, got, held>>

(* The mutexes in ks become free.                                          *)
Free(ks) == owner' = [k \in Keys |-> IF k \in ks THEN NoWorker ELSE owner[k]]

HeldKeys(w) == {Key(job[w], l) : l \in held[w]}

(* The explicit release at the end of a reconcile's span: the substrates,  *)
(* rbac before acl, then the identity lock, which an error path keeps      *)
(* until it returns.  The deletion paths have none.                        *)
unlockSubstrates(w) ==
  /\ phase[w] = "span"
  /\ ~job[w].deleting
  /\ held[w] \cap {"acl", "rbac"} # {}
  /\ Free({Key(job[w], l) : l \in held[w] \cap {"acl", "rbac"}})
  /\ held' = [held EXCEPT ![w] = @ \ {"acl", "rbac"}]
  /\ phase' = [phase EXCEPT ![w] = "exit"]
  /\ UNCHANGED <<job, got>>

unlockIdentity(w) ==
  /\ phase[w] \in {"span", "exit"}
  /\ ~job[w].deleting
  /\ held[w] = {"identity"}
  /\ Free(HeldKeys(w))
  /\ held' = [held EXCEPT ![w] = {}]
  /\ phase' = [phase EXCEPT ![w] = "exit"]
  /\ UNCHANGED <<job, got>>

(* Mutant: the release funcs are not once-only, so the deferred calls      *)
(* unlock again what was released explicitly.                              *)
ReturnUnlocksTwice(w) ==
  /\ phase[w] \in {"gate", "span", "exit"}
  /\ Free({Key(job[w], LockSequence(job[w])[i]) : i \in 1..got[w]})
  /\ held' = [held EXCEPT ![w] = {}]
  /\ got' = [got EXCEPT ![w] = 0]
  /\ phase' = [phase EXCEPT ![w] = "idle"]
  /\ job' = [job EXCEPT ![w] = NoJob]

(* The reconcile returns, from the span, or before it because the gate,    *)
(* the client build or the finalizer update ended it.  The deferred        *)
(* releases run; each is a OnceFunc, so a level released explicitly is not *)
(* unlocked again.                                                         *)
Return(w) ==
  /\ phase[w] \in {"gate", "span", "exit"}
  /\ Free(HeldKeys(w))
  /\ held' = [held EXCEPT ![w] = {}]
  /\ got' = [got EXCEPT ![w] = 0]
  /\ phase' = [phase EXCEPT ![w] = "idle"]
  /\ job' = [job EXCEPT ![w] = NoJob]

Step(w) ==
  \/ lock(w) \/ PassGate(w) \/ EnterSpan(w)
  \/ unlockSubstrates(w) \/ unlockIdentity(w) \/ Return(w)

Next == \E w \in Workers : Step(w) \/ \E j \in Job : Dispatch(w, j)

Spec == Init /\ [][Next]_vars

(* Goroutines run, calls end (every client has a timeout), and a sync.Mutex*)
(* in starvation mode hands over to its longest waiter.                    *)
FairSpec == Spec /\ \A w \in Workers : SF_vars(lock(w)) /\ WF_vars(Step(w))

-----------------------------------------------------------------------------
(* Properties.                                                             *)

(* Two reconciles whose spans touch the same broker state - the ACLs or    *)
(* the role bindings of one cluster, or one broker identity - never run    *)
(* those spans at once, whatever their kinds and paths.                    *)
WritersExclude ==
  \A v, w \in Workers :
    v # w /\ phase[v] = "span" /\ phase[w] = "span"
      => Touches(job[v]) \cap Touches(job[w]) = {}

Blocked(w) == Waiting(w) /\ owner[NextKey(w)] # NoWorker

Holder(w) == owner[NextKey(w)]

(* Global lock order (identity before acl before rbac): a blocked worker   *)
(* waits for a worker that, within two further hops, is not blocked.  No   *)
(* combination of the paths makes a circle.                                *)
WaitChainsEnd ==
  \A w \in Workers :
    Blocked(w) =>
      \/ ~Blocked(Holder(w))
      \/ ~Blocked(Holder(Holder(w)))
      \/ ~Blocked(Holder(Holder(Holder(w))))

(* Every reconcile that starts returns.                                    *)
ReconcilesReturn ==
  \A w \in Workers : phase[w] = "acquire" ~> phase[w] = "idle"

=============================================================================
