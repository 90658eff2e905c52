---------------------------- MODULE LockingProofs ----------------------------
(***************************************************************************)
(* Proofs about Locking, for any number of workers, clusters and           *)
(* identities: spans that touch the same broker state exclude each other,  *)
(* and every chain of waiting workers ends.                                *)
(***************************************************************************)
EXTENDS Locking, TLAPS

-----------------------------------------------------------------------------
(* The acquisition sequences.                                              *)

(* The global lock order.                                                  *)
Rank(l) == CASE l = "identity" -> 1 [] l = "acl" -> 2 [] OTHER -> 3

(* Is(s, t): s has the length and the elements of t.                       *)
Is(s, t) == Len(s) = Len(t) /\ \A i \in 1..Len(t) : s[i] = t[i]

(* The sequences LockSequence puts together.                               *)
LEMMA Concatenations ==
  /\ Is(<<"identity">> \o <<>>, <<"identity">>)
  /\ Is(<<>> \o <<"acl">>, <<"acl">>)
  /\ Is(<<>> \o <<"rbac">>, <<"rbac">>)
  /\ Is(<<"identity">> \o <<"acl">>, <<"identity", "acl">>)
  /\ Is(<<"identity">> \o <<"rbac">>, <<"identity", "rbac">>)
  /\ Is(<<"identity">> \o <<"acl", "rbac">>, <<"identity", "acl", "rbac">>)
  BY DEF Is

Ordered(j, s) ==
  /\ Len(s) \in 1..3
  /\ \A i \in 1..Len(s) : s[i] \in Levels
  /\ \A i, k \in 1..Len(s) : i < k => Rank(s[i]) < Rank(s[k])
  /\ Touches(j) \subseteq {Key(j, s[i]) : i \in 1..Len(s)}

(* Every path takes at least one lock, at most one of each level, in the   *)
(* global order, and all the locks of the state its span touches.          *)
LEMMA SequenceShape ==
  ASSUME NEW j \in Job
  PROVE  Ordered(j, LockSequence(j))
  <1> DEFINE s == LockSequence(j)
  <1>1. CASE j.kind = "KafkaTopic" /\ ~j.deleting /\ j.cluster \in RBACClusters
    <2>1. Is(s, <<"identity", "acl", "rbac">>)
      BY <1>1, Concatenations DEF LockSequence, lockIdentity, lockSubstrates, lockTopicSubstrates
    <2>2. Len(s) = 3 /\ s[1] = "identity" /\ s[2] = "acl" /\ s[3] = "rbac"
      BY <2>1 DEF Is
    <2>3. Touches(j) = {Key(j, l) : l \in {"identity", "acl", "rbac"}}
      BY <1>1 DEF Touches
    <2> QED BY <2>2, <2>3 DEF Ordered, Levels, Rank
  <1>2. CASE j.kind = "KafkaTopic" /\ ~j.deleting /\ j.cluster \notin RBACClusters
    <2>1. Is(s, <<"identity", "acl">>)
      BY <1>2, Concatenations DEF LockSequence, lockIdentity, lockSubstrates, lockTopicSubstrates
    <2>2. Len(s) = 2 /\ s[1] = "identity" /\ s[2] = "acl"
      BY <2>1 DEF Is
    <2>3. Touches(j) = {Key(j, l) : l \in {"identity", "acl"}}
      BY <1>2 DEF Touches
    <2> QED BY <2>2, <2>3 DEF Ordered, Levels, Rank
  <1>3. CASE (j.kind = "KafkaTopic" /\ j.deleting) \/ j.kind = "KafkaAccessPolicy"
    <2>1. Is(s, <<"acl">>)
      BY <1>3, Concatenations DEF LockSequence, lockIdentity, lockSubstrates
    <2>2. Len(s) = 1 /\ s[1] = "acl"
      BY <2>1 DEF Is
    <2>3. Touches(j) = {Key(j, l) : l \in {"acl"}}
      BY <1>3 DEF Touches
    <2> QED BY <2>2, <2>3 DEF Ordered, Levels, Rank
  <1>4. CASE j.kind = "KafkaRoleBinding" /\ ~j.deleting
    <2>1. Is(s, <<"identity", "rbac">>)
      BY <1>4, Concatenations DEF LockSequence, lockIdentity, lockSubstrates
    <2>2. Len(s) = 2 /\ s[1] = "identity" /\ s[2] = "rbac"
      BY <2>1 DEF Is
    <2>3. Touches(j) = {Key(j, l) : l \in {"identity", "rbac"}}
      BY <1>4 DEF Touches
    <2> QED BY <2>2, <2>3 DEF Ordered, Levels, Rank
  <1>5. CASE j.kind = "KafkaRoleBinding" /\ j.deleting
    <2>1. Is(s, <<"rbac">>)
      BY <1>5, Concatenations DEF LockSequence, lockIdentity, lockSubstrates
    <2>2. Len(s) = 1 /\ s[1] = "rbac"
      BY <2>1 DEF Is
    <2>3. Touches(j) = {Key(j, l) : l \in {"rbac"}}
      BY <1>5 DEF Touches
    <2> QED BY <2>2, <2>3 DEF Ordered, Levels, Rank
  <1>6. CASE j.kind \in {"KafkaQuota", "KafkaUser"}
    <2>1. Is(s, <<"identity">>)
      BY <1>6, Concatenations DEF LockSequence, lockIdentity, lockSubstrates
    <2>2. Len(s) = 1 /\ s[1] = "identity"
      BY <2>1 DEF Is
    <2>3. Touches(j) = {Key(j, l) : l \in {"identity"}}
      BY <1>6 DEF Touches
    <2> QED BY <2>2, <2>3 DEF Ordered, Levels, Rank
  <1> QED BY <1>1, <1>2, <1>3, <1>4, <1>5, <1>6 DEF Job, Kinds

(* A key tells its level, and is one of the registry's.                    *)
LEMMA KeyLevel ==
  ASSUME NEW i \in Job, NEW j \in Job, NEW l \in Levels, NEW m \in Levels,
         Key(i, l) = Key(j, m)
  PROVE  l = m
  BY DEF Key, LockIdentity, LockSubstrate, Levels, Job, Kinds

(* A key of a job is one of the registry.                                  *)
LEMMA KeyType ==
  ASSUME NEW j \in Job, NEW l \in Levels
  PROVE  Key(j, l) \in Keys
  BY DEF Key, LockIdentity, LockSubstrate, Levels, Job, Keys

(* The job of an idle worker is a job like any other.                      *)
LEMMA NoJobType == NoJob \in Job
  <1>1. PICK c \in Clusters, i \in Identities : TRUE
    BY NonEmptyAssumption
  <1>2. [kind |-> "KafkaTopic", deleting |-> FALSE, cluster |-> c, identity |-> i] \in Job
    BY DEF Job, Kinds
  <1> QED BY <1>2 DEF NoJob

-----------------------------------------------------------------------------
(* The inductive invariant.                                                *)

(* Until the first release a worker holds exactly the locks it has taken.  *)
PhaseInv ==
  \A w \in Workers :
    /\ phase[w] = "idle" => got[w] = 0 /\ held[w] = {}
    /\ phase[w] \in {"acquire", "gate", "span"} =>
         /\ got[w] <= Len(LockSequence(job[w]))
         /\ held[w] = {LockSequence(job[w])[i] : i \in 1..got[w]}
    /\ phase[w] = "span" => got[w] = Len(LockSequence(job[w]))

(* The registry and the workers agree on who holds what.                   *)
OwnsHeld ==
  \A w \in Workers : \A l \in held[w] : owner[Key(job[w], l)] = w

HeldByOwner ==
  \A k \in Keys : owner[k] # NoWorker =>
    \E l \in held[owner[k]] : Key(job[owner[k]], l) = k

Inv == TypeOK /\ PhaseInv /\ OwnsHeld /\ HeldByOwner

(* At first nobody holds anything.                                         *)
LEMMA InitInv == Init => Inv
  BY NoJobType, NoWorkerAssumption DEF Init, Inv, TypeOK, PhaseInv, OwnsHeld, HeldByOwner

(* What the next lock of a waiting worker is.                              *)
LEMMA NextLock ==
  ASSUME TypeOK, NEW w \in Workers, Waiting(w)
  PROVE  /\ NextLevel(w) \in Levels
         /\ NextKey(w) \in Keys
         /\ got[w] + 1 \in 1..Len(LockSequence(job[w]))
         /\ Len(LockSequence(job[w])) \in 1..3
         /\ \A i \in 1..got[w] :
              Rank(LockSequence(job[w])[i]) < Rank(NextLevel(w))
  <1>1. job[w] \in Job /\ got[w] \in 0..3
    BY DEF TypeOK
  <1>2. Ordered(job[w], LockSequence(job[w]))
    BY <1>1, SequenceShape
  <1>3. got[w] + 1 \in 1..Len(LockSequence(job[w])) /\ Len(LockSequence(job[w])) \in 1..3
    BY <1>1, <1>2 DEF Ordered, Waiting
  <1>4. NextLevel(w) \in Levels
    BY <1>2, <1>3 DEF Ordered, NextLevel
  <1>5. NextKey(w) \in Keys
    BY <1>1, <1>4, KeyType DEF NextKey
  <1>6. \A i \in 1..got[w] : Rank(LockSequence(job[w])[i]) < Rank(NextLevel(w))
    BY <1>1, <1>2, <1>3 DEF Ordered, NextLevel
  <1> QED BY <1>3, <1>4, <1>5, <1>6

(* A worker's release frees its own mutexes and nobody else's.             *)
LEMMA FreeOwn ==
  ASSUME Inv, NEW w \in Workers, NEW ls \in SUBSET held[w],
         Free({Key(job[w], l) : l \in ls}),
         held' = [held EXCEPT ![w] = held[w] \ ls],
         job' \in [Workers -> Job],
         \A v \in Workers \ {w} : job'[v] = job[v],
         job'[w] = job[w] \/ ls = held[w]
  PROVE  /\ owner' \in [Keys -> Workers \cup {NoWorker}]
         /\ OwnsHeld'
         /\ HeldByOwner'
  <1> USE DEF Inv
  <1>1. owner' \in [Keys -> Workers \cup {NoWorker}]
    BY DEF TypeOK, Free
  <1>2. held' \in [Workers -> SUBSET Levels] /\ held'[w] = held[w] \ ls
        /\ \A v \in Workers \ {w} : held'[v] = held[v]
    BY DEF TypeOK
  <1>3. ASSUME NEW v \in Workers, NEW l \in held'[v]
        PROVE  owner'[Key(job'[v], l)] = v
    <2>1. l \in held[v] /\ l \in Levels /\ (v = w => l \notin ls)
      BY <1>2, <1>3 DEF TypeOK
    <2>2. job'[v] = job[v]
      BY <1>2, <1>3
    <2>3. owner[Key(job[v], l)] = v /\ Key(job[v], l) \in Keys
      BY <2>1, KeyType DEF OwnsHeld, TypeOK
    <2>4. ASSUME NEW m \in ls, Key(job[v], l) = Key(job[w], m)
          PROVE  FALSE
      <3>1. m \in held[w] /\ m \in Levels
        BY DEF TypeOK
      <3>2. owner[Key(job[w], m)] = w
        BY <3>1 DEF OwnsHeld
      <3>3. v = w
        BY <3>2, <2>3, <2>4
      <3>4. l = m
        BY <2>1, <2>4, <3>1, KeyLevel DEF TypeOK
      <3> QED BY <3>3, <3>4, <2>1
    <2> QED BY <2>2, <2>3, <2>4 DEF Free
  <1>4. ASSUME NEW k \in Keys, owner'[k] # NoWorker
        PROVE  \E l \in held'[owner'[k]] : Key(job'[owner'[k]], l) = k
    <2>1. owner'[k] = owner[k] /\ k \notin {Key(job[w], l) : l \in ls}
      BY <1>4 DEF Free
    <2>2. owner[k] \in Workers /\ owner[k] # NoWorker
      BY <1>4, <2>1 DEF TypeOK
    <2>3. PICK l \in held[owner[k]] : Key(job[owner[k]], l) = k
      BY <2>2 DEF HeldByOwner
    <2>4. CASE owner[k] = w
      <3>1. l \in held[w] /\ l \notin ls
        BY <2>1, <2>3, <2>4
      <3>2. job'[w] = job[w]
        BY <3>1
      <3> QED BY <1>2, <2>1, <2>3, <2>4, <3>1, <3>2
    <2>5. CASE owner[k] # w
      BY <1>2, <2>1, <2>2, <2>3, <2>5
    <2> QED BY <2>4, <2>5
  <1> QED BY <1>1, <1>3, <1>4 DEF OwnsHeld, HeldByOwner

(* Every step keeps the registry and the workers in agreement.             *)
LEMMA StepInv == Inv /\ [Next]_vars => Inv'
  <1> SUFFICES ASSUME Inv, [Next]_vars PROVE Inv'
    OBVIOUS
  <1> USE DEF Inv
  <1>1. ASSUME NEW w \in Workers, NEW j \in Job, Dispatch(w, j)
        PROVE  Inv'
    <2>1. got[w] = 0 /\ held[w] = {}
      BY <1>1 DEF Dispatch, PhaseInv
    <2>2. TypeOK'
      BY <1>1 DEF Dispatch, TypeOK
    <2>3. job'[w] = j /\ \A v \in Workers \ {w} : job'[v] = job[v] /\ phase'[v] = phase[v]
      BY <1>1 DEF Dispatch, TypeOK
    <2>4. phase'[w] = "acquire" /\ UNCHANGED <<owner, got, held>>
      BY <1>1 DEF Dispatch, TypeOK
    <2>5. PhaseInv'
      <3>1. Len(LockSequence(j)) \in 1..3
        BY SequenceShape DEF Ordered
      <3>2. 1..0 = {}
        OBVIOUS
      <3> QED BY <2>1, <2>3, <2>4, <3>1, <3>2 DEF PhaseInv
    <2>6. OwnsHeld'
      BY <2>1, <2>3, <2>4 DEF OwnsHeld
    <2>7. HeldByOwner'
      <3> SUFFICES ASSUME NEW k \in Keys, owner[k] # NoWorker
                   PROVE  \E l \in held[owner[k]] : Key(job'[owner[k]], l) = k
        BY <2>4 DEF HeldByOwner
      <3>1. owner[k] \in Workers
        BY DEF TypeOK
      <3>2. PICK l \in held[owner[k]] : Key(job[owner[k]], l) = k
        BY DEF HeldByOwner
      <3>3. owner[k] # w
        BY <2>1, <3>2
      <3> QED BY <2>3, <3>1, <3>2, <3>3
    <2> QED BY <2>2, <2>5, <2>6, <2>7
  <1>2. ASSUME NEW w \in Workers, lock(w)
        PROVE  Inv'
    <2> DEFINE s == LockSequence(job[w])
    <2>0. Waiting(w) /\ owner[NextKey(w)] = NoWorker /\ job' = job
      BY <1>2 DEF lock
    <2>1. /\ NextLevel(w) \in Levels /\ NextKey(w) \in Keys
          /\ got[w] + 1 \in 1..Len(s) /\ Len(s) \in 1..3
      BY <2>0, NextLock
    <2>2. TypeOK'
      <3>1. owner' \in [Keys -> Workers \cup {NoWorker}] /\ job' \in [Workers -> Job]
        BY <1>2, <2>1 DEF lock, TypeOK
      <3>2. phase' \in [Workers -> {"idle", "acquire", "gate", "span", "exit"}]
        BY <1>2 DEF lock, TypeOK
      <3>3. got' \in [Workers -> 0..3]
        <4> DEFINE n == Len(s)
        <4>0. got[w] \in Int /\ got[w] + 1 \in 1..n /\ n \in 1..3
          BY <2>1 DEF TypeOK
        <4> HIDE DEF n
        <4>1. got[w] + 1 \in 0..3
          BY <4>0
        <4> QED BY <1>2, <4>1 DEF lock, TypeOK
      <3>4. held' \in [Workers -> SUBSET Levels]
        BY <1>2, <2>1 DEF lock, TypeOK
      <3> QED BY <3>1, <3>2, <3>3, <3>4 DEF TypeOK
    <2>3. /\ got'[w] = got[w] + 1 /\ held'[w] = held[w] \cup {NextLevel(w)}
          /\ phase'[w] \in {"acquire", "gate"}
          /\ owner'[NextKey(w)] = w
          /\ \A k \in Keys \ {NextKey(w)} : owner'[k] = owner[k]
      BY <1>2, <2>0, <2>1 DEF lock, TypeOK, Waiting
    <2>4. \A v \in Workers \ {w} : got'[v] = got[v] /\ held'[v] = held[v] /\ phase'[v] = phase[v]
      BY <1>2 DEF lock, TypeOK
    <2>5. PhaseInv'
      <3>1. held'[w] = {s[i] : i \in 1..got'[w]}
        <4>1. held[w] = {s[i] : i \in 1..got[w]}
          BY <2>0 DEF PhaseInv, Waiting
        <4>2. got[w] \in Nat
          BY DEF TypeOK
        <4>3. 1..(got[w] + 1) = (1..got[w]) \cup {got[w] + 1}
          BY <4>2
        <4> QED BY <2>3, <4>1, <4>3 DEF NextLevel
      <3>2. got'[w] <= Len(s)
        BY <2>1, <2>3
      <3> QED BY <2>0, <2>3, <2>4, <3>1, <3>2 DEF PhaseInv
    <2>6. OwnsHeld'
      <3> SUFFICES ASSUME NEW v \in Workers, NEW l \in held'[v]
                   PROVE  owner'[Key(job[v], l)] = v
        BY <2>0 DEF OwnsHeld
      <3>1. CASE v = w /\ l = NextLevel(w)
        BY <2>3, <3>1 DEF NextKey
      <3>2. CASE ~(v = w /\ l = NextLevel(w))
        <4>1. l \in held[v] /\ l \in Levels
          BY <2>3, <2>4, <3>2 DEF TypeOK
        <4>2. owner[Key(job[v], l)] = v /\ Key(job[v], l) \in Keys
          BY <4>1, KeyType DEF OwnsHeld, TypeOK
        <4>3. Key(job[v], l) # NextKey(w)
          BY <2>0, <4>2, NoWorkerAssumption
        <4> QED BY <2>3, <4>2, <4>3
      <3> QED BY <3>1, <3>2
    <2>7. HeldByOwner'
      <3> SUFFICES ASSUME NEW k \in Keys, owner'[k] # NoWorker
                   PROVE  \E l \in held'[owner'[k]] : Key(job[owner'[k]], l) = k
        BY <2>0 DEF HeldByOwner
      <3>1. CASE k = NextKey(w)
        BY <2>3, <3>1 DEF NextKey
      <3>2. CASE k # NextKey(w)
        <4>1. owner'[k] = owner[k] /\ owner[k] \in Workers /\ owner[k] # NoWorker
          BY <2>3, <3>2 DEF TypeOK
        <4>2. PICK l \in held[owner[k]] : Key(job[owner[k]], l) = k
          BY <4>1 DEF HeldByOwner
        <4>3. l \in held'[owner[k]]
          BY <2>3, <2>4, <4>1, <4>2
        <4> QED BY <4>1, <4>2, <4>3
      <3> QED BY <3>1, <3>2
    <2> QED BY <2>2, <2>5, <2>6, <2>7
  <1>3. ASSUME NEW w \in Workers, PassGate(w) \/ EnterSpan(w)
        PROVE  Inv'
    <2>1. UNCHANGED <<owner, job, got, held>>
      BY <1>3 DEF PassGate, EnterSpan
    <2>2. TypeOK'
      BY <1>3 DEF PassGate, EnterSpan, TypeOK
    <2>3. PhaseInv'
      BY <1>3, <2>1 DEF PassGate, EnterSpan, PhaseInv, TypeOK
    <2> QED BY <2>1, <2>2, <2>3 DEF OwnsHeld, HeldByOwner
  <1>4. ASSUME NEW w \in Workers, unlockSubstrates(w)
        PROVE  Inv'
    <2> DEFINE ls == held[w] \cap {"acl", "rbac"}
    <2>1. held' = [held EXCEPT ![w] = held[w] \ ls]
      BY <1>4 DEF unlockSubstrates, TypeOK
    <2>2. Free({Key(job[w], l) : l \in ls}) /\ UNCHANGED <<job, got>>
      BY <1>4 DEF unlockSubstrates
    <2>3. /\ owner' \in [Keys -> Workers \cup {NoWorker}] /\ OwnsHeld' /\ HeldByOwner'
      BY <2>1, <2>2, FreeOwn DEF TypeOK
    <2>4. TypeOK'
      BY <1>4, <2>1, <2>2, <2>3 DEF unlockSubstrates, TypeOK
    <2>5. PhaseInv'
      BY <1>4, <2>1, <2>2 DEF unlockSubstrates, PhaseInv, TypeOK
    <2> QED BY <2>3, <2>4, <2>5
  <1>5. ASSUME NEW w \in Workers, unlockIdentity(w)
        PROVE  Inv'
    <2>1. held' = [held EXCEPT ![w] = held[w] \ held[w]]
      BY <1>5 DEF unlockIdentity, TypeOK
    <2>2. Free({Key(job[w], l) : l \in held[w]}) /\ UNCHANGED <<job, got>>
      BY <1>5 DEF unlockIdentity, HeldKeys
    <2>3. /\ owner' \in [Keys -> Workers \cup {NoWorker}] /\ OwnsHeld' /\ HeldByOwner'
      BY <2>1, <2>2, FreeOwn DEF TypeOK
    <2>4. TypeOK'
      BY <1>5, <2>1, <2>2, <2>3 DEF unlockIdentity, TypeOK
    <2>5. PhaseInv'
      BY <1>5, <2>1, <2>2 DEF unlockIdentity, PhaseInv, TypeOK
    <2> QED BY <2>3, <2>4, <2>5
  <1>6. ASSUME NEW w \in Workers, Return(w)
        PROVE  Inv'
    <2>1. held' = [held EXCEPT ![w] = held[w] \ held[w]]
      BY <1>6 DEF Return, TypeOK
    <2>2. Free({Key(job[w], l) : l \in held[w]})
      BY <1>6 DEF Return, HeldKeys
    <2>3. job' \in [Workers -> Job] /\ \A v \in Workers \ {w} : job'[v] = job[v]
      BY <1>6, NoJobType DEF Return, TypeOK
    <2>4. /\ owner' \in [Keys -> Workers \cup {NoWorker}] /\ OwnsHeld' /\ HeldByOwner'
      BY <2>1, <2>2, <2>3, FreeOwn
    <2>5. TypeOK'
      BY <1>6, <2>1, <2>3, <2>4 DEF Return, TypeOK
    <2>6. PhaseInv'
      BY <1>6, <2>1, <2>3 DEF Return, PhaseInv, TypeOK
    <2> QED BY <2>4, <2>5, <2>6
  <1>7. CASE UNCHANGED vars
    BY <1>7 DEF vars, TypeOK, PhaseInv, OwnsHeld, HeldByOwner
  <1> QED BY <1>1, <1>2, <1>3, <1>4, <1>5, <1>6, <1>7 DEF Next, Step

(* So the invariant always holds.                                          *)
LEMMA InvHolds == Spec => []Inv
  BY InitInv, StepInv, PTL DEF Spec

-----------------------------------------------------------------------------

(* Two workers in their spans that touch one key would both own it.        *)
LEMMA InvExcludes == Inv => WritersExclude
  <1> SUFFICES ASSUME Inv, NEW v \in Workers, NEW w \in Workers, v # w,
                      phase[v] = "span", phase[w] = "span",
                      NEW k \in Touches(job[v]), k \in Touches(job[w])
               PROVE  FALSE
    BY DEF WritersExclude
  <1>1. ASSUME NEW u \in Workers, phase[u] = "span", k \in Touches(job[u])
        PROVE  owner[k] = u
    <2>1. job[u] \in Job
      BY DEF Inv, TypeOK
    <2>2. PICK i \in 1..Len(LockSequence(job[u])) : k = Key(job[u], LockSequence(job[u])[i])
      BY <1>1, <2>1, SequenceShape DEF Ordered
    <2>3. LockSequence(job[u])[i] \in held[u]
      BY <1>1, <2>2 DEF Inv, PhaseInv
    <2> QED BY <2>2, <2>3 DEF Inv, OwnsHeld
  <1> QED BY <1>1

(* Whoever holds what a worker waits for holds a lock of that level; if it *)
(* is blocked itself, it waits for a lock of a higher level.               *)
LEMMA HolderOutranks ==
  ASSUME Inv, NEW w \in Workers, Blocked(w)
  PROVE  /\ Holder(w) \in Workers
         /\ Rank(NextLevel(w)) \in 1..3
         /\ Blocked(Holder(w)) => Rank(NextLevel(w)) < Rank(NextLevel(Holder(w)))
  <1> DEFINE h == Holder(w)
  <1>1. NextKey(w) \in Keys /\ NextLevel(w) \in Levels /\ job[w] \in Job
    BY NextLock DEF Blocked, Inv, TypeOK
  <1>2. h \in Workers
    BY <1>1 DEF Holder, Blocked, Inv, TypeOK
  <1>3. Rank(NextLevel(w)) \in 1..3
    BY <1>1 DEF Rank, Levels
  <1>4. ASSUME Blocked(h)
        PROVE  Rank(NextLevel(w)) < Rank(NextLevel(h))
    <2>1. PICK l \in held[h] : Key(job[h], l) = NextKey(w)
      BY <1>1 DEF Holder, Blocked, Inv, HeldByOwner
    <2>2. l \in Levels /\ job[h] \in Job
      BY <1>2, <2>1 DEF Inv, TypeOK
    <2>3. l = NextLevel(w)
      BY <1>1, <2>1, <2>2, KeyLevel DEF NextKey
    <2>4. Waiting(h)
      BY <1>4 DEF Blocked
    <2>5. PICK i \in 1..got[h] : l = LockSequence(job[h])[i]
      BY <1>2, <2>1, <2>4 DEF Inv, PhaseInv, Waiting
    <2> QED BY <1>2, <2>3, <2>4, <2>5, NextLock DEF Inv
  <1> QED BY <1>2, <1>3, <1>4

(* A chain of waits climbs one level at every hop, and there are three.    *)
LEMMA InvChainsEnd == Inv => WaitChainsEnd
  <1> SUFFICES ASSUME Inv, NEW w \in Workers, Blocked(w), Blocked(Holder(w)),
                      Blocked(Holder(Holder(w))), Blocked(Holder(Holder(Holder(w))))
               PROVE  FALSE
    BY DEF WaitChainsEnd
  <1> DEFINE a == Holder(w)
             b == Holder(a)
             c == Holder(b)
  <1>1. a \in Workers /\ Rank(NextLevel(w)) \in 1..3 /\ Rank(NextLevel(w)) < Rank(NextLevel(a))
    BY HolderOutranks
  <1>2. b \in Workers /\ Rank(NextLevel(a)) \in 1..3 /\ Rank(NextLevel(a)) < Rank(NextLevel(b))
    BY <1>1, HolderOutranks
  <1>3. c \in Workers /\ Rank(NextLevel(b)) \in 1..3 /\ Rank(NextLevel(b)) < Rank(NextLevel(c))
    BY <1>2, HolderOutranks
  <1>4. Rank(NextLevel(c)) \in 1..3
    BY <1>3, HolderOutranks
  <1> QED BY <1>1, <1>2, <1>3, <1>4

(* Spans that touch the same ACLs, role bindings or broker identity never  *)
(* overlap, whatever the numbers of workers, clusters and identities       *)
(* (locks.go: the sequences of the five reconcilers).                      *)
THEOREM WritersAreExclusive == Spec => []WritersExclude
  BY InvHolds, InvExcludes, PTL

(* The order identity, acl, rbac makes every wait chain end: no deadlock   *)
(* among reconciles (locking.go: "deadlock-free").                         *)
THEOREM NoCircularWait == Spec => []WaitChainsEnd
  BY InvHolds, InvChainsEnd, PTL

=============================================================================
