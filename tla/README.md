# Monedula GitOps in TLA+

Monedula drives Kafka clusters (topics, ACLs, role bindings, quotas, SCRAM users,
schemas, mirror topics) to what Kubernetes custom resources or manifest files declare.
The same diff and executor serve a one-shot CLI and a Kubernetes operator. In the
operator five reconcilers run concurrently, decide from informer caches that lag, share
the ACLs and role bindings of a cluster, and must survive failing calls and restarts at
any point. The CLI and the importer read a cluster call by call, without locks, while it
moves under them, and write with requests whose answers may be lost.

Every definition that models code is mapped to its lines in `PROJECT.json`. Terms:
a *CR* is a custom resource, a *tuple* one ACL, a *span* the part of a reconcile
between its first read of shared broker state and its last write.

## 1. Inventory

| Component | State it keeps | Operations | Hard behaviour | What makes it correct |
|---|---|---|---|---|
| `managedset`, `access` | none (pure) | dedupe, attribution merge, conflict rejection, scope fold | list order of the API server | result free of order; one veto anywhere vetoes; no Allow and Deny of one subject |
| Policy controller, ACL view, shield | finalizer and status on the API server, ACLs on the broker | reconcile, delete, requeue | stale sibling specs, concurrent owners, partial applies, restarts | Ready means granted; no co-owner loses a tuple; convergence; no flapping |
| Lock registry and order | keyed in-process mutexes | lock, once-only release | nested locks of five kinds and two paths | writers of one state exclude each other; no circular wait; every reconcile returns |
| Duplicate-identity gate, topic/quota/user controllers | `status.phase`, finalizer, broker entity | gate, quorum recheck, co-claimant scan, cleanup | two CRs created inside the cache lag; deletion of winner or loser | only the oldest claimant writes; a finalizer never takes a survivor's state |
| KafkaUser engine | `appliedPasswordRef`, generated Secret, SCRAM credentials | source, mint, upsert, drop old mechanism | passwords cannot be read back; crash between Secret and broker | broker accepts the declared password; never a password nobody can read; no lock-out |
| Executor | none | ordering, risk gates, continue after failure | one of several operations fails | failed runs are never reported Ready; gated operations need approval; dependents of a failed creation do not run |
| Role-binding controller, RBAC view | bindings in MDS | as for ACLs, plus an identity resolved through MDS | as for ACLs | as for ACLs |
| Topic engine, schemas | status; topics, configs, ACLs, subjects on the cluster | resolve, read, diff, create, alter, register, set level | answers lost after taking effect, producers and tools acting meanwhile, approvals withdrawn | the status can be believed; only what the declaration allows is written; what can be attained is attained |
| Mirror topics | none (the link's state on the cluster) | snapshot, classify, pre-write check, one-shot POST | six reads that may contradict each other; late effects | a write meets the link's rules as just read; Unknown is never taken for Absent |
| CLI pipeline, HTTP retry | exit code | apply, verify | two repositories, late answers | exit 0 can be believed; a POST lands once |
| Importer | manifests | snapshot, fold, verify, fall back | a cluster that changes while it is read; two access backends | manifests compile back to what was read; nothing is lost without a warning; mirrors stay the link's |
| Webhooks | none | admission checks | two racing creates | the gate is the backstop |
| Watches, indexes, manager | work queues | enqueue on cluster, Secret, ConfigMap changes | lost or coalesced events | resync covers any missed event |

Interactions: the controllers share one API server (objects, status, Secrets), one
informer cache, the lock registry of the process, and per cluster one broker. Watches
turn changes into work-queue entries; at most one reconcile runs per CR, several CRs
run at once. CLI runs share only the cluster, with each other and with everybody else.
The hazards in `PROJECT.json` come from these: concurrent owners of one broker, lagging
copies of the API server, reads that are not one snapshot, and calls that fail open.

## 2. Modules

| Module | Models | Used by |
|---|---|---|
| `AccessSet` | tuples, scope keys and the cluster view at the level of sets | `ManagedSet`, `AclSubstrate` |
| `ManagedSet` | the loops of `BuildDesiredSet` and `BuildScope` | shows that the loops compute `AccessSet`'s view |
| `AclSubstrate` | policy controller + view + diff + executor + lock + shield, on one cluster | |
| `Locking` | lock registry and the lock sequences of all five kinds | |
| `IdentityGate` | topic, quota and user CRs that claim one broker identity | |
| `UserCredential` | one KafkaUser's password from Secret to broker | |
| `Executor` | taxonomy, risk gates, execution order, verdicts, exit codes | `CliRun`, `TopicReconcile` |
| `Mirror` | classification of a topic, link rules, decision table of mirrors | `CliRun`, `Importer` |
| `Compatibility` | ranking of schema levels and what a level change is | `TopicReconcile`, `TopicContract` |
| `CliRun` | concurrent runs of `apply` and `verify` on one cluster, with the mirror writer | |
| `TopicContract` | abstract: what the operator promises about a topic and its subject | refined by `TopicReconcile` |
| `TopicReconcile` | `ReconcileTopic`: topic, access and schema in the three modes | |
| `ImportBuild` | `importer.Build` and the compilers it is measured against | `Importer` |
| `Importer` | `ReadSnapshot` against a changing cluster, then `Build` | |
| `ManagedSetProofs`, `AclSubstrateProofs`, `LockingProofs`, `UserCredentialProofs`, `IdentityGateProofs`, `CliRunProofs`, `TopicReconcileProofs`, `ImporterProofs` | the theorems | |
| `MC*` | instances for TLC | |

### AccessSet and ManagedSet

A tuple is a subject (the six fields of `subjectKey`, opaque) with a permission; a
subject determines its scope key. `ManagedSet` takes one element of the input slice
per step, so all slices up to `MaxItems` are explored without being enumerated in
`Init`. `WalkComputesView` is the bridge: on a slice in FullKey order the loops yield
exactly `DesiredUnion`, `ManagedScope` and `ConsentedScope`, the operators
`AclSubstrate` uses.

### AclSubstrate

Variables: objects and status on the API server, the cache, the work queue, per CR the
place (`pc`) and the locals of its reconcile, the lock, the broker's ACLs. One action per
step of `Reconcile` that reads or writes shared state: fetch and branch, finalizer
update, lock, view, list and diff, one action per executed operation, unlock, status
write; on deletion lock, shield, `DeleteACLs`, finalizer removal. Failures are actions of
their own: a call may fail having taken effect or not. `UpdateStatus` succeeds only when
the cache has caught up, because `updateStatus` re-reads through the cache and writes
with that resourceVersion. A deletion that is not approved only requeues and so has no
step. `gen` stands for (uid, generation).

`tampered` is a history variable: tuples removed by somebody else and not restored yet.
`Settled(c)` says that c reports Ready for its present generation, which is the only
promise a user can see; the safety properties are about settled CRs, because the operator
cannot protect what no cache has seen yet.

A KafkaTopic's ACL writes go through the same view, lock, diff and shield, and it
contributes to the view as a policy does; a CR here may be either.

### Locking

A job is (kind, path, cluster, identity); `LockSequence` is the order in which its path
takes its locks: identity, then acl, then rbac. Quotas and users hold the identity lock
on both paths, topics and role bindings only when not being deleted. Releases are
explicit before the status write and deferred on every return; each is once-only, so
`Return` frees only what is still held. `Touches` states independently what the span
writes.

### IdentityGate

Two CRs, name-ordered, with creation times in whole seconds (`Create` may happen in the
second of the one before). The cached scan, the quorum recheck, the finalizer update, the
engine, the status write and the deletion path are steps under the identity lock.
`kind` is chosen once, in `Init`, from `Kinds`: `"KafkaUser"` covers users and, with the
policy Delete alone, quotas; with `"KafkaTopic"` the deletion takes no identity lock and
scans for no co-claimant, as in the code. `broker` is the object whose values the broker
holds. Webhooks are off, as by default.

### UserCredential

Passwords are numbered in the order they come into being. `stored` remembers those any
Secret has held. Secrets are read uncached, as `manager.Run` configures; the CR is read
from the cache, so a reconcile may work from an old `appliedPasswordRef`. `SourceFlips`
says whether an edit may change the source. `ReferencedPasswordConverges` leaves out states
in which a credential of the other mechanism was left behind (`NoLeftover`): the executor
reports a failed deletion of the old mechanism and no later diff asks for it again, so a
return to that mechanism finds the leftover in sync.

### Executor, Mirror and CliRun

`Executor` is the part of a run that calls nothing: the order of execution, the verdict on
one operation (terminal, gated, skipped because its topic failed, or dispatched), and what
the results mean as an exit code. The code sorts a slice twice, by name when it is rendered
and stably by group when it is executed; since every action occurs at most once per target,
both are relations here (`RenderOrder`, `executionOrder`) and a run holds the set of the
actions it has left, of which one `IsNext`. An operation is a record with `action`, `mode`
and `target`.

`CliRun` has one action per call: the reads of `computeOps` and `mirror.ReadSnapshot`, the
plan, each executed operation, for mirror writes the second snapshot, the check and the
POST. `httpretry` repeats reads, which changes nothing, so a read is one step however many
attempts it took; the link of a snapshot takes its state from `ListLinks` and the rest from
`LinkConfigs`, a later call (`WithConfigs`). A Kafka Admin call that fails may have taken
effect (`AdminCall`); a POST is sent once, and without an answer it was lost, applied, or is
still on its way (`late`, applied by `DeliverLate` at any later time). Everybody
else moves mirrors, topics, configs and link settings between any two calls. `changed` is
history: whether others acted since a run began, and since its writer began to read. It is
needed to say what a run can be blamed for.

### TopicContract and TopicReconcile

`TopicReconcile` copies the CR, its approval annotation and its schema body, reads the live
state call by call, plans, executes operation by operation and writes the status.
`Dispatch` and `DispatchFails` are the executor's calls: the failing one may have taken
effect. `ReadFails` distinguishes the reads that end the reconcile from those whose failure
is recorded and carried on with. One config key, one ACL and one subject stand
for all; schema bodies are classes of the code's schema equality.

`TopicContract` has no reads, plans or status: the operator holds one declaration that was
in force when it looked and writes only what it says, never removes, and does what cannot
be taken back only with the approval that came with the declaration.
`Contract == INSTANCE TopicContract WITH ...` maps the declaration to CR, annotation and
Secret, the operator's wish to what the reconcile copied, and the live state to itself.
`Blind` says when a level change is made without knowing the level in force: the global
default could not be read, somebody acted since the reconcile began, or the subject has no
version (the subject of `TopicLevelUnseen`).

### ImportBuild and Importer

`Importer` has one action per call of `ReadSnapshot`, in the code's order, with topics and
mirrors listed twice; a call that fails, or a topic that is gone when its configs are read,
ends the import. `ImportBuild` folds what was read: producer and consumer entries for the
ACL backend, the RBAC backend or both at once, residual tuples as policies, schema blocks with one
stamped level per topic, users, and the fallback that throws folded access away when the
manifests do not compile back. Topic configs are read one topic at a time. `touched`
is history: what changed since the import began.

## 3. Runs

| Run | Instance | Shows |
|---|---|---|
| `ManagedSet` | 2 subjects of one scope, 2 permissions, 4 modes, slices up to 3 | merge and veto are order-free; no conflict survives; loops = view |
| `AclShared` | 2 CRs, an owner that prunes and one that vetoes, 2 subjects of one scope, 1 user operation, 1 fault | exclusion, Ready means granted, finalizer, veto, shield, through any failing call, tamper or restart |
| `AclLive` | 1 CR in every mode with 2 user operations or one of them a fault; or 2 overlapping CRs and 1 user operation | convergence, no flapping |
| `Locking` | 3 workers, 1 RBAC cluster, 1 identity | exclusion; no circular wait; every reconcile returns |
| `User` | either source, 2 mechanisms, pinned and unpinned iterations, 2 user operations, 1 fault | Secret-first, upsert-before-delete, truthful watermark, every rotation applied, quiet steady state |
| `Identity` | 2 topics or 2 users, every deletion policy, 2 user operations | gate, co-claimant scan, re-creation under an old name |
| `IdentityLive` | 2 topics or 2 users, policy Delete, 1 user operation, 1 fault | the same through failures and restarts; takeover by the oldest claimant |
| `CliRun` | 2 runs of one or two repositories, mirror and topic of one name, 10 starting clusters with and without REST, 2 outside changes, 1 fault | exit 0 can be believed; one POST, one effect; mirror writes meet the rules just read; no grant on a topic whose creation failed |
| `Topic` | 5 specs (content, governance, ignored fields, DetectOnly, invalid), 1 edit, 1 outside change, 1 fault | truthful status in every mode; refinement of `TopicContract`; convergence |
| `Import` | every subset of 8 ACLs and 4 bindings for three backend choices; every set of subjects; every kind of mirror with 2 changes | round trip, nothing lost silently, mirrors keep their owner |

Bounds. Two CRs suffice for every pairwise hazard of the ACL model (the prune and the
shield compare one CR with the union of the others, and the theorems lift the safety
part to any number). In the initial states of `AclSubstrate` the operator has just started
and its cache is synced; in those of `IdentityGate` the claims are new and the cache has
seen none. So one user operation is a deletion, an edit, an annotation or a further creation
that races reconciles from a cache without it; the second one in
`AclLive` and `Identity` allows edit-then-delete and delete-then-create. One fault
covers each single failure at every step. Three workers give a chain of two waits and every
circle of two or three locks; the theorem covers any number of workers and chains of three.
`User` fixes the source of the password (`SourceFlips = FALSE`): flips are the subject of a
hazard that no run covers (`WatermarkTruthful` fails with `SourceFlips = TRUE`; it takes two
edits of the source within one status conflict). In `CliRun` two outside changes let a name
be freed and taken again, or a mirror be promoted and its topic changed, between two reads
of one run, while the other run is a third writer; in `Topic` one edit, one change and one
fault combine, so a producer's version, an ambiguous write and a new spec can meet in one
reconcile, and the refinement is checked on all of it; in `Import` the mixes of grants are
exhaustive over one principal because the fold works principal by principal, and two changes
turn a topic into a mirror and back between its two listings. The state constraint of `AclLive`
limits the user operations and faults of its two situations; no step of the operator can
leave it, so its fairness is untouched. `SYMMETRY` is used only in runs without liveness.
`CHECK_DEADLOCK FALSE` is set where the system may really stop: every CR deleted, or the input slice at its end.

### Runs that disagree with a comment

These check a property exactly as a comment states it; TLC finds the code doing
otherwise. Each is a finding in `PROJECT.json`.

| Run | Comment | What the code does |
|---|---|---|
| `UserGenerateCrash` | `user.go:154` the next reconcile applies the stored password | an owned Secret is reused without rotation, and the old credential is in sync |
| `TopicLevelUnseen` | `diff.go:656` a brand-new subject inherited the global default; `:1036` below an explicit level is gated | a subject without versions is not read, so a level of its own, set in governance mode, is lowered as an ungated Raise |

### Observations without a run of their own

- Contradicting policies (`reconcile.go:1340` "no flapping"): the loser creates from its own
  tuples, the winner prunes from the union, for ever. `NoFlapping` fails in `AclSubstrate`
  with one `Allow(s1)` and one `Deny(s1)` spec, and so do `VetoRespected` and
  `SharedTupleSurvivesDeletion`: a policy whose Deny lost the conflict is outside the union,
  so it neither vetoes a prune (`operations.go:212` speaks of EVERY covering resource) nor
  keeps the tuple when a co-owner is deleted (`aclview.go:140`). Without contradictions
  (`ConflictFree`) all of them hold, and the last two are theorems.
- `reconcile.go:35` says DetectOnly never mutates; an enforcing policy prunes in a scope that
  only a DetectOnly policy declared.
- `kafkatopic_controller.go:476`: a rival topic is admitted while the elder is being deleted;
  the elder's finalizer then deletes the broker topic under the rival that reports Ready.
  The next resync repairs it (`SettlesOnOldest`), which is why `ReadyHasBrokerState` leaves
  topics out.
- `compatRank` is a line, the levels are not: `BACKWARD_TRANSITIVE` to `FULL` ranks as a
  Raise and drops the transitive guarantee without approval. The contract uses the code's
  ranking.
- Import: a key subject that inherits its level is stamped with the value subject's level
  without a warning, so the next apply sets it
  (`scenarios/23-schema-import-round-trip/README.md:39` says "drift-free");
  `NothingLostSilently` asks only about subjects with a level of their own.
- Import: the fallback of `build.go:315` does not re-attach the user and classification
  warnings; `NothingLostSilently` therefore does not count on them. ACLs of an internal mirror
  are imported even when its link syncs them, since internal topics are dropped before
  mirrors are classified; `MirrorsKeepTheirOwner` speaks of the other topics.

In `IdentityGate` the quorum recheck before a
cleanup can be dropped without breaking `CleanupSparesClaimants`, since a claimant that
has been through the gate was reconciled from the same cache the scan reads. The recheck
protects only claimants that have not reconciled yet.

## 4. Fairness

- `SF(ReconcileStep(c))` in `AclSubstrate` and `IdentityGate`: workers keep running, the
  work queue is first come first served, `sync.Mutex` hands over to a starving waiter, and
  the resync interval or the error backoff brings every CR back. Strong rather than weak
  because a waiter for the mutex is disabled again and again.
- `WF(CacheSync)`: the watch delivers.
- `SF(lock(w))`, `WF(Step(w))` in `Locking`: the same mutex, and calls that end since
  every client has a timeout.
- `WF(ReconcileUser)`, `SF(UpdateStatus)` in `UserCredential`: the status write retries
  on conflict and the cache catches up between writes.
- `WF(Operator)` in `TopicReconcile`: a reconcile in progress goes on, and the resync
  interval or the error backoff starts another after each. It has one worker and no lock, so
  weak fairness is enough.

`CliRun` and `Importer` have safety properties only: a run that stops has promised nothing.

Users, faults, tampering and crashes have no fairness and are bounded, so "eventually"
means: after the last of them.

## 5. Proofs

Every safety property that a passing run checks, invariant, action property or refinement,
is also a theorem. The theorems hold for every value of the constants that satisfies the
named assumptions of the module (sets of CRs, specs, runs, workers, clusters and so on need
not be finite), for any number of user operations, outside changes and faults. The
assumptions say that the constants have the shape the code's types give them (a mode is one
of four, a spec is `valid` or not, a distinguished value such as `NoCR` is not a CR) and what
validation rejects. Two further hypotheses occur, each stated in the theorem it is needed in:
`ConflictFree` and `~SourceFlips`, see below.

Each theorem is reached in the same way: an inductive invariant that TLC checked first on the
instance of the run, one lemma per action that it is kept (or per group of actions that
change the same things), `Init` and `Next` from these, and the last step by `PTL`.

- `ManagedSetProofs`. `NoConflict`, `MergeOrderFree`, `VetoReachesScope`, `TypeCorrect` from
  `WalkInv`: `bySubject` records the permission of exactly the tuples in `out`, and each scope
  entry is the merge of the tuples already visited. `RejectionsAreReal` and
  `WalksComputeTheView` add `OrderInv`: what was rejected lost to an accepted rival, and on a
  slice in FullKey order only a `Deny` can lose, because the `Allow` of its subject comes
  first. The second theorem is what entitles `AclSubstrate` to the set-level view.
- `AclSubstrateProofs`. `TypeCorrect`, `SpansAreExclusive`, `GranterHasFinalizer` from
  `BaseInv`: types, the mutex is held by exactly the reconcile inside the span
  (`LockInv`), a cached or fetched copy is never newer than the object and equal
  generations have equal specs (`VersionInv`), what each `pc` knows of its copy
  (`PathInv`), and that a finalizer seen in a copy of a live object is still there
  (`FinalizerInv`). `ReadyIsGranted`, `VetoIsRespected`, `SharedTuplesSurvive` under
  `ConflictFree` (no two specs contradict each other; without it they are false, see the
  observations) from two more parts: `ViewInv`, a
  view or a set of pending deletions in the span accounts for every settled CR, and
  `GrantInv`, settled CRs and reconciles about to report Ready are granted. The key
  argument: a CR gets to Ready only through a span that began from its present
  generation, and its copy is never newer than the cache, so from then on the cache has
  that generation and every later view contains it; and while a reconcile still acts on an
  earlier view it holds the lock, so no other CR can have entered such a span since.
- `LockingProofs`. `WritersAreExclusive` and `NoCircularWait` from: the owner of a key is
  exactly the worker whose held levels include it, and the held levels are a prefix of
  the lock sequence while acquiring. A chain strictly climbs identity < acl < rbac, so it
  has at most three hops.
- `UserCredentialProofs`. `SecretComesFirst` from `PasswordInv` (a password on its way from a
  Secret to the broker is one a Secret has held); `MechanismChangeIsSafe`, the action property
  `NeverLockedOut`, from `ReplacedInv` (at the deletion of the old mechanism the new one is in
  place, unless somebody removed it, and is another one). `WatermarkIsTruthful` needs
  `~SourceFlips`: every copy of the watermark is at most the version the reconcile in progress
  read, that is at most the Secret's, and equal versions mean equal passwords (`VersionInv`);
  so a watermark that equals the Secret's version means that the last credential is the
  Secret's (`WatermarkInv`). With flips it is false; see the bounds of `User`.
- `IdentityGateProofs`. `GateHoldsYoungerBack` from `ElderInv`: whoever has passed the gate or
  was ever Ready has no elder among the live claimants, and can get none, since the clock does
  not run backwards. That the gate's own scan, of a cache that may lag, is followed by a quorum
  recheck is what makes it inductive. `ReadyIsServed` and `FinalizerSparesClaimants` are about users
  and quotas, whose deletion takes the identity lock: while a finalizer cleans up, all other
  live claimants are ones that came after its recheck and have been through no gate
  (`SpareInv`).
- `CliRunProofs`. `CliInv` is about one run at a time; the steps of everybody else either leave
  the cluster alone or are noted in `changed[r]`. `PostInv` says that a POST has not been sent
  as long as it is left to do and is never both landed and late (`OnePostPerRun`); `DependInv`
  that a failed creation is remembered and a grant is tried only after every creation
  (`NoGrantOnFailedTopic`); `ViewInv` and `CheckInv` that what was read is what there is until
  somebody interferes, so what the pre-write check permitted is still permitted
  (`WritesAreChecked`); `TruthInv` that as long as nothing failed, what the cluster lacks of
  the declaration is exactly what the operations left will bring (`Wanted`), unless one is left
  that cannot succeed (`Stuck`); with none left there is nothing missing
  (`ExitZeroIsBelievable`).
- `TopicReconcileProofs`. `StatusCanBeBelieved` by the same two ideas, `ViewInv` up to the plan
  and `CourseInv` after it, over topic, ACL, schema and level; that a level is raised before a
  schema is registered under it (`RaiseComesFirst`) is needed, because the registration ends
  the time in which a level is unseen. `ReconcileHonoursContract` is the refinement: reads, plans,
  reports and crashes are `Look` (`LookingIsAllowed`), an operation that took effect is one clause of
  `Act` (`EffectIsAllowed`), everything else is `Declare` or `Interfere`. It needs from the
  invariant that an irreversible action is only dispatched with the approval that was copied
  (`VerdictFacts`), and `LevelInv`, that a planned raise is one of the level in force until
  somebody interferes, the default is unknown or the subject is new (`Blind`).
- `ImporterProofs`. What `Build` makes of a snapshot is proved once for every snapshot,
  including the fallback: `ImportIsFaithful` (either the folded manifests compile to what was
  read or the explicit ones are used, which do so by themselves) and `ImportAccountsForAll`.
  `OwnersAreKept` also needs `ReadInv`: for every name nobody touched the two listings, the
  mirror entries and the classification agree with the cluster.

Only model-checked:

- Liveness (`EventuallySettled`, `NoFlapping`, `ReconcilesReturn`, `ReferencedPasswordConverges`,
  `SteadyStateIsQuiet`, `SettlesOnOldest`): fairness and ENABLED are out of the prover's reach.
- The two properties that are false (`StoredPasswordIsApplied`, `NoUngatedLowering`).

## 6. Not modelled, and why

- Validation, defaulting and tenancy: predicates on one manifest that end a reconcile or a
  run before any state is touched. `TopicReconcile` takes their verdict as an input;
  `SpecsAssumption` excludes self-contradicting specs, which validation rejects. The compile
  of rules into tuples is a constant except in `ImportBuild`, which needs it.
- Role bindings in the operator: the KafkaRoleBinding controller and the RBAC branch of
  `ReconcileTopic` repeat the ACL path (view, lock, diff, shield) over MDS. Their locks are in
  `Locking`, their compilation in `ImportBuild`; the identity resolved through MDS is not
  modelled. A failed role-binding step of a topic leaves the phase it had, which no property
  covers.
- In `TopicReconcile` the registry refuses a schema only as a fault, never as incompatible
  with an earlier version: such a refusal repeats itself until the schema is edited, so
  `EventuallySettled` is a statement about schemas the registry finds compatible. The
  best-effort observation after an apply (`reconcile.go:430`) fills status fields no property reads.
- A KafkaTopic's partitions and replication factor in `CliRun` (they are in `TopicReconcile`);
  compile errors and a missing MDS configuration in `ImportBuild`, which only lead to the
  fallback that is modelled.
- Quota values: diffed and written as one opaque value.
- Deletion of subjects, and the deletion of a user with several mechanisms live.
- Import: metadata names and namespaces, quotas, `verifySchemaSubjects`, writing the files.
- KafkaCluster readiness, webhooks (off by default, which is the harder case for the gate),
  leader election, events, metrics, logging, rendering, the loader, `doctor`.
- Wire protocols and client construction. A client's call is atomic, fails, or fails after
  taking effect; that it takes effect later still is modelled for the POSTs of `CliRun` only.
  The delays and `Retry-After` arithmetic of `httpretry` decide only when.

## 7. Plan

1. `WatermarkTruthful` with source flips: the weakest condition on edits and status conflicts
   under which it holds, instead of `~SourceFlips`; and what `ReadyMeansGranted` promises to the
   winners when specs do contradict each other, instead of `ConflictFree`.
2. `RbacSubstrate`: role bindings of topics and KafkaRoleBindings in MDS, with the identity
   resolved through MDS, and an abstract co-owned substrate that it and `AclSubstrate`
   implement; no tuple is left behind by the last owner's approved deletion.
3. Deletion of a user with several mechanisms live; cluster readiness and its watches; webhooks
   racing creates.
