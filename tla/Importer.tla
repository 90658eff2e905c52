------------------------------ MODULE Importer ------------------------------
(***************************************************************************)
(* "import cluster": importer.ReadSnapshot against a cluster that changes  *)
(* between its calls, then importer.Build.                                 *)
(*                                                                         *)
(* Nothing is locked and nothing is read twice except the topics and the   *)
(* mirrors, which are listed once by the importer and once more by the     *)
(* classification snapshot (mirror.ReadSnapshot).  The calls come in the   *)
(* order of Reads; a call that fails ends the import with exit code 2.     *)
(*                                                                         *)
(* The cluster is [topics, entry, aclSync, acls, bindings, creds,          *)
(* subjects]: entry is the mirror status Kafka REST lists for a name,      *)
(* "none" for no mirror, and aclSync what the link says of acl.sync.enable *)
(* ("unknown" when it says nothing).                                       *)
(***************************************************************************)
EXTENDS ImportBuild

CONSTANTS
  Names,       \* topic names
  Internal,    \* those of platform topics, which are not imported
  Imports,     \* initial [cluster, backends, rest, changes] situations
  Statuses     \* mirror statuses the environment may set

ACLsSeen     == UNION {i.cluster.acls : i \in Imports}
BindingsSeen == UNION {i.cluster.bindings : i \in Imports}
CredsSeen    == UNION {i.cluster.creds : i \in Imports}
SubjectsSeen == UNION {i.cluster.subjects : i \in Imports}

(* Kafka REST may list a status the importer has never heard of.           *)
EntriesSeen ==
  {"none"} \cup Statuses \cup UNION {{i.cluster.entry[n] : n \in Names} : i \in Imports}

Syncs == {"true", "false", "unknown"}

Clusters ==
  [topics : SUBSET Names, entry : [Names -> EntriesSeen], aclSync : Syncs, acls : SUBSET ACLsSeen,
   bindings : SUBSET BindingsSeen, creds : SUBSET CredsSeen, subjects : SUBSET SubjectsSeen]

(* What the calls have returned so far.                                    *)
Snapshots ==
  [listed : SUBSET Names, described : SUBSET Names, named : BOOLEAN,
   again : SUBSET Names, entries : [Names -> EntriesSeen], topics : SUBSET Names,
   mirrors : SUBSET Names, deferred : SUBSET Names, stale : SUBSET Names,
   aclSync : Syncs, acls : SUBSET ACLsSeen, creds : SUBSET CredsSeen,
   bindings : SUBSET BindingsSeen, subjects : SUBSET SubjectsSeen]

ASSUME ImportAssumption ==
  /\ Internal \subseteq Names
  /\ \A i \in Imports :
       /\ i.cluster \in Clusters /\ i.rest \in BOOLEAN
       /\ i.changes \in Nat /\ i.backends \subseteq {"acl", "rbac"}

(* A registry has one subject of a name, and a topic's TopicName subjects  *)
(* are named after it; Kafka knows two SCRAM mechanisms.                   *)
ASSUME ReadAssumption ==
  /\ \A s \in SubjectsSeen : s.kind \in {"value", "key", "topicRecord", "record", "plain"}
  /\ \A i \in Imports : \A x, y \in i.cluster.subjects :
       x.kind \in {"value", "key"} /\ x.kind = y.kind /\ x.topic = y.topic => x = y
  /\ \A c \in CredsSeen : \E m \in {"SCRAM-SHA-256", "SCRAM-SHA-512"} :
       c = [user |-> c.user, mech |-> m]

VARIABLES
  live,        \* the cluster
  backends,    \* authorization.accessBackends
  rest,        \* the cluster has a Kafka REST endpoint
  pc,          \* the next call, "build", "done" or "failed"
  snap,        \* what the calls so far returned
  result,      \* what Build made of it
  changes,     \* changes the environment may still make
  touched      \* names, and "link", changed since the import began

vars == <<live, backends, rest, pc, snap, result, changes, touched>>

M == INSTANCE Mirror

Pending == {"topics", "configs", "mirrors", "again", "entries", "link", "acls", "creds", "bindings",
            "subjects"}

NoSnapshot ==
  [listed |-> {}, described |-> {}, named |-> FALSE, again |-> {}, entries |-> [n \in Names |-> "none"],
   topics |-> {}, mirrors |-> {}, deferred |-> {}, stale |-> {}, aclSync |-> "unknown",
   acls |-> {}, creds |-> {}, bindings |-> {}, subjects |-> {}]

Nothing == [topics |-> {}, warnings |-> {}]

Init ==
  /\ \E i \in Imports :
       /\ live = i.cluster /\ backends = i.backends /\ rest = i.rest /\ changes = i.changes
  /\ pc = "topics"
  /\ snap = NoSnapshot
  /\ result = Nothing
  /\ touched = {}

Reading(call, update, next) ==
  /\ pc = call
  /\ snap' = update
  /\ pc' = next
  /\ UNCHANGED <<live, backends, rest, result, changes, touched>>

Mirrored == {n \in Names : live.entry[n] # "none"}

(* ListTopics; internal topics are passed over.                            *)
ListTopics ==
  Reading("topics", [snap EXCEPT !.listed = live.topics \ Internal], "configs")

(* DescribeTopicConfigs, topic by topic: one that is gone fails the import.*)
DescribeTopicConfigs ==
  \/ \E n \in (snap.listed \ snap.described) \cap live.topics :
       Reading("configs", [snap EXCEPT !.described = @ \cup {n}], "configs")
  \/ /\ snap.listed = snap.described
     /\ IF rest THEN Reading("configs", snap, "mirrors")
        ELSE Reading("configs", [snap EXCEPT !.topics = snap.listed], "acls")

(* classifyMirrors: the first ListMirrors only says which links' configs   *)
(* to read.                                                                *)
ListMirrors ==
  Reading("mirrors", [snap EXCEPT !.named = Mirrored # {}], "again")

(* mirror.ReadSnapshot: topics, then mirrors, then the links' configs.     *)
ListTopicsAgain == Reading("again", [snap EXCEPT !.again = live.topics], "entries")

ListMirrorsAgain == Reading("entries", [snap EXCEPT !.entries = live.entry], "link")

ClassOf(n) == M!Classify(TRUE, n \in snap.again, [M!NoEntry EXCEPT !.status = snap.entries[n]])

(* A listed mirror whose topic is missing is refused, except that a        *)
(* STOPPED one is only reported.                                           *)
StaleEntries ==
  {n \in Names \ Internal : snap.entries[n] \in M!Stopped /\ n \notin snap.again}

Refused ==
  \/ \E n \in Names \ Internal :
       snap.entries[n] # "none" /\ ClassOf(n) = "Unknown" /\ n \notin StaleEntries
  \/ \E n \in snap.listed : ClassOf(n) = "Unknown"

(* The split by kind, of the names the importer itself listed: one that    *)
(* vanished in between (Absent) stays a topic.  A link config that cannot  *)
(* be read leaves its ACL sync unknown.                                    *)
classifyMirrors(configRead) ==
  [snap EXCEPT
     !.topics   = {n \in snap.listed : ClassOf(n) \in {"Normal", "StoppedFormerMirror", "Absent"}},
     !.mirrors  = {n \in snap.listed : ClassOf(n) = "Mirror"},
     !.deferred = {n \in snap.listed : ClassOf(n) = "StoppingMirror"},
     !.stale    = StaleEntries,
     !.aclSync  = IF snap.named /\ configRead THEN live.aclSync ELSE "unknown"]

LinkConfigs ==
  /\ ~Refused
  /\ \E configRead \in BOOLEAN : Reading("link", classifyMirrors(configRead), "acls")

ListACLs == Reading("acls", [snap EXCEPT !.acls = live.acls], "creds")

ListScramCredentials ==
  Reading("creds", [snap EXCEPT !.creds = live.creds],
          IF "rbac" \in backends THEN "bindings" ELSE "subjects")

ListRoleBindings == Reading("bindings", [snap EXCEPT !.bindings = live.bindings], "subjects")

(* ListSubjects and GetSubject of each; one that vanished is passed over.  *)
ReadSubjects == Reading("subjects", [snap EXCEPT !.subjects = live.subjects], "build")

(* Any call may fail, and two of them fail for what they find.             *)
ReadFails ==
  /\ pc \in Pending
  /\ pc' = "failed"
  /\ UNCHANGED <<live, backends, rest, snap, result, changes, touched>>

BuildManifests ==
  /\ pc = "build"
  /\ result' = Build(snap, backends)
  /\ pc' = "done"
  /\ UNCHANGED <<live, backends, rest, snap, changes, touched>>

(***************************************************************************)
(* Meanwhile.                                                              *)
(***************************************************************************)
Change(what, new) ==
  /\ changes > 0 /\ pc \in Pending \cup {"build"}
  /\ live' = new
  /\ changes' = changes - 1
  /\ touched' = touched \cup what
  /\ UNCHANGED <<backends, rest, pc, snap, result>>

TopicMoves(n) ==
  Change({n}, [live EXCEPT !.topics = IF n \in @ THEN @ \ {n} ELSE @ \cup {n}])

MirrorMoves(n) ==
  \E st \in Statuses :
    /\ st # live.entry[n] /\ rest
    /\ Change({n}, [live EXCEPT !.entry[n] = st,
                                !.topics = IF st \in M!Healthy THEN @ \cup {n} ELSE @])

SyncFlips ==
  \E s \in {"true", "false"} :
    s # live.aclSync /\ rest /\ Change({"link"}, [live EXCEPT !.aclSync = s])

Toggle(set, x) == IF x \in set THEN set \ {x} ELSE set \cup {x}

GrantsMove ==
  \/ \E a \in ACLsSeen : Change({}, [live EXCEPT !.acls = Toggle(@, a)])
  \/ \E b \in BindingsSeen : Change({}, [live EXCEPT !.bindings = Toggle(@, b)])

Next ==
  \/ ListTopics \/ DescribeTopicConfigs \/ ListMirrors \/ ListTopicsAgain \/ ListMirrorsAgain
  \/ LinkConfigs \/ ListACLs \/ ListScramCredentials \/ ListRoleBindings \/ ReadSubjects
  \/ ReadFails \/ BuildManifests
  \/ \E n \in Names : TopicMoves(n) \/ MirrorMoves(n)
  \/ SyncFlips \/ GrantsMove

Spec == Init /\ [][Next]_vars

-----------------------------------------------------------------------------
(***************************************************************************)
(* Properties.                                                             *)
(***************************************************************************)
TypeOK ==
  /\ live \in Clusters
  /\ backends \subseteq {"acl", "rbac"} /\ rest \in BOOLEAN
  /\ pc \in Pending \cup {"build", "done", "failed"}
  /\ snap \in Snapshots
  /\ changes \in Nat /\ touched \subseteq Names \cup {"link"}

Unfaithful == <<"not represented faithfully", "acls">> \in result.warnings

SameScope(a, b) ==
  a.principal = b.principal /\ a.type = b.type /\ a.name = b.name /\ a.pattern = b.pattern

SameRole(a, b) == a.principal = b.principal /\ a.role = b.role /\ a.scope = b.scope

(* Applying the imported manifests to the cluster that was read changes    *)
(* nothing, on either backend: no grant is created, and none that was read *)
(* lies inside a scope the manifests manage without being desired, where   *)
(* pruning would delete it (build.go Build, the round-trip invariant).     *)
ImportRoundTrips ==
  pc = "done" =>
    /\ "acl" \in backends /\ ~Unfaithful =>
         /\ DesiredACLs(result) \subseteq snap.acls
         /\ \A a \in snap.acls :
              (\E b \in DesiredACLs(result) : SameScope(a, b)) => a \in DesiredACLs(result)
    /\ "rbac" \in backends =>
         /\ DesiredBindings(result) \subseteq snap.bindings
         /\ \A a \in snap.bindings :
              (\E b \in DesiredBindings(result) : SameRole(a, b)) => a \in DesiredBindings(result)

(* Whatever was read is in a manifest or a file, or a warning names it,    *)
(* also when the safety net throws the folded access away; a user other    *)
(* than the importer's own always keeps a manifest; and a subject whose    *)
(* own level an apply would overwrite is warned of.                        *)
NothingLostSilently ==
  pc = "done" =>
    /\ \A n \in snap.listed : \/ n \in result.topics \cup result.mirrors
                              \/ <<"MirrorImportDeferred", n>> \in result.warnings
    /\ "acl" \in backends =>
         \A a \in snap.acls :
            \/ a \in DesiredACLs(result)
            \/ <<"ExternallyManagedOrAmbiguousACLs", a.name>> \in result.warnings
    /\ Unfaithful => Conflict(snap.acls)
    /\ "rbac" \in backends => snap.bindings \subseteq DesiredBindings(result)
    /\ \A s \in snap.subjects : \/ s \in result.files
                                \/ <<"schema not imported", s>> \in result.warnings
    /\ \A s \in Governed(result.blocks) :
         s.level \in {"", Stamped(result.blocks, s)} \/ <<"level differs", s>> \in result.warnings
    /\ \A c \in snap.creds : c.user = ConnectingUser \/ \E u \in result.users : u.user = c.user

(* A topic that nobody touched while the import ran is imported as what it *)
(* is: a mirror of a link as a mirror, never as a topic to create, and     *)
(* with none of the ACLs the link may be syncing; a plain topic as a topic *)
(* (snapshot.go classifyMirrors, build.go filterMirrorACLs).               *)
MirrorsKeepTheirOwner ==
  pc = "done" /\ rest =>
    \A n \in (Names \ Internal) \ touched :
       n \in live.topics =>
         /\ live.entry[n] = "none" => n \in result.topics
         /\ live.entry[n] \in M!Healthy \cup M!Unhealthy \cup M!Progressing =>
              /\ n \in result.mirrors \ result.topics
              /\ "link" \notin touched /\ live.aclSync # "false" =>
                   \A a \in result.rules : ~OnTopic(a, {n})
=============================================================================
