---------------------------- MODULE ImportBuild ----------------------------
(***************************************************************************)
(* importer.Build: from a snapshot of a live cluster to manifests that,    *)
(* compiled again, ask for exactly what was read.                          *)
(*                                                                         *)
(* An ACL is [principal, host, type, name, pattern, op, permission]; host  *)
(* "*" is also what a manifest's omitted host compiles to.  A role binding *)
(* is [principal, role, scope, type, name, pattern], type "none" being a   *)
(* binding on the whole scope.  A subject is [kind, topic, rec, level]:    *)
(* "value" and "key" are the topic's TopicName subjects, "topicRecord" its *)
(* TopicRecordName one for the record rec, "record" a RecordName one and   *)
(* "plain" anything else; level "" inherits the registry's default.        *)
(*                                                                         *)
(* One cluster link stands for all of them.  A warning is a pair of what   *)
(* kind it is and what it is about; a policy is the set of its rules'      *)
(* tuples, and metadata names, which the code keeps distinct by suffixes,  *)
(* are left out.                                                           *)
(***************************************************************************)
EXTENDS Naturals, FiniteSets

CONSTANTS ConnectingUser   \* the principal the importer is logged in as

Principals(things) == {x.principal : x \in things}

(***************************************************************************)
(* What the manifests compile to (access.CompileTopic and CompilePolicy,   *)
(* rbac.CompileTopicAccess and Compile): an access entry is                *)
(* [role, topic, principal, host, group].                                  *)
(***************************************************************************)
Grant(e, resource, resName, op) ==
  [principal |-> e.principal, host |-> e.host, type |-> resource, name |-> resName,
   pattern |-> "literal", op |-> op, permission |-> "Allow"]

CompileTopic(e) ==
  IF e.role = "producer"
    THEN {Grant(e, "topic", e.topic, op) : op \in {"Write", "Describe"}}
    ELSE {Grant(e, "topic", e.topic, op) : op \in {"Read", "Describe"}}
           \cup {Grant(e, "group", e.group, "Read")}

Role(e, role, resource, resName) ==
  [principal |-> e.principal, role |-> role, scope |-> "kafka", type |-> resource,
   name |-> resName, pattern |-> "literal"]

CompileTopicAccess(e) ==
  IF e.role = "producer" THEN {Role(e, "DeveloperWrite", "Topic", e.topic)}
  ELSE {Role(e, "DeveloperRead", "Topic", e.topic), Role(e, "DeveloperRead", "Group", e.group)}

DesiredACLs(r)     == r.rules \cup UNION {CompileTopic(e) : e \in r.access}
DesiredBindings(r) == r.bindings \cup UNION {CompileTopicAccess(e) : e \in r.access}

(* access.BuildDesiredSet reports a subject both allowed and denied.       *)
Conflict(acls) ==
  \E a \in acls : a.permission = "Allow" /\ [a EXCEPT !.permission = "Deny"] \in acls

(***************************************************************************)
(* Mirrors: their ACLs may be the link's.                                  *)
(***************************************************************************)
OnTopic(a, names) == a.type = "topic" /\ a.pattern = "literal" /\ a.name \in names

(* Mutant: a link that does not report the setting is thought not to sync. *)
DisownedIfSynced(snap) ==
  {a \in snap.acls :
     OnTopic(a, (IF snap.aclSync = "true" THEN snap.mirrors ELSE {}) \cup snap.deferred)}

Disowned(snap) ==
  {a \in snap.acls :
     OnTopic(a, (IF snap.aclSync # "false" THEN snap.mirrors ELSE {}) \cup snap.deferred)}

filterMirrorACLs(snap) == snap.acls \ Disowned(snap)

buildMirrorWarnings(snap) ==
  {<<"ExternallyManagedOrAmbiguousACLs", a.name>> : a \in Disowned(snap)}
    \cup {<<"MirrorImportDeferred", t>> : t \in snap.deferred}
    \cup {<<"MirrorStaleEntry", t>> : t \in snap.stale}

(***************************************************************************)
(* classifyAndFold: the plain grants of one principal from one host that   *)
(* read as a producer or as a consumer of an imported topic.  A consumer   *)
(* needs exactly one group to name.                                        *)
(***************************************************************************)
foldEligible(a) == a.permission = "Allow" /\ a.pattern = "literal"

Bucket(acls, p, h) == {a \in acls : foldEligible(a) /\ a.principal = p /\ a.host = h}

On(bucket, resource) == {a \in bucket : a.type = resource}

WithOps(acls, ops) ==
  {n \in {a.name : a \in acls} : {a.op : a \in {b \in acls : b.name = n}} = ops}

OnTopics(bucket, topics)  == {a \in On(bucket, "topic") : a.name \in topics}
Producers(bucket, topics) == WithOps(OnTopics(bucket, topics), {"Write", "Describe"})
Consumers(bucket, topics) == WithOps(OnTopics(bucket, topics), {"Read", "Describe"})
Groups(bucket)            == WithOps(On(bucket, "group"), {"Read"})
OneGroup(bucket)          == Cardinality(Groups(bucket)) = 1

FoldBucket(bucket, topics, p, h) ==
  {[role |-> "producer", topic |-> t, principal |-> p, host |-> h, group |-> "none"] :
     t \in Producers(bucket, topics)}
    \cup {[role |-> "consumer", topic |-> t, principal |-> p, host |-> h, group |-> g] :
            t \in IF OneGroup(bucket) THEN Consumers(bucket, topics) ELSE {},
            g \in Groups(bucket)}

Hosts(acls) == {a.host : a \in acls}

FoldedAccess(acls, topics) ==
  UNION {FoldBucket(Bucket(acls, p, h), topics, p, h) : p \in Principals(acls), h \in Hosts(acls)}

AmbiguousConsumers(acls, topics) ==
  {p \in Principals(acls) : \E h \in Hosts(acls) :
     Consumers(Bucket(acls, p, h), topics) # {} /\ ~OneGroup(Bucket(acls, p, h))}

classifyAndFold(acls, topics) ==
  [access   |-> FoldedAccess(acls, topics),
   raw      |-> acls \ UNION {CompileTopic(e) : e \in FoldedAccess(acls, topics)},
   warnings |-> {<<"ambiguous consumer", p>> : p \in AmbiguousConsumers(acls, topics)}]

(***************************************************************************)
(* foldRoleBindings: the same for role bindings, which know no host; only  *)
(* one topic and one group make a consumer.                                *)
(***************************************************************************)
FoldableBinding(b, topics) ==
  /\ b.scope = "kafka" /\ b.pattern = "literal"
  /\ \/ b.role \in {"DeveloperWrite", "DeveloperRead"} /\ b.type = "Topic" /\ b.name \in topics
     \/ b.role = "DeveloperRead" /\ b.type = "Group"

foldRoleBindings(bindings, topics) ==
  LET Of(p, role, resource) ==
        {b.name : b \in {c \in bindings : /\ FoldableBinding(c, topics)
                                          /\ c.principal = p /\ c.role = role /\ c.type = resource}}
      Entry(p, role, t, g) ==
        [role |-> role, topic |-> t, principal |-> p, host |-> "*", group |-> g]
      ConsumersOf(p) ==
        LET ts == Of(p, "DeveloperRead", "Topic")
            gs == Of(p, "DeveloperRead", "Group")
        IN IF Cardinality(ts) = 1 /\ Cardinality(gs) = 1
             THEN {Entry(p, "consumer", t, g) : t \in ts, g \in gs} ELSE {}
      access == UNION {{Entry(p, "producer", t, "none") : t \in Of(p, "DeveloperWrite", "Topic")}
                         \cup ConsumersOf(p) : p \in Principals(bindings)}
  IN [access |-> access, leftover |-> bindings \ UNION {CompileTopicAccess(e) : e \in access}]

(***************************************************************************)
(* gatherSchemas: which subjects a topic's slots are attributed to.  A     *)
(* TopicName subject wins the value slot from a record-based one, and of   *)
(* several record-based ones the first wins; the losers are reported, and  *)
(* so is every subject no imported topic claims (RecordName subjects, in a *)
(* report of their own).                                                   *)
(***************************************************************************)
SlotOf(subjects, t, kind) == {s \in subjects : s.topic = t /\ s.kind = kind}

(* Mutant: the record-based subject a TopicName one displaces is forgotten.*)
gatherSchemasForgetful(subjects, topics) ==
  [t \in topics |->
     LET named  == SlotOf(subjects, t, "value")
         record == SlotOf(subjects, t, "topicRecord")
         first  == IF record = {} THEN {} ELSE {CHOOSE s \in record : TRUE}
     IN [value |-> IF named # {} THEN named ELSE first, key |-> SlotOf(subjects, t, "key"),
         ambiguous |-> record \ first]]

gatherSchemas(subjects, topics) ==
  [t \in topics |->
     LET named  == SlotOf(subjects, t, "value")
         record == SlotOf(subjects, t, "topicRecord")
         first  == IF record = {} THEN {} ELSE {CHOOSE s \in record : TRUE}
         value  == IF named # {} THEN named ELSE first
     IN [value |-> value, key |-> SlotOf(subjects, t, "key"), ambiguous |-> record \ value]]

Unmatched(subjects, topics) ==
  {s \in subjects : s.kind \in {"plain", "record"} \/ s.topic \notin topics}

(***************************************************************************)
(* applySchemas and verifySchemaSubjects: a spec.schema block carries one  *)
(* strategy and one level for both slots.  A topic with no value subject,  *)
(* or with slots of two strategies, gets no block; its bodies are written  *)
(* as files nothing refers to.                                             *)
(***************************************************************************)
Mixed(slots)     == slots.key # {} /\ \E v \in slots.value : v.kind # "value"
HasBlock(slots)  == slots.value # {} /\ ~Mixed(slots)

SlotSubjects(slots) == slots.value \cup slots.key

Displaced(slots, topics)    == UNION {slots[t].ambiguous : t \in topics}
KeyOnly(slots, topics)      == UNION {slots[t].key : t \in {u \in topics : slots[u].value = {}}}

NotImported(subjects, topics) ==
  LET slots == gatherSchemas(subjects, topics)
  IN Unmatched(subjects, topics) \cup Displaced(slots, topics) \cup KeyOnly(slots, topics)

FileOnly(subjects, topics) ==
  LET slots == gatherSchemas(subjects, topics)
  IN UNION {SlotSubjects(slots[t]) : t \in {u \in topics : slots[u].value # {} /\ Mixed(slots[u])}}

LevelDiffers(subjects, topics) ==
  LET slots == gatherSchemas(subjects, topics)
  IN {s \in UNION {slots[t].key : t \in {u \in topics : HasBlock(slots[u])}} :
        s.level # "" /\ \E v \in slots[s.topic].value : v.level # s.level}

applySchemas(subjects, topics) ==
  LET slots == gatherSchemas(subjects, topics)
  IN [blocks   |-> [t \in {u \in topics : HasBlock(slots[u])} |-> slots[t]],
      files    |-> UNION {SlotSubjects(slots[t]) : t \in {u \in topics : slots[u].value # {}}},
      warnings |-> {<<"schema not imported", s>> : s \in NotImported(subjects, topics)}
                     \cup {<<"schema as file only", s>> : s \in FileOnly(subjects, topics)}
                     \cup {<<"level differs", s>> : s \in LevelDiffers(subjects, topics)}]

(* The level an apply of the imported block stamps on a subject.           *)
Stamped(blocks, s) ==
  LET v == CHOOSE v \in blocks[s.topic].value : TRUE
  IN IF v.level = "" THEN s.level ELSE v.level

Governed(blocks) == UNION {SlotSubjects(blocks[t]) : t \in DOMAIN blocks}

(***************************************************************************)
(* buildUsers: one manifest per user, for its strongest mechanism; the     *)
(* importer's own user is left alone.                                      *)
(***************************************************************************)
buildUsers(creds) ==
  LET Strongest(u) ==
        IF [user |-> u, mech |-> "SCRAM-SHA-512"] \in creds
          THEN "SCRAM-SHA-512" ELSE "SCRAM-SHA-256"
      best == {c \in creds : c.user # ConnectingUser /\ c.mech = Strongest(c.user)}
  IN [users |-> best,
      warnings |-> {<<"credential not imported", c>> : c \in creds \ best}
                     \cup (IF best = {} THEN {} ELSE {<<"placeholder passwords", "users">>})]

(***************************************************************************)
(* Build, with its safety net: unless every active backend gets back what  *)
(* was read from it, no access is folded at all.                           *)
(***************************************************************************)
roundTripsClean(r, acls) == ~Conflict(DesiredACLs(r)) /\ DesiredACLs(r) = acls

(* Mutant: only the ACL side is compiled again.                            *)
roleBindingsRoundTripUnchecked(r, bindings) == TRUE

roleBindingsRoundTripClean(r, bindings) == DesiredBindings(r) = bindings

fallbackAllExplicit(r, acls, bindings, backends) ==
  [r EXCEPT !.access   = {},
            !.rules    = IF "acl" \in backends THEN acls ELSE {},
            !.bindings = IF "rbac" \in backends THEN bindings ELSE {}]

(* The ACLs a link may own are set aside before anything else happens.     *)
Considered(snap, backends) == IF "acl" \in backends THEN filterMirrorACLs(snap) ELSE snap.acls

KeptWarnings(snap, backends) ==
  applySchemas(snap.subjects, snap.topics).warnings
    \cup (IF "acl" \in backends THEN buildMirrorWarnings(snap)
          ELSE {w \in buildMirrorWarnings(snap) : w[1] # "ExternallyManagedOrAmbiguousACLs"})

Folded(snap, backends) ==
  LET schemas  == applySchemas(snap.subjects, snap.topics)
      aclFold  == IF "acl" \in backends
                    THEN classifyAndFold(Considered(snap, backends), snap.topics)
                    ELSE [access |-> {}, raw |-> {}, warnings |-> {}]
      rbacFold == IF "rbac" \in backends THEN foldRoleBindings(snap.bindings, snap.topics)
                  ELSE [access |-> {}, leftover |-> {}]
      users    == buildUsers(snap.creds)
  IN [topics |-> snap.topics, mirrors |-> snap.mirrors,
      access |-> aclFold.access \cup rbacFold.access,
      rules |-> aclFold.raw, bindings |-> rbacFold.leftover,
      users |-> users.users, blocks |-> schemas.blocks, files |-> schemas.files,
      warnings |-> KeptWarnings(snap, backends) \cup aclFold.warnings \cup users.warnings]

Explicit(snap, backends) ==
  [fallbackAllExplicit(Folded(snap, backends), Considered(snap, backends), snap.bindings, backends)
     EXCEPT !.warnings = KeptWarnings(snap, backends) \cup {<<"all explicit", "access">>}]

Build(snap, backends) ==
  LET acls     == Considered(snap, backends)
      r        == Folded(snap, backends)
      explicit == Explicit(snap, backends)
  IN IF /\ "acl" \in backends => roundTripsClean(r, acls)
        /\ "rbac" \in backends => roleBindingsRoundTripClean(r, snap.bindings)
       THEN r
     ELSE IF "acl" \in backends /\ ~roundTripsClean(explicit, acls)
       THEN [explicit EXCEPT !.warnings = @ \cup {<<"not represented faithfully", "acls">>}]
     ELSE explicit
=============================================================================
