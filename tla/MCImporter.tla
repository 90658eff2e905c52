----------------------------- MODULE MCImporter -----------------------------
(* TLC instance of Importer: a topic t, a name m that is a mirror or was   *)
(* one, a platform topic i; one principal p.                               *)
EXTENDS Importer

Acl(h, kind, nm, o, perm) ==
  [principal |-> "p", host |-> h, type |-> kind, name |-> nm, pattern |-> "literal",
   op |-> o, permission |-> perm]

Binding(r, kind, nm) ==
  [principal |-> "p", role |-> r, scope |-> "kafka", type |-> kind, name |-> nm,
   pattern |-> IF kind = "none" THEN "none" ELSE "literal"]

Subject(k, r, lvl) == [kind |-> k, topic |-> "t", rec |-> r, level |-> lvl]

(* A producer's, a consumer's with one or two groups, a grant from one     *)
(* host, and a Deny that contests one of them.                             *)
TopicAcls ==
  {Acl("*", "topic", "t", "Write", "Allow"), Acl("*", "topic", "t", "Describe", "Allow"),
   Acl("*", "topic", "t", "Read", "Allow"), Acl("*", "group", "g", "Read", "Allow"),
   Acl("*", "group", "g2", "Read", "Allow"), Acl("h", "topic", "t", "Describe", "Allow"),
   Acl("h", "topic", "t", "Write", "Allow"), Acl("*", "topic", "t", "Write", "Deny")}

(* On the mirror: the link's and, who knows, somebody's own.               *)
MirrorAcls ==
  {Acl("*", "topic", "m", "Read", "Allow"), Acl("*", "topic", "m", "Write", "Deny"),
   [Acl("*", "topic", "m", "Read", "Allow") EXCEPT !.pattern = "prefixed"],
   Acl("*", "topic", "i", "Read", "Allow")}

TopicBindings ==
  {Binding("DeveloperWrite", "Topic", "t"), Binding("DeveloperRead", "Topic", "t"),
   Binding("DeveloperRead", "Group", "g"), Binding("SystemAdmin", "none", "none")}

(* A value and a key with or without a level of their own, subjects named  *)
(* after records, and one of the mirror's.                                 *)
AllSubjects ==
  {Subject(k, "none", lvl) : k \in {"value", "key"}, lvl \in {"", "FULL"}}
    \cup {Subject("topicRecord", "R", "FULL"), Subject("topicRecord", "S", "FULL"),
          Subject("record", "R", ""), [Subject("value", "none", "FULL") EXCEPT !.topic = "m"]}

SubjectSets ==
  {ss \in SUBSET AllSubjects :
     \A x, y \in ss : x.kind = y.kind /\ x.topic = y.topic /\ x.rec = y.rec => x = y}

AllCreds ==
  {[user |-> "u", mech |-> "SCRAM-SHA-256"], [user |-> "u", mech |-> "SCRAM-SHA-512"],
   [user |-> "me", mech |-> "SCRAM-SHA-512"]}

Cluster(ts, st, sync, acls, bs, ss) ==
  [topics |-> ts, entry |-> [n \in Names |-> IF n = "m" THEN st ELSE "none"], aclSync |-> sync,
   acls |-> acls, bindings |-> bs, creds |-> AllCreds, subjects |-> ss]

Situation(c, b, r, n) == [cluster |-> c, backends |-> b, rest |-> r, changes |-> n]

BothBackends == {"acl", "rbac"}

(* Every mix of grants on a quiet cluster; every mix of subjects; every    *)
(* kind of mirror on a cluster that changes while it is read.              *)
MCImports ==
  {Situation(Cluster({"t"}, "none", "unknown", acls, bs, {}), b, FALSE, 0) :
     acls \in SUBSET TopicAcls, bs \in SUBSET TopicBindings,
     b \in {{"acl"}, {"rbac"}, BothBackends}}
  \cup {Situation(Cluster({"t", "m", "i"}, "ACTIVE", "true", {}, {}, ss), {"acl"}, r, 0) :
          ss \in SubjectSets, r \in BOOLEAN}
  \cup {Situation(Cluster(ts, st, sync, MirrorAcls, {Binding("DeveloperRead", "Topic", "m")}, {}),
                  b, TRUE, 2) :
          ts \in {{"t", "i"}, {"t", "m", "i"}}, st \in {"none", "ACTIVE", "FAILED", "STOPPED"},
          sync \in {"true", "false", "unknown"}, b \in {{"acl"}, BothBackends}}

MCStatuses == {"none", "ACTIVE", "PENDING_STOPPED", "STOPPED"}
=============================================================================
