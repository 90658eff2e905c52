--------------------------- MODULE ImporterProofs ---------------------------
(***************************************************************************)
(* Proofs about Importer, for every cluster, every set of topic names and  *)
(* every sequence of changes made while the import reads.                  *)
(*                                                                         *)
(* What Build makes of a snapshot is settled once, for every snapshot, by  *)
(* the lemmas Build...; what the snapshot says of the cluster is the       *)
(* inductive invariant ReadInv.                                            *)
(***************************************************************************)
EXTENDS Importer, TLAPS

(* The calls after the classification, and what they lead to.              *)
Late == {"acls", "creds", "bindings", "subjects", "build", "done"}

(* What was listed agrees with the cluster on every name nobody touched.   *)
ListedInv ==
  pc \notin {"topics", "failed"} =>
    \A n \in Names \ touched : n \in snap.listed <=> n \in live.topics \ Internal

AgainInv ==
  rest /\ pc \in {"entries", "link"} \cup Late =>
    \A n \in Names \ touched : n \in snap.again <=> n \in live.topics

EntriesInv ==
  rest /\ pc \in {"link"} \cup Late =>
    \A n \in Names \ touched : snap.entries[n] = live.entry[n]

(* After the classification every listed name has a kind, and the kind is  *)
(* the one its two lists give it.                                          *)
KindInv ==
  pc \in Late =>
    /\ snap.listed \subseteq snap.topics \cup snap.mirrors \cup snap.deferred
    /\ rest =>
         \A n \in snap.listed :
            /\ n \in snap.topics <=> ClassOf(n) \in {"Normal", "StoppedFormerMirror", "Absent"}
            /\ n \in snap.mirrors <=> ClassOf(n) = "Mirror"
    /\ snap.topics \subseteq snap.listed

SyncInv ==
  rest /\ pc \in Late /\ "link" \notin touched => snap.aclSync \in {live.aclSync, "unknown"}

(* Nobody registers a subject while the import runs (ReadAssumption).      *)
SubjectInv ==
  /\ \E i \in Imports : live.subjects = i.cluster.subjects
  /\ snap.subjects \in {{}, live.subjects}

ResultInv == pc = "done" => result = Build(snap, backends)

ReadInv ==
  ListedInv /\ AgainInv /\ EntriesInv /\ KindInv /\ SyncInv /\ SubjectInv /\ ResultInv

-----------------------------------------------------------------------------
(***************************************************************************)
(* Build, for every snapshot.                                              *)
(***************************************************************************)

(* The folded manifests, field by field.                                   *)
LEMMA FoldedFields ==
  ASSUME NEW S, NEW B
  PROVE  /\ Folded(S, B).topics = S.topics
         /\ Folded(S, B).mirrors = S.mirrors
         /\ Folded(S, B).users = buildUsers(S.creds).users
         /\ Folded(S, B).blocks = applySchemas(S.subjects, S.topics).blocks
         /\ Folded(S, B).files = applySchemas(S.subjects, S.topics).files
         /\ Folded(S, B).rules = IF "acl" \in B
                                   THEN classifyAndFold(Considered(S, B), S.topics).raw ELSE {}
         /\ Folded(S, B).warnings =
              KeptWarnings(S, B)
                \cup (IF "acl" \in B
                        THEN classifyAndFold(Considered(S, B), S.topics).warnings ELSE {})
                \cup buildUsers(S.creds).warnings
  BY DEF Folded

(* The parts of a build.                                                   *)
LEMMA FoldedDomain ==
  ASSUME NEW S, NEW B
  PROVE  DOMAIN Folded(S, B) = {"topics", "mirrors", "access", "rules", "bindings", "users",
                                "blocks", "files", "warnings"}
  BY DEF Folded

(* The explicit manifests: as the folded ones, but for the access.         *)
LEMMA ExplicitFields ==
  ASSUME NEW S, NEW B
  PROVE  /\ Explicit(S, B).topics = Folded(S, B).topics
         /\ Explicit(S, B).mirrors = Folded(S, B).mirrors
         /\ Explicit(S, B).users = Folded(S, B).users
         /\ Explicit(S, B).blocks = Folded(S, B).blocks
         /\ Explicit(S, B).files = Folded(S, B).files
  BY FoldedDomain DEF Explicit, fallbackAllExplicit

(* The explicit manifests list what was read rule by rule and binding by   *)
(* binding.                                                                *)
LEMMA ExplicitAccess ==
  ASSUME NEW S, NEW B
  PROVE  /\ Explicit(S, B).access = {}
         /\ Explicit(S, B).rules = IF "acl" \in B THEN Considered(S, B) ELSE {}
         /\ Explicit(S, B).bindings = IF "rbac" \in B THEN S.bindings ELSE {}
  BY FoldedDomain DEF Explicit, fallbackAllExplicit

(* They say why, and repeat the warnings that are about other things.      *)
LEMMA ExplicitWarnings ==
  ASSUME NEW S, NEW B
  PROVE  Explicit(S, B).warnings = KeptWarnings(S, B) \cup {<<"all explicit", "access">>}
  BY FoldedDomain DEF Explicit, fallbackAllExplicit

(* They have the parts of any build.                                       *)
LEMMA ExplicitDomain ==
  ASSUME NEW S, NEW B
  PROVE  DOMAIN Explicit(S, B) = DOMAIN Folded(S, B)
  BY FoldedDomain DEF Explicit, fallbackAllExplicit

(* Manifests that agree but for their warnings.                            *)
SameManifests(r, e) ==
  /\ r.topics = e.topics /\ r.mirrors = e.mirrors /\ r.access = e.access /\ r.rules = e.rules
  /\ r.bindings = e.bindings /\ r.users = e.users /\ r.blocks = e.blocks /\ r.files = e.files

Unfaith == <<"not represented faithfully", "acls">>

(* The three outcomes of Build.                                            *)
LEMMA BuildOutcome ==
  ASSUME NEW S, NEW B
  PROVE  \/ /\ Build(S, B) = Folded(S, B)
            /\ "acl" \in B => DesiredACLs(Folded(S, B)) = Considered(S, B)
            /\ "rbac" \in B => DesiredBindings(Folded(S, B)) = S.bindings
         \/ /\ SameManifests(Build(S, B), Explicit(S, B))
            /\ \/ Build(S, B).warnings = Explicit(S, B).warnings
               \/ /\ "acl" \in B /\ ~roundTripsClean(Explicit(S, B), Considered(S, B))
                  /\ Build(S, B).warnings = Explicit(S, B).warnings \cup {Unfaith}
<1> DEFINE acls == Considered(S, B)
           r == Folded(S, B)
           e == Explicit(S, B)
<1>1. CASE /\ "acl" \in B => roundTripsClean(r, acls)
           /\ "rbac" \in B => roleBindingsRoundTripClean(r, S.bindings)
  BY <1>1 DEF Build, roundTripsClean, roleBindingsRoundTripClean
<1>2. CASE /\ ~(/\ "acl" \in B => roundTripsClean(r, acls)
                /\ "rbac" \in B => roleBindingsRoundTripClean(r, S.bindings))
           /\ "acl" \in B /\ ~roundTripsClean(e, acls)
  <2>1. Build(S, B) = [e EXCEPT !.warnings = @ \cup {Unfaith}]
    BY <1>2 DEF Build, Unfaith
  <2>2. DOMAIN e = {"topics", "mirrors", "access", "rules", "bindings", "users",
                    "blocks", "files", "warnings"}
    BY ExplicitDomain, FoldedDomain
  <2>3. SameManifests(Build(S, B), e) /\ Build(S, B).warnings = e.warnings \cup {Unfaith}
    BY <2>1, <2>2 DEF SameManifests
  <2> QED  BY <1>2, <2>3
<1>3. CASE /\ ~(/\ "acl" \in B => roundTripsClean(r, acls)
                /\ "rbac" \in B => roleBindingsRoundTripClean(r, S.bindings))
           /\ ~("acl" \in B /\ ~roundTripsClean(e, acls))
  BY <1>3 DEF Build, SameManifests
<1> QED  BY <1>1, <1>2, <1>3

(* The explicit manifests compile to the grants considered, whatever those *)
(* are.                                                                    *)
LEMMA ExplicitCompilesBack ==
  ASSUME NEW S, NEW B, NEW r, r.access = {},
         "acl" \in B => r.rules = Considered(S, B),
         "rbac" \in B => r.bindings = S.bindings
  PROVE  /\ "acl" \in B => DesiredACLs(r) = Considered(S, B)
         /\ "rbac" \in B => DesiredBindings(r) = S.bindings
  BY DEF DesiredACLs, DesiredBindings

(* Whichever outcome it is, each active backend's manifests compile to     *)
(* exactly the grants considered.                                          *)
LEMMA BuildCompilesBack ==
  ASSUME NEW S, NEW B
  PROVE  /\ "acl" \in B => DesiredACLs(Build(S, B)) = Considered(S, B)
         /\ "rbac" \in B => DesiredBindings(Build(S, B)) = S.bindings
<1>1. CASE Build(S, B) = Folded(S, B)
           /\ ("acl" \in B => DesiredACLs(Folded(S, B)) = Considered(S, B))
           /\ ("rbac" \in B => DesiredBindings(Folded(S, B)) = S.bindings)
  BY <1>1
<1>2. CASE SameManifests(Build(S, B), Explicit(S, B))
  <2>1. /\ Build(S, B).access = {}
        /\ "acl" \in B => Build(S, B).rules = Considered(S, B)
        /\ "rbac" \in B => Build(S, B).bindings = S.bindings
    BY <1>2, ExplicitAccess DEF SameManifests
  <2> QED  BY <2>1, ExplicitCompilesBack
<1> QED  BY <1>1, <1>2, BuildOutcome

(* What the access does not touch is the same in every outcome, and no     *)
(* raw rule is made of an ACL that was set aside.                          *)
LEMMA BuildFields ==
  ASSUME NEW S, NEW B
  PROVE  /\ Build(S, B).topics = S.topics
         /\ Build(S, B).mirrors = S.mirrors
         /\ Build(S, B).users = buildUsers(S.creds).users
         /\ Build(S, B).blocks = applySchemas(S.subjects, S.topics).blocks
         /\ Build(S, B).files = applySchemas(S.subjects, S.topics).files
         /\ Build(S, B).rules \subseteq IF "acl" \in B THEN Considered(S, B) ELSE {}
         /\ KeptWarnings(S, B) \subseteq Build(S, B).warnings
<1>1. "acl" \in B => classifyAndFold(Considered(S, B), S.topics).raw \subseteq Considered(S, B)
  BY DEF classifyAndFold
<1>2. CASE Build(S, B) = Folded(S, B)
  BY <1>1, <1>2, FoldedFields
<1>3. CASE /\ SameManifests(Build(S, B), Explicit(S, B))
           /\ Explicit(S, B).warnings \subseteq Build(S, B).warnings
  <2>1. /\ Build(S, B).topics = S.topics
        /\ Build(S, B).mirrors = S.mirrors
        /\ Build(S, B).users = buildUsers(S.creds).users
        /\ Build(S, B).blocks = applySchemas(S.subjects, S.topics).blocks
        /\ Build(S, B).files = applySchemas(S.subjects, S.topics).files
    BY <1>3, FoldedFields, ExplicitFields DEF SameManifests
  <2>2. Build(S, B).rules = IF "acl" \in B THEN Considered(S, B) ELSE {}
    BY <1>3, ExplicitAccess DEF SameManifests
  <2>3. KeptWarnings(S, B) \subseteq Build(S, B).warnings
    BY <1>3, ExplicitWarnings
  <2> QED  BY <2>1, <2>2, <2>3
<1>4. \/ Build(S, B) = Folded(S, B)
      \/ /\ SameManifests(Build(S, B), Explicit(S, B))
         /\ Explicit(S, B).warnings \subseteq Build(S, B).warnings
  BY BuildOutcome
<1> QED  BY <1>2, <1>3, <1>4

(* The faithfulness warning is raised only for ACLs in conflict.           *)
LEMMA OnlyConflictIsUnfaithful ==
  ASSUME NEW S, NEW B, Unfaith \in Build(S, B).warnings
  PROVE  Conflict(S.acls)
<1>1. Unfaith \notin KeptWarnings(S, B)
  <2>1. Unfaith \notin applySchemas(S.subjects, S.topics).warnings
    BY DEF Unfaith, applySchemas
  <2>2. Unfaith \notin buildMirrorWarnings(S)
    BY DEF Unfaith, buildMirrorWarnings
  <2> QED  BY <2>1, <2>2 DEF KeptWarnings
<1>2. Unfaith \notin buildUsers(S.creds).warnings
  BY DEF Unfaith, buildUsers
<1>3. Unfaith \notin classifyAndFold(Considered(S, B), S.topics).warnings
  <2>1. ASSUME NEW acls, NEW topics
        PROVE  Unfaith \notin classifyAndFold(acls, topics).warnings
    BY DEF Unfaith, classifyAndFold
  <2> QED  BY <2>1
<1>4. Unfaith # <<"all explicit", "access">>
  BY DEF Unfaith
<1>5. "acl" \in B /\ ~roundTripsClean(Explicit(S, B), Considered(S, B))
  <2>1. Unfaith \notin Folded(S, B).warnings
    <3>1. Folded(S, B).warnings =
            KeptWarnings(S, B)
              \cup (IF "acl" \in B
                      THEN classifyAndFold(Considered(S, B), S.topics).warnings ELSE {})
              \cup buildUsers(S.creds).warnings
      BY FoldedFields
    <3> QED  BY <1>1, <1>2, <1>3, <3>1
  <2>2. Unfaith \notin Explicit(S, B).warnings
    <3>1. Explicit(S, B).warnings = KeptWarnings(S, B) \cup {<<"all explicit", "access">>}
      BY ExplicitWarnings
    <3> QED  BY <1>1, <1>4, <3>1
  <2> QED  BY <2>1, <2>2, BuildOutcome
<1>6. DesiredACLs(Explicit(S, B)) = Considered(S, B)
  BY <1>5, ExplicitAccess, ExplicitCompilesBack
<1>7. Conflict(Considered(S, B))
  BY <1>5, <1>6 DEF roundTripsClean
<1>8. Considered(S, B) \subseteq S.acls
  BY DEF Considered, filterMirrorACLs
<1> QED  BY <1>7, <1>8 DEF Conflict

(* Every SCRAM user but the importer's own keeps a manifest: the strongest *)
(* of its mechanisms is one it has.                                        *)
LEMMA EveryUserKept ==
  ASSUME NEW creds \in SUBSET CredsSeen, NEW c \in creds, c.user # ConnectingUser
  PROVE  \E u \in buildUsers(creds).users : u.user = c.user
<1> DEFINE strong == [user |-> c.user, mech |-> "SCRAM-SHA-512"]
           weak   == [user |-> c.user, mech |-> "SCRAM-SHA-256"]
<1>1. c \in {weak, strong}
  BY ReadAssumption
<1>2. CASE strong \in creds
  <2>1. strong.user = c.user /\ strong.mech = "SCRAM-SHA-512"
    OBVIOUS
  <2>2. strong \in buildUsers(creds).users
    BY <1>2, <2>1 DEF buildUsers
  <2> QED  BY <2>1, <2>2
<1>3. CASE strong \notin creds
  <2>1. c = weak /\ c.mech = "SCRAM-SHA-256"
    BY <1>1, <1>3
  <2>2. c \in buildUsers(creds).users
    BY <1>3, <2>1 DEF buildUsers
  <2> QED  BY <2>2
<1> QED  BY <1>2, <1>3

(* What the slots of a topic hold.                                         *)
LEMMA SlotFields ==
  ASSUME NEW subjects, NEW topics, NEW t \in topics
  PROVE  LET slots  == gatherSchemas(subjects, topics)[t]
             record == SlotOf(subjects, t, "topicRecord")
         IN /\ slots.key = SlotOf(subjects, t, "key")
            /\ SlotOf(subjects, t, "value") # {} => slots.value = SlotOf(subjects, t, "value")
            /\ SlotOf(subjects, t, "value") = {} /\ record # {} =>
                 \E s \in record : slots.value = {s}
            /\ SlotOf(subjects, t, "value") = {} /\ record = {} => slots.value = {}
            /\ slots.ambiguous = record \ slots.value
<1>1. SlotOf(subjects, t, "topicRecord") # {} =>
        (CHOOSE s \in SlotOf(subjects, t, "topicRecord") : TRUE) \in SlotOf(subjects, t, "topicRecord")
  OBVIOUS
<1> QED  BY <1>1 DEF gatherSchemas

(* A subject that was read is in a file, or a warning names it.            *)
LEMMA EverySubjectAccounted ==
  ASSUME NEW subjects \in SUBSET SubjectsSeen, NEW topics, NEW s \in subjects
  PROVE  \/ s \in applySchemas(subjects, topics).files
         \/ <<"schema not imported", s>> \in applySchemas(subjects, topics).warnings
<1> DEFINE slots == gatherSchemas(subjects, topics)
           mine  == s.topic
           Amb   == Displaced(slots, topics)
           Key   == KeyOnly(slots, topics)
           Files == UNION {SlotSubjects(slots[t]) : t \in {u \in topics : slots[u].value # {}}}
<1>1. applySchemas(subjects, topics).files = Files
  BY DEF applySchemas
<1>2. s \in NotImported(subjects, topics) =>
        <<"schema not imported", s>> \in applySchemas(subjects, topics).warnings
  BY DEF applySchemas
<1>3. NotImported(subjects, topics) = Unmatched(subjects, topics) \cup Amb \cup Key
  BY DEF NotImported
<1>4. CASE s \notin Unmatched(subjects, topics)
  <2>1. mine \in topics /\ s.kind \in {"value", "key", "topicRecord"} /\ s \in SlotOf(subjects, mine, s.kind)
    BY <1>4, ReadAssumption DEF Unmatched, SlotOf
  <2>2. \/ slots[mine].value # {} /\ s \in SlotSubjects(slots[mine])
        \/ s \in slots[mine].ambiguous
        \/ slots[mine].value = {} /\ s \in slots[mine].key
    BY <2>1, SlotFields DEF SlotSubjects
  <2> HIDE DEF slots, mine
  <2>3. CASE slots[mine].value # {} /\ s \in SlotSubjects(slots[mine])
    <3>1. s \in Files
      BY <2>1, <2>3
    <3> QED  BY <3>1, <1>1
  <2>4. CASE s \in slots[mine].ambiguous
    <3>1. s \in Amb
      BY <2>1, <2>4 DEF Displaced
    <3> QED  BY <3>1, <1>2, <1>3
  <2>5. CASE slots[mine].value = {} /\ s \in slots[mine].key
    <3>1. s \in Key
      BY <2>1, <2>5 DEF KeyOnly
    <3> QED  BY <3>1, <1>2, <1>3
  <2> QED  BY <2>2, <2>3, <2>4, <2>5
<1> QED  BY <1>2, <1>3, <1>4

(* The blocks are the slots of the topics that have one.                   *)
LEMMA BlockFields ==
  ASSUME NEW subjects, NEW topics
  PROVE  LET blocks == applySchemas(subjects, topics).blocks
         IN /\ DOMAIN blocks = {t \in topics : HasBlock(gatherSchemas(subjects, topics)[t])}
            /\ \A t \in DOMAIN blocks : blocks[t] = gatherSchemas(subjects, topics)[t]
  BY DEF applySchemas

(* A subject a block governs keeps its own level when the block is         *)
(* applied, or a warning says that it will not.                            *)
LEMMA EveryLevelAccounted ==
  ASSUME NEW subjects, NEW topics,
         \A x, y \in subjects :
            x.kind = "value" /\ y.kind = "value" /\ x.topic = y.topic => x = y,
         NEW s \in Governed(applySchemas(subjects, topics).blocks)
  PROVE  \/ s.level \in {"", Stamped(applySchemas(subjects, topics).blocks, s)}
         \/ <<"level differs", s>> \in applySchemas(subjects, topics).warnings
<1> DEFINE blocks == applySchemas(subjects, topics).blocks
           slots  == gatherSchemas(subjects, topics)
<1>1. PICK t \in DOMAIN blocks : s \in blocks[t].value \cup blocks[t].key
  BY DEF Governed, SlotSubjects
<1>2. t \in topics /\ HasBlock(slots[t]) /\ blocks[t] = slots[t]
  BY BlockFields
<1>3. s.topic = t
  BY <1>1, <1>2, SlotFields DEF SlotOf
<1>4. PICK v : v \in slots[t].value /\ v = CHOOSE x \in blocks[s.topic].value : TRUE
  <2>1. slots[t].value # {}
    BY <1>2 DEF HasBlock
  <2> QED  BY <2>1, <1>2, <1>3
<1>5. Stamped(blocks, s) = IF v.level = "" THEN s.level ELSE v.level
  BY <1>4 DEF Stamped
<1>6. CASE s \in slots[t].value
  <2>1. s = v
    BY <1>2, <1>4, <1>6, SlotFields DEF SlotOf
  <2> QED  BY <2>1, <1>5
<1>7. CASE s \in slots[t].key
  <2>1. SUFFICES ASSUME s.level # "", v.level # "", s.level # v.level
                 PROVE  <<"level differs", s>> \in applySchemas(subjects, topics).warnings
    BY <1>5
  <2>2. s \in UNION {slots[u].key : u \in {u \in topics : HasBlock(slots[u])}}
    BY <1>2, <1>7
  <2>3. s.level # "" /\ \E x \in slots[s.topic].value : x.level # s.level
    BY <2>1, <1>3, <1>4
  <2>4. s \in LevelDiffers(subjects, topics)
    BY <2>2, <2>3 DEF LevelDiffers
  <2> QED  BY <2>4 DEF applySchemas
<1> QED  BY <1>1, <1>2, <1>6, <1>7

-----------------------------------------------------------------------------
(***************************************************************************)
(* The steps.                                                              *)
(***************************************************************************)

(* The steps that read, by the field of the snapshot they set.             *)
LEMMA TypeStep ==
  ASSUME TypeOK, [Next]_vars
  PROVE  TypeOK'
<1> USE DEF TypeOK, Snapshots, Pending
<1>1. CASE ListTopics                 BY <1>1 DEF ListTopics, Reading, Clusters
<1>2. CASE DescribeTopicConfigs       BY <1>2 DEF DescribeTopicConfigs, Reading
<1>3. CASE ListMirrors                BY <1>3 DEF ListMirrors, Reading
<1>4. CASE ListTopicsAgain            BY <1>4 DEF ListTopicsAgain, Reading, Clusters
<1>5. CASE ListMirrorsAgain           BY <1>5 DEF ListMirrorsAgain, Reading, Clusters
<1>6. CASE LinkConfigs
  <2>1. PICK configRead \in BOOLEAN : Reading("link", classifyMirrors(configRead), "acls")
    BY <1>6 DEF LinkConfigs
  <2>2. live.aclSync \in Syncs /\ "unknown" \in Syncs
    BY DEF Clusters, Syncs
  <2>3. StaleEntries \subseteq Names
    BY DEF StaleEntries
  <2> QED  BY <2>1, <2>2, <2>3 DEF Reading, classifyMirrors
<1>7. CASE ListACLs                   BY <1>7 DEF ListACLs, Reading, Clusters
<1>8. CASE ListScramCredentials       BY <1>8 DEF ListScramCredentials, Reading, Clusters
<1>9. CASE ListRoleBindings           BY <1>9 DEF ListRoleBindings, Reading, Clusters
<1>10. CASE ReadSubjects              BY <1>10 DEF ReadSubjects, Reading, Clusters
<1>11. CASE ReadFails                 BY <1>11 DEF ReadFails
<1>12. CASE BuildManifests            BY <1>12 DEF BuildManifests
<1>13. CASE \E n \in Names : TopicMoves(n)
  BY <1>13 DEF TopicMoves, Change, Clusters
<1>14. CASE \E n \in Names : MirrorMoves(n)
  <2>1. PICK n \in Names, st \in Statuses :
          Change({n}, [live EXCEPT !.entry[n] = st,
                                   !.topics = IF st \in M!Healthy THEN @ \cup {n} ELSE @])
    BY <1>14 DEF MirrorMoves
  <2>2. [live.entry EXCEPT ![n] = st] \in [Names -> EntriesSeen]
    BY DEF Clusters, EntriesSeen
  <2>3. (IF st \in M!Healthy THEN live.topics \cup {n} ELSE live.topics) \in SUBSET Names
    BY DEF Clusters
  <2>4. live' \in Clusters
    BY <2>1, <2>2, <2>3 DEF Change, Clusters
  <2> QED  BY <2>1, <2>4 DEF Change
<1>15. CASE SyncFlips
  BY <1>15 DEF SyncFlips, Change, Clusters, Syncs
<1>16. CASE GrantsMove
  <2>1. CASE \E a \in ACLsSeen : Change({}, [live EXCEPT !.acls = Toggle(@, a)])
    BY <2>1 DEF Change, Clusters, Toggle
  <2>2. CASE \E b \in BindingsSeen : Change({}, [live EXCEPT !.bindings = Toggle(@, b)])
    BY <2>2 DEF Change, Clusters, Toggle
  <2> QED  BY <1>16, <2>1, <2>2 DEF GrantsMove
<1>17. CASE UNCHANGED vars            BY <1>17 DEF vars
<1> QED
  BY <1>1, <1>2, <1>3, <1>4, <1>5, <1>6, <1>7, <1>8, <1>9, <1>10, <1>11, <1>12, <1>13, <1>14,
     <1>15, <1>16, <1>17 DEF Next

(* Every import keeps its types: the cluster that changes under it, and    *)
(* the snapshot it puts together from one call after the other.            *)
THEOREM TypeCorrect == Spec => []TypeOK
<1>1. Init => TypeOK
  <2>1. NoSnapshot \in Snapshots
    <3>1. [n \in Names |-> "none"] \in [Names -> EntriesSeen]
      BY DEF EntriesSeen
    <3>2. "unknown" \in Syncs
      BY DEF Syncs
    <3> QED  BY <3>1, <3>2 DEF NoSnapshot, Snapshots
  <2> QED  BY <2>1, ImportAssumption DEF Init, TypeOK, Pending
<1> QED  BY <1>1, TypeStep, PTL DEF Spec

(* What a change of the cluster leaves as it is: whatever is not marked as *)
(* touched, and everything the import has read.                            *)
Quiet ==
  /\ UNCHANGED <<backends, rest, pc, snap, result>>
  /\ touched \subseteq touched'
  /\ \A n \in Names \ touched' : /\ n \in live'.topics <=> n \in live.topics
                                 /\ live'.entry[n] = live.entry[n]
  /\ "link" \notin touched' => live'.aclSync = live.aclSync
  /\ live'.subjects = live.subjects

Environment == (\E n \in Names : TopicMoves(n) \/ MirrorMoves(n)) \/ SyncFlips \/ GrantsMove

(* A change of the cluster touches nothing the import holds.               *)
LEMMA EnvironmentIsQuiet ==
  ASSUME TypeOK, Environment
  PROVE  Quiet
<1> USE DEF TypeOK, Snapshots, Clusters, Change, Quiet
<1>1. CASE \E n \in Names : TopicMoves(n)
  BY <1>1 DEF TopicMoves
<1>2. CASE \E n \in Names : MirrorMoves(n)
  <2>1. PICK n \in Names, st \in Statuses :
          Change({n}, [live EXCEPT !.entry[n] = st,
                                   !.topics = IF st \in M!Healthy THEN @ \cup {n} ELSE @])
    BY <1>2 DEF MirrorMoves
  <2>2. /\ live'.entry = [live.entry EXCEPT ![n] = st]
        /\ live'.topics = IF st \in M!Healthy THEN live.topics \cup {n} ELSE live.topics
        /\ live'.aclSync = live.aclSync /\ live'.subjects = live.subjects
    BY <2>1
  <2>3. touched' = touched \cup {n} /\ UNCHANGED <<backends, rest, pc, snap, result>>
    BY <2>1
  <2> QED  BY <2>2, <2>3
<1>3. CASE SyncFlips
  BY <1>3 DEF SyncFlips
<1>4. CASE GrantsMove
  BY <1>4 DEF GrantsMove
<1> QED  BY <1>1, <1>2, <1>3, <1>4 DEF Environment

(* A change of the cluster keeps what the import knows.                    *)
LEMMA EnvironmentStep ==
  ASSUME TypeOK, ReadInv, Environment
  PROVE  ReadInv'
<1>1. Quiet
  BY EnvironmentIsQuiet
<1> USE <1>1 DEF Quiet, ReadInv
<1>2. ListedInv'    BY DEF ListedInv
<1>3. AgainInv'     BY DEF AgainInv
<1>4. EntriesInv'   BY DEF EntriesInv
<1>5. KindInv'
  <2>1. \A n : ClassOf(n)' = ClassOf(n)
    BY DEF ClassOf
  <2> QED  BY <2>1 DEF KindInv
<1>6. SyncInv'      BY DEF SyncInv
<1>7. SubjectInv'   BY DEF SubjectInv
<1>8. ResultInv'    BY DEF ResultInv
<1> QED  BY <1>2, <1>3, <1>4, <1>5, <1>6, <1>7, <1>8

(* A call of the importer changes nothing of the cluster.                  *)
Held == UNCHANGED <<live, backends, rest, result, touched>>

(* The calls after the classification keep what it found.                  *)
LEMMA LateReadStep ==
  ASSUME TypeOK, ReadInv, ListACLs \/ ListScramCredentials \/ ListRoleBindings \/ ReadSubjects
  PROVE  ReadInv'
<1>1. /\ Held /\ pc \in Late /\ pc' \in Late \ {"done"}
      /\ snap'.listed = snap.listed /\ snap'.again = snap.again /\ snap'.entries = snap.entries
      /\ snap'.topics = snap.topics /\ snap'.mirrors = snap.mirrors
      /\ snap'.deferred = snap.deferred /\ snap'.aclSync = snap.aclSync
      /\ snap'.subjects \in {snap.subjects, live.subjects}
  <2> USE DEF TypeOK, Snapshots, Reading, Held, Late
  <2>1. CASE ListACLs               BY <2>1 DEF ListACLs
  <2>2. CASE ListScramCredentials   BY <2>2 DEF ListScramCredentials
  <2>3. CASE ListRoleBindings       BY <2>3 DEF ListRoleBindings
  <2>4. CASE ReadSubjects           BY <2>4 DEF ReadSubjects
  <2> QED  BY <2>1, <2>2, <2>3, <2>4
<1> USE <1>1 DEF Held, ReadInv, Late
<1>2. ListedInv'    BY DEF ListedInv
<1>3. AgainInv'     BY DEF AgainInv
<1>4. EntriesInv'   BY DEF EntriesInv
<1>5. KindInv'
  <2>1. \A n : ClassOf(n)' = ClassOf(n)
    BY DEF ClassOf
  <2> QED  BY <2>1 DEF KindInv
<1>6. SyncInv'      BY DEF SyncInv
<1>7. SubjectInv'   BY DEF SubjectInv
<1>8. ResultInv'    BY DEF ResultInv
<1> QED  BY <1>2, <1>3, <1>4, <1>5, <1>6, <1>7, <1>8

(* The calls before it: each makes one more list agree with the cluster.   *)
LEMMA EarlyReadStep ==
  ASSUME TypeOK, ReadInv,
         ListTopics \/ DescribeTopicConfigs \/ ListMirrors \/ ListTopicsAgain \/ ListMirrorsAgain
  PROVE  ReadInv'
<1> USE DEF TypeOK, Snapshots, Reading, ReadInv
<1>1. Held /\ snap'.subjects = snap.subjects /\ pc' # "done"
  BY DEF ListTopics, DescribeTopicConfigs, ListMirrors, ListTopicsAgain, ListMirrorsAgain, Held
<1>2. SubjectInv' /\ ResultInv'
  BY <1>1 DEF SubjectInv, ResultInv, Held
<1>3. CASE ListTopics
  <2>1. pc' = "configs" /\ snap'.listed = live.topics \ Internal
    BY <1>3 DEF ListTopics
  <2> QED  BY <2>1, <1>1, <1>2
        DEF Held, ListedInv, AgainInv, EntriesInv, KindInv, SyncInv, Late
<1>4. CASE DescribeTopicConfigs /\ (rest \/ snap.listed # snap.described)
  <2>1. pc' \in {"configs", "mirrors"} /\ pc = "configs" /\ snap'.listed = snap.listed
    BY <1>4 DEF DescribeTopicConfigs
  <2> QED  BY <2>1, <1>1, <1>2
        DEF Held, ListedInv, AgainInv, EntriesInv, KindInv, SyncInv, Late
<1>5. CASE DescribeTopicConfigs /\ ~rest /\ snap.listed = snap.described
  <2>1. pc' = "acls" /\ pc = "configs" /\ snap'.listed = snap.listed /\ snap'.topics = snap.listed
    BY <1>5 DEF DescribeTopicConfigs
  <2>2. ~rest'
    BY <1>5, <1>1 DEF Held
  <2> QED  BY <2>1, <2>2, <1>1, <1>2
        DEF Held, ListedInv, AgainInv, EntriesInv, KindInv, SyncInv, Late
<1>6. CASE ListMirrors
  <2>1. pc' = "again" /\ pc = "mirrors" /\ snap'.listed = snap.listed
    BY <1>6 DEF ListMirrors
  <2> QED  BY <2>1, <1>1, <1>2
        DEF Held, ListedInv, AgainInv, EntriesInv, KindInv, SyncInv, Late
<1>7. CASE ListTopicsAgain
  <2>1. /\ pc' = "entries" /\ pc = "again" /\ snap'.listed = snap.listed
        /\ snap'.again = live.topics
    BY <1>7 DEF ListTopicsAgain
  <2> QED  BY <2>1, <1>1, <1>2
        DEF Held, ListedInv, AgainInv, EntriesInv, KindInv, SyncInv, Late
<1>8. CASE ListMirrorsAgain
  <2>1. /\ pc' = "link" /\ pc = "entries" /\ snap'.listed = snap.listed
        /\ snap'.again = snap.again /\ snap'.entries = live.entry
    BY <1>8 DEF ListMirrorsAgain
  <2> QED  BY <2>1, <1>1, <1>2
        DEF Held, ListedInv, AgainInv, EntriesInv, KindInv, SyncInv, Late
<1> QED  BY <1>3, <1>4, <1>5, <1>6, <1>7, <1>8

(* The classification itself: every listed name has one of the kinds that  *)
(* are split apart, or the import was refused.                             *)
LEMMA LinkConfigsStep ==
  ASSUME TypeOK, ReadInv, LinkConfigs
  PROVE  ReadInv'
<1> USE DEF TypeOK, Snapshots, ReadInv
<1>1. PICK configRead \in BOOLEAN : Reading("link", classifyMirrors(configRead), "acls")
  BY DEF LinkConfigs
<1>2. /\ Held /\ pc = "link" /\ pc' = "acls"
      /\ snap'.listed = snap.listed /\ snap'.again = snap.again /\ snap'.entries = snap.entries
      /\ snap'.subjects = snap.subjects
      /\ snap'.aclSync \in {live.aclSync, "unknown"}
      /\ snap'.topics =
           {n \in snap.listed : ClassOf(n) \in {"Normal", "StoppedFormerMirror", "Absent"}}
      /\ snap'.mirrors = {n \in snap.listed : ClassOf(n) = "Mirror"}
      /\ snap'.deferred = {n \in snap.listed : ClassOf(n) = "StoppingMirror"}
  BY <1>1 DEF Reading, Held, classifyMirrors
<1>3. \A n \in snap.listed : ClassOf(n) # "Unknown"
  BY DEF LinkConfigs, Refused
<1>4. \A n : ClassOf(n) \in {"Normal", "Absent", "Unknown", "Mirror", "StoppingMirror",
                             "StoppedFormerMirror"}
  BY DEF ClassOf, M!Classify
<1>5. \A n : ClassOf(n)' = ClassOf(n)
  BY <1>2 DEF ClassOf
<1>6. KindInv'
  BY <1>2, <1>3, <1>4, <1>5 DEF KindInv, Held
<1>7. ListedInv' /\ AgainInv' /\ EntriesInv' /\ SyncInv' /\ SubjectInv' /\ ResultInv'
  BY <1>2 DEF ListedInv, AgainInv, EntriesInv, SyncInv, SubjectInv, ResultInv, Held, Late
<1> QED  BY <1>6, <1>7

(* What the import has read is an invariant of it.                         *)
LEMMA ReadInvariant == Spec => [](TypeOK /\ ReadInv)
<1>1. Init => ReadInv
  <2>1. Init => SubjectInv
    BY DEF Init, SubjectInv, NoSnapshot
  <2> QED  BY <2>1 DEF Init, ReadInv, ListedInv, AgainInv, EntriesInv, KindInv, SyncInv,
                       ResultInv, Late
<1>2. TypeOK /\ ReadInv /\ [Next]_vars => ReadInv'
  <2> SUFFICES ASSUME TypeOK, ReadInv, [Next]_vars PROVE ReadInv'
    OBVIOUS
  <2>1. CASE ReadFails
    <3>1. pc' = "failed" /\ Held /\ snap' = snap
      BY <2>1 DEF ReadFails, Held
    <3> QED  BY <3>1 DEF ReadInv, ListedInv, AgainInv, EntriesInv, KindInv, SyncInv, SubjectInv,
                         ResultInv, Held, Late
  <2>2. CASE BuildManifests
    <3>1. /\ pc = "build" /\ pc' = "done" /\ UNCHANGED <<live, backends, rest, touched, snap>>
          /\ result' = Build(snap, backends)
      BY <2>2 DEF BuildManifests
    <3>2. ResultInv'
      BY <3>1 DEF ResultInv
    <3>3. \A n : ClassOf(n)' = ClassOf(n)
      BY <3>1 DEF ClassOf
    <3>4. KindInv'
      BY <3>1, <3>3 DEF ReadInv, KindInv, Late
    <3> QED  BY <3>1, <3>2, <3>4
          DEF ReadInv, ListedInv, AgainInv, EntriesInv, SyncInv, SubjectInv, Late
  <2>3. CASE UNCHANGED vars
    <3>1. \A n : ClassOf(n)' = ClassOf(n)
      BY <2>3 DEF ClassOf, vars
    <3> QED  BY <2>3, <3>1 DEF vars, ReadInv, ListedInv, AgainInv, EntriesInv, KindInv, SyncInv,
                         SubjectInv, ResultInv
  <2> QED  BY <2>1, <2>2, <2>3, EarlyReadStep, LinkConfigsStep, LateReadStep, EnvironmentStep
        DEF Next, Environment
<1> QED  BY <1>1, <1>2, TypeCorrect, PTL DEF Spec

-----------------------------------------------------------------------------
(***************************************************************************)
(* The theorems.                                                           *)
(***************************************************************************)

(* An ACL set aside takes its whole scope with it: an ACL of the same      *)
(* scope is on the same literal topic.                                     *)
LEMMA ScopesStayWhole ==
  ASSUME NEW S, NEW B, NEW a \in S.acls, NEW b \in Considered(S, B), SameScope(a, b)
  PROVE  a \in Considered(S, B)
  BY DEF Considered, filterMirrorACLs, Disowned, OnTopic, SameScope

(* Applying the imported manifests changes nothing of what was read, on    *)
(* either backend, whatever the cluster holds and however it moved while   *)
(* it was read (build.go Build): the two-sided safety net is enough.       *)
THEOREM ImportIsFaithful == Spec => []ImportRoundTrips
<1>1. TypeOK /\ ReadInv => ImportRoundTrips
  <2> SUFFICES ASSUME TypeOK, ReadInv, pc = "done" PROVE ImportRoundTrips
    BY DEF ImportRoundTrips
  <2>1. result = Build(snap, backends)
    BY DEF ReadInv, ResultInv
  <2>2. /\ "acl" \in backends => DesiredACLs(result) = Considered(snap, backends)
        /\ "rbac" \in backends => DesiredBindings(result) = snap.bindings
    BY <2>1, BuildCompilesBack
  <2>3. Considered(snap, backends) \subseteq snap.acls
    BY DEF Considered, filterMirrorACLs
  <2>4. \A a \in snap.acls : \A b \in Considered(snap, backends) :
          SameScope(a, b) => a \in Considered(snap, backends)
    BY ScopesStayWhole
  <2> QED  BY <2>2, <2>3, <2>4 DEF ImportRoundTrips
<1> QED  BY <1>1, ReadInvariant, PTL

(* Whatever was read is in a manifest or a file, or a warning names it     *)
(* (build.go Build, gatherSchemas, buildUsers).                            *)
THEOREM ImportAccountsForAll == Spec => []NothingLostSilently
<1>1. TypeOK /\ ReadInv => NothingLostSilently
  <2> SUFFICES ASSUME TypeOK, ReadInv, pc = "done" PROVE NothingLostSilently
    BY DEF NothingLostSilently
  <2>1. result = Build(snap, backends)
    BY DEF ReadInv, ResultInv
  <2>2. /\ result.topics = snap.topics /\ result.mirrors = snap.mirrors
        /\ result.users = buildUsers(snap.creds).users
        /\ result.blocks = applySchemas(snap.subjects, snap.topics).blocks
        /\ result.files = applySchemas(snap.subjects, snap.topics).files
        /\ KeptWarnings(snap, backends) \subseteq result.warnings
    BY <2>1, BuildFields
  <2>3. /\ "acl" \in backends => DesiredACLs(result) = Considered(snap, backends)
        /\ "rbac" \in backends => DesiredBindings(result) = snap.bindings
    BY <2>1, BuildCompilesBack
  <2>4. applySchemas(snap.subjects, snap.topics).warnings \subseteq result.warnings
    BY <2>2 DEF KeptWarnings
  <2>5. \A n \in snap.listed : \/ n \in result.topics \cup result.mirrors
                               \/ <<"MirrorImportDeferred", n>> \in result.warnings
    <3>1. \A n \in snap.deferred : <<"MirrorImportDeferred", n>> \in buildMirrorWarnings(snap)
      BY DEF buildMirrorWarnings
    <3>2. \A n \in snap.deferred : <<"MirrorImportDeferred", n>> \in KeptWarnings(snap, backends)
      BY <3>1 DEF KeptWarnings
    <3>3. snap.listed \subseteq snap.topics \cup snap.mirrors \cup snap.deferred
      BY DEF ReadInv, KindInv, Late
    <3> QED  BY <3>2, <3>3, <2>2
  <2>6. "acl" \in backends =>
          \A a \in snap.acls :
             \/ a \in DesiredACLs(result)
             \/ <<"ExternallyManagedOrAmbiguousACLs", a.name>> \in result.warnings
    <3> SUFFICES ASSUME "acl" \in backends, NEW a \in snap.acls, a \notin DesiredACLs(result)
                 PROVE  <<"ExternallyManagedOrAmbiguousACLs", a.name>> \in result.warnings
      OBVIOUS
    <3>1. a \in Disowned(snap)
      BY <2>3 DEF Considered, filterMirrorACLs
    <3>2. <<"ExternallyManagedOrAmbiguousACLs", a.name>> \in buildMirrorWarnings(snap)
      BY <3>1 DEF buildMirrorWarnings
    <3>3. buildMirrorWarnings(snap) \subseteq KeptWarnings(snap, backends)
      BY DEF KeptWarnings
    <3> QED  BY <3>2, <3>3, <2>2
  <2>7. Unfaithful => Conflict(snap.acls)
    BY <2>1, OnlyConflictIsUnfaithful DEF Unfaithful, Unfaith
  <2>8. \A s \in snap.subjects : \/ s \in result.files
                                 \/ <<"schema not imported", s>> \in result.warnings
    <3>1. snap.subjects \in SUBSET SubjectsSeen
      BY DEF TypeOK, Snapshots
    <3> QED  BY <3>1, <2>2, <2>4, EverySubjectAccounted
  <2>9. \A s \in Governed(result.blocks) :
          \/ s.level \in {"", Stamped(result.blocks, s)}
          \/ <<"level differs", s>> \in result.warnings
    <3>1. \A x, y \in snap.subjects :
             x.kind = "value" /\ y.kind = "value" /\ x.topic = y.topic => x = y
      BY ReadAssumption DEF ReadInv, SubjectInv
    <3> QED  BY <3>1, <2>2, <2>4, EveryLevelAccounted
  <2>10. \A c \in snap.creds : c.user = ConnectingUser \/ \E u \in result.users : u.user = c.user
    <3>1. snap.creds \in SUBSET CredsSeen
      BY DEF TypeOK, Snapshots
    <3> QED  BY <3>1, <2>2, EveryUserKept
  <2> QED  BY <2>3, <2>5, <2>6, <2>7, <2>8, <2>9, <2>10 DEF NothingLostSilently
<1> QED  BY <1>1, ReadInvariant, PTL

(* A topic that nobody touched while the import ran is imported as what it *)
(* is (snapshot.go classifyMirrors, build.go filterMirrorACLs).            *)
THEOREM OwnersAreKept == Spec => []MirrorsKeepTheirOwner
<1>1. TypeOK /\ ReadInv => MirrorsKeepTheirOwner
  <2> SUFFICES ASSUME TypeOK, ReadInv, pc = "done", rest,
                      NEW n \in (Names \ Internal) \ touched, n \in live.topics
               PROVE  /\ live.entry[n] = "none" => n \in result.topics
                      /\ live.entry[n] \in M!Healthy \cup M!Unhealthy \cup M!Progressing =>
                           /\ n \in result.mirrors \ result.topics
                           /\ "link" \notin touched /\ live.aclSync # "false" =>
                                \A a \in result.rules : ~OnTopic(a, {n})
    BY DEF MirrorsKeepTheirOwner
  <2>1. result = Build(snap, backends)
    BY DEF ReadInv, ResultInv
  <2>2. /\ result.topics = snap.topics /\ result.mirrors = snap.mirrors
        /\ result.rules \subseteq IF "acl" \in backends THEN Considered(snap, backends) ELSE {}
    BY <2>1, BuildFields
  <2>3. n \in snap.listed /\ n \in snap.again /\ snap.entries[n] = live.entry[n]
    BY DEF ReadInv, ListedInv, AgainInv, EntriesInv, Late
  <2>4. /\ n \in snap.topics <=> ClassOf(n) \in {"Normal", "StoppedFormerMirror", "Absent"}
        /\ n \in snap.mirrors <=> ClassOf(n) = "Mirror"
    BY <2>3 DEF ReadInv, KindInv, Late
  <2>5. ClassOf(n) = M!Classify(TRUE, TRUE, [M!NoEntry EXCEPT !.status = live.entry[n]])
    BY <2>3 DEF ClassOf
  <2>6. live.entry[n] = "none" => ClassOf(n) = "Normal"
    BY <2>5 DEF M!Classify, M!NoEntry
  <2>7. live.entry[n] \in M!Healthy \cup M!Unhealthy \cup M!Progressing => ClassOf(n) = "Mirror"
    BY <2>5 DEF M!Classify, M!NoEntry, M!Healthy, M!Unhealthy, M!Progressing
  <2>8. ASSUME n \in snap.mirrors, "link" \notin touched, live.aclSync # "false",
               NEW a \in result.rules, OnTopic(a, {n})
        PROVE  FALSE
    <3>1. snap.aclSync # "false"
      BY <2>8 DEF ReadInv, SyncInv, Late
    <3>2. a \in filterMirrorACLs(snap)
      BY <2>2, <2>8 DEF Considered
    <3> QED  BY <2>8, <3>1, <3>2 DEF filterMirrorACLs, Disowned, OnTopic
  <2> QED  BY <2>2, <2>4, <2>6, <2>7, <2>8
<1> QED  BY <1>1, ReadInvariant, PTL
=============================================================================
