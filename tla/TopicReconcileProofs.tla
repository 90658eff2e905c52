------------------------ MODULE TopicReconcileProofs ------------------------
(***************************************************************************)
(* What TLAPS proves of TopicReconcile, for any set of specs and bodies    *)
(* and any number of edits, interferences, faults and crashes: a status    *)
(* can be believed, and every step is one TopicContract allows.  The       *)
(* invariant follows one reconcile: what it copied and read is what there  *)
(* is as long as nobody interferes (ViewInv), and from the plan on, what   *)
(* the cluster lacks is what the actions left will bring (CourseInv).      *)
(* EventuallySettled needs fairness and stays with TLC.                    *)
(***************************************************************************)
EXTENDS TopicReconcile, TLAPS

(***************************************************************************)
(* The inductive invariant.                                                *)
(***************************************************************************)

(* Places behind the reads they are named after; the status of a resource  *)
(* that is only looked at is written from the same view.                   *)
Looked == pc = "plan" \/ (pc = "status" /\ job.spec.valid)

(* A reconcile works on a declaration that was in force, and has what its  *)
(* place allows.                                                           *)
JobInv ==
  /\ pc = "idle" => job = Idle
  /\ pc # "idle" =>
       /\ job.spec \in Specs /\ job.gen <= gen
       /\ job.gen = gen => job.spec = spec
       /\ job.spec.schema = "content" /\ job.resolved => job.def \in Bodies
       /\ ~job.resolved => job.spec.schema = "content"
  /\ pc \in Reads \cup {"plan", "exec"} => job.spec.valid
  /\ pc = "exec" => job.spec.mode = "Enforce"
  /\ pc = "status" /\ job.spec.valid => job.spec.mode # "Enforce"
  /\ pc # "exec" => ops = {} /\ results = {}
  /\ status.gen <= gen

(* What was copied and read is what there is, when nobody interferes.      *)
ViewInv ==
  quiet /\ pc # "idle" =>
    /\ job.spec.schema = "content" => (IF job.resolved THEN job.def = secret ELSE secret = "missing")
    /\ pc \in Reads \ {"topic"} \/ Looked => job.topic = live.topic
    /\ pc \in Reads \ {"topic", "acls"} \/ Looked => job.acl = live.acl
    /\ /\ Manages(job) /\ ~job.globalErr
       /\ pc \in {"subject", "level", "lookup", "exec"} \/ Looked
       => job.global = live.global
    /\ Manages(job) /\ (pc \in {"level", "lookup"} \/ Looked) =>
         job.present = (live.versions # <<>>) /\ job.latest = Latest
    /\ /\ Manages(job) /\ (job.present \/ job.spec.schema = "governance")
       /\ pc = "lookup" \/ Looked
       => job.level = live.level
    /\ /\ Manages(job) /\ job.spec.schema = "content" /\ job.def # job.latest /\ job.present
       /\ Looked
       => job.superseded = Registered(job.def)

(* What a plan may hold.                                                   *)
PlanActions ==
  {"CreateTopic", "Rejected", "IncreasePartitions", "UpdateTopicConfig", "UpdateReplicationFactor",
   "CreateAcl", "SchemaSuperseded", "RegisterSchema", "RaiseSchemaCompatibility",
   "LowerSchemaCompatibility"}

LevelActions == {"RaiseSchemaCompatibility", "LowerSchemaCompatibility"}

PlanInv ==
  /\ ops \subseteq PlanActions
  /\ \A res \in results :
       res.action \in PlanActions /\ (res.status \in OKStatuses => res.status = "Succeeded")
  /\ "UpdateTopicConfig" \in ops => job.spec.cfg # "unset"
  /\ "RegisterSchema" \in ops => job.spec.schema = "content" /\ job.resolved
  /\ \A a \in LevelActions : a \in ops => job.spec.compat \in Levels

(* A raise is one of the level in force, until the first registration.     *)
LevelInv ==
  quiet /\ "RaiseSchemaCompatibility" \in ops /\ ~job.globalErr /\ live.versions # <<>> =>
    LET base == Effective(live.level, live.global)
    IN base = job.spec.compat \/ compatRank(base) < compatRank(job.spec.compat)

(* Actions that end in anything but success.                               *)
Stuck == {"Rejected", "UpdateReplicationFactor", "SchemaSuperseded"}

TopicWanted(left) ==
  LET s == job.spec IN
  /\ live.acl \/ "CreateAcl" \in left
  /\ \/ "CreateTopic" \in left
     \/ /\ live.topic.exists
        /\ \/ "partitions" \in s.ignore \/ live.topic.partitions = s.partitions
           \/ "IncreasePartitions" \in left
        /\ "cfg" \in s.ignore \/ s.cfg \in {"unset", live.topic.cfg} \/ "UpdateTopicConfig" \in left
        /\ "rf" \in s.ignore \/ s.rf \in {0, live.topic.rf}

SchemaWanted(left) ==
  LET s == job.spec IN
  Manages(job) =>
    /\ s.schema = "content" =>
         \/ Latest = job.def
         \/ "RegisterSchema" \in left /\ ~Registered(job.def)
    /\ s.compat \in {"", live.level} \/ \E a \in LevelActions : a \in left

OnCourse(left) == (\E a \in left : a \in Stuck) \/ (TopicWanted(left) /\ SchemaWanted(left))

AllSucceeded == \A res \in results : res.status = "Succeeded"

CourseInv == pc = "exec" /\ quiet /\ AllSucceeded => OnCourse(ops)

TopicInv ==
  TypeOK /\ JobInv /\ ViewInv /\ PlanInv /\ LevelInv /\ CourseInv /\ StatusIsTruthful

(***************************************************************************)
(* Actions and their order.                                                *)
(***************************************************************************)

(* The taxonomy is a list of 21 names, none of them twice.                 *)
LEMMA NamesDomain ==
  DOMAIN ByName = 1..21 /\ \A i, j \in 1..21 : ByName[i] = ByName[j] => i = j
  BY DEF ByName

(* What is planned is of the taxonomy.                                     *)
LEMMA PlanActionsKnown == PlanActions \subseteq Actions
<1>1. \A i \in 1..21 : ByName[i] \in Actions
  BY NamesDomain DEF Actions
<1>2. /\ ByName[2] = "CreateAcl" /\ ByName[4] = "CreateTopic" /\ ByName[6] = "IncreasePartitions"
      /\ ByName[7] = "LowerSchemaCompatibility" /\ ByName[12] = "RaiseSchemaCompatibility"
      /\ ByName[13] = "RegisterSchema" /\ ByName[14] = "Rejected"
      /\ ByName[16] = "SchemaSuperseded" /\ ByName[20] = "UpdateReplicationFactor"
      /\ ByName[21] = "UpdateTopicConfig"
  BY DEF ByName
<1> QED
  BY <1>1, <1>2 DEF PlanActions

(* A level is raised before a schema is registered under it.               *)
LEMMA RaiseComesFirst ==
  ASSUME NEW left, IsNext("RegisterSchema", left)
  PROVE  "RaiseSchemaCompatibility" \notin left
<1> SUFFICES ASSUME "RaiseSchemaCompatibility" \in left PROVE FALSE
  OBVIOUS
<1>1. <<"RegisterSchema", "RaiseSchemaCompatibility">> \in executionOrder
  BY DEF IsNext
<1>2. Group("RegisterSchema") = 2 /\ Group("RaiseSchemaCompatibility") = 2
  BY DEF Group, ACLActions, SchemaActions, RoleBindingActions
<1>3. <<"RegisterSchema", "RaiseSchemaCompatibility">> \in RenderOrder
  BY <1>1, <1>2 DEF executionOrder
<1>4. PICK i, j \in 1..21 : i < j /\ ByName[i] = "RegisterSchema"
                              /\ ByName[j] = "RaiseSchemaCompatibility"
  <2>1. PICK i, j \in 1..21 :
          i < j /\ <<"RegisterSchema", "RaiseSchemaCompatibility">> = <<ByName[i], ByName[j]>>
    BY <1>3, NamesDomain DEF RenderOrder
  <2> QED
    BY <2>1
<1>5. ByName[13] = "RegisterSchema" /\ ByName[12] = "RaiseSchemaCompatibility"
  BY DEF ByName
<1>6. i = 13 /\ j = 12
  BY <1>4, <1>5, NamesDomain
<1> QED
  BY <1>4, <1>6

(* What keeps an action from being dispatched is reported as anything but  *)
(* success, and what is irreversible is dispatched with approval only.     *)
LEMMA VerdictFacts ==
  ASSUME NEW a \in PlanActions
  PROVE  /\ VerdictOn(a) \in Statuses \cup {"Dispatch"}
         /\ VerdictOn(a) # "Dispatch" => VerdictOn(a) \notin OKStatuses
         /\ VerdictOn(a) = "Dispatch" =>
              /\ a \notin Stuck
              /\ a \in {"IncreasePartitions", "LowerSchemaCompatibility"} => job.approved
<1> DEFINE op == Op(a)
<1>1. op.action = a /\ op.mode = "" /\ op.target = Name
  BY DEF Op
<1> HIDE DEF op
<1>2. VerdictOn(a) = Verdict(op, Approvals, failedTopics)
  BY DEF VerdictOn, op
<1>3. op.mode \notin ReportOnlyModes /\ "prune" \notin Approvals
  BY <1>1 DEF ReportOnlyModes, Approvals
<1>4. VerdictOn(a) \in Statuses \cup {"Dispatch"}
  BY <1>2 DEF Verdict, Statuses
<1>5. VerdictOn(a) # "Dispatch" => VerdictOn(a) \notin OKStatuses
  BY <1>1, <1>2, <1>3 DEF Verdict, OKStatuses, PlanActions, Informational, GateOf, PruneGated, Destructive
<1>6. VerdictOn(a) = "Dispatch" => a \notin Stuck
  BY <1>1, <1>2, <1>3 DEF Verdict, Stuck, TerminalFindings
<1>7. ASSUME VerdictOn(a) = "Dispatch", a \in {"IncreasePartitions", "LowerSchemaCompatibility"}
      PROVE  job.approved
  <2>1. GateOf(a) = "allow-destructive"
    BY <1>7 DEF GateOf, Destructive, PruneGated
  <2>2. "destructive" \in Approvals
    <3>1. Verdict(op, Approvals, failedTopics) = "Dispatch" /\ op.action = a
      BY <1>1, <1>2, <1>7
    <3> QED
      BY <1>3, <1>7, <2>1, <3>1 DEF Verdict, Informational, OperationalError, TerminalFindings
  <2> QED
    BY <2>2 DEF Approvals
<1> QED
  BY <1>4, <1>5, <1>6, <1>7

(***************************************************************************)
(* Executing.                                                              *)
(***************************************************************************)

(* What an action that took effect changes, and all it changes.            *)
TopicActions == {"CreateTopic", "IncreasePartitions", "UpdateTopicConfig"}

Brings(a, e) ==
  /\ a = "CreateTopic" =>
       /\ ~live.topic.exists /\ e.topic.exists
       /\ e.topic.partitions = job.spec.partitions /\ e.topic.cfg = job.spec.cfg
       /\ job.spec.rf \in {0, e.topic.rf}
  /\ a = "IncreasePartitions" =>
       /\ e.topic.exists = live.topic.exists /\ e.topic.partitions = job.spec.partitions
       /\ e.topic.cfg = live.topic.cfg /\ e.topic.rf = live.topic.rf
  /\ a = "UpdateTopicConfig" =>
       /\ e.topic.exists = live.topic.exists /\ e.topic.partitions = live.topic.partitions
       /\ e.topic.cfg = job.spec.cfg /\ e.topic.rf = live.topic.rf
  /\ a \notin TopicActions => e.topic = live.topic
  /\ e.acl = IF a = "CreateAcl" THEN TRUE ELSE live.acl
  /\ e.versions =
       IF a = "RegisterSchema" /\ ~Registered(job.def)
         THEN Append(live.versions, job.def) ELSE live.versions
  /\ e.level = IF a \in LevelActions THEN job.spec.compat ELSE live.level
  /\ e.global = live.global

(* An accepted action has this effect and leaves a typed cluster.          *)
LEMMA EffectBrings ==
  ASSUME TypeOK, JobInv, PlanInv, pc = "exec", NEW a \in ops, a \notin Stuck, Accepts(a),
         NEW e, e = Effect(a)
  PROVE  e \in Live /\ Brings(a, e)
<1>0. job.spec \in Specs /\ live \in Live /\ live.topic \in Topic /\ a \in PlanActions
  BY DEF TypeOK, JobInv, PlanInv, Live
<1>1. /\ job.spec.partitions \in Nat /\ job.spec.rf \in Nat /\ job.spec.compat \in Levels \cup {""}
      /\ job.spec.cfg \in {s.cfg : s \in Specs}
  BY <1>0, TopicAssumption
<1>2. CASE a = "CreateTopic"
  <2>1. PICK f \in Nat : f = IF job.spec.rf = 0 THEN 1 ELSE job.spec.rf
    BY <1>1
  <2>2. PICK t : t = [exists |-> TRUE, partitions |-> job.spec.partitions, cfg |-> job.spec.cfg,
                      rf |-> f]
    OBVIOUS
  <2>3. e = [live EXCEPT !.topic = t]
    BY <1>2, <2>1, <2>2 DEF Effect
  <2>4. t \in Topic /\ t.exists /\ t.partitions = job.spec.partitions /\ t.cfg = job.spec.cfg
        /\ t.rf = f
    BY <1>1, <2>2 DEF Topic
  <2>5. e \in Live /\ e.topic = t /\ e.acl = live.acl /\ e.versions = live.versions
        /\ e.level = live.level /\ e.global = live.global
    BY <1>0, <2>3, <2>4 DEF Live
  <2>6. ~live.topic.exists
    BY <1>2 DEF Accepts
  <2> QED
    BY <1>2, <2>1, <2>4, <2>5, <2>6 DEF Brings, TopicActions, LevelActions
<1>3. CASE a = "IncreasePartitions"
  <2>1. PICK t : t = [live.topic EXCEPT !.partitions = job.spec.partitions]
    OBVIOUS
  <2>2. e = [live EXCEPT !.topic = t]
    BY <1>3, <2>1 DEF Effect
  <2>3. t \in Topic /\ t.exists = live.topic.exists /\ t.partitions = job.spec.partitions
        /\ t.cfg = live.topic.cfg /\ t.rf = live.topic.rf
    BY <1>0, <1>1, <2>1 DEF Topic
  <2>4. e \in Live /\ e.topic = t /\ e.acl = live.acl /\ e.versions = live.versions
        /\ e.level = live.level /\ e.global = live.global
    BY <1>0, <2>2, <2>3 DEF Live
  <2> QED
    BY <1>3, <2>3, <2>4 DEF Brings, TopicActions, LevelActions
<1>4. CASE a = "UpdateTopicConfig"
  <2>1. PICK t : t = [live.topic EXCEPT !.cfg = job.spec.cfg]
    OBVIOUS
  <2>2. e = [live EXCEPT !.topic = t]
    BY <1>4, <2>1 DEF Effect
  <2>3. t \in Topic /\ t.exists = live.topic.exists /\ t.partitions = live.topic.partitions
        /\ t.cfg = job.spec.cfg /\ t.rf = live.topic.rf
    BY <1>0, <1>1, <2>1 DEF Topic
  <2>4. e \in Live /\ e.topic = t /\ e.acl = live.acl /\ e.versions = live.versions
        /\ e.level = live.level /\ e.global = live.global
    BY <1>0, <2>2, <2>3 DEF Live
  <2> QED
    BY <1>4, <2>3, <2>4 DEF Brings, TopicActions, LevelActions
<1>5. CASE a = "CreateAcl"
  <2>1. e = [live EXCEPT !.acl = TRUE]
    BY <1>5 DEF Effect
  <2> QED
    BY <1>0, <1>5, <2>1 DEF Live, Brings, TopicActions, LevelActions
<1>6. CASE a = "RegisterSchema"
  <2>1. job.def \in Bodies
    BY <1>6 DEF JobInv, PlanInv
  <2>2. e = IF Registered(job.def) THEN live
            ELSE [live EXCEPT !.versions = Append(live.versions, job.def)]
    BY <1>6 DEF Effect
  <2>3. Append(live.versions, job.def) \in Seq(Bodies)
    <3>1. live.versions \in Seq(Bodies)
      BY <1>0 DEF Live
    <3> QED
      BY <2>1, <3>1
  <2> QED
    <3>1. CASE Registered(job.def)
      BY <1>0, <1>6, <2>2, <3>1 DEF Brings, TopicActions, LevelActions
    <3>2. CASE ~Registered(job.def)
      <4>1. PICK v \in Seq(Bodies) : v = Append(live.versions, job.def)
        BY <2>3
      <4>2. e = [live EXCEPT !.versions = v]
        BY <2>2, <3>2, <4>1
      <4>3. e \in Live /\ e.topic = live.topic /\ e.acl = live.acl /\ e.versions = v
            /\ e.level = live.level /\ e.global = live.global
        BY <1>0, <4>2 DEF Live
      <4> QED
        BY <1>6, <3>2, <4>1, <4>3 DEF Brings, TopicActions, LevelActions
    <3> QED
      BY <3>1, <3>2
<1>7. CASE a \in LevelActions
  <2>1. e = [live EXCEPT !.level = job.spec.compat]
    BY <1>7 DEF Effect, LevelActions
  <2> QED
    BY <1>0, <1>1, <1>7, <2>1 DEF Live, Brings, TopicActions, LevelActions
<1> QED
  BY <1>0, <1>2, <1>3, <1>4, <1>5, <1>6, <1>7 DEF PlanActions, Stuck, LevelActions

(* What a reconcile is still waiting for, it has once the action is done.  *)
LEMMA EffectKeepsCourse ==
  ASSUME TypeOK, JobInv, PlanInv, pc = "exec", NEW a \in ops, a \notin Stuck,
         live' \in Live, Brings(a, live'), job' = job, ops' = ops \ {a}, OnCourse(ops)
  PROVE  OnCourse(ops)'
<1>0. a \in PlanActions
  BY DEF PlanInv
<1>1. CASE \E b \in ops : b \in Stuck
  BY <1>1 DEF OnCourse
<1>2. CASE TopicWanted(ops) /\ SchemaWanted(ops)
  <2>1. TopicWanted(ops)'
    <3>1. live'.acl \/ "CreateAcl" \in ops'
      BY <1>2 DEF TopicWanted, Brings
    <3>2. CASE a = "CreateTopic"
      BY <3>1, <3>2 DEF TopicWanted, Brings
    <3>3. CASE a = "IncreasePartitions"
      BY <1>2, <3>1, <3>3 DEF TopicWanted, Brings
    <3>4. CASE a = "UpdateTopicConfig"
      BY <1>2, <3>1, <3>4 DEF TopicWanted, Brings
    <3>5. CASE a \notin TopicActions
      BY <1>2, <3>1, <3>5 DEF TopicWanted, Brings, TopicActions
    <3> QED
      BY <3>2, <3>3, <3>4, <3>5 DEF TopicActions
  <2>2. SchemaWanted(ops)'
    <3>1. SUFFICES ASSUME Manages(job)
                   PROVE  /\ job.spec.schema = "content" =>
                               \/ Latest' = job.def
                               \/ "RegisterSchema" \in ops' /\ ~Registered(job.def)'
                          /\ \/ job.spec.compat \in {"", live'.level}
                             \/ \E b \in LevelActions : b \in ops'
      BY DEF SchemaWanted, Manages
    <3>2. \/ job.spec.compat \in {"", live'.level}
          \/ \E b \in LevelActions : b \in ops'
      BY <1>2, <3>1 DEF SchemaWanted, Brings
    <3>3. ASSUME job.spec.schema = "content"
          PROVE  Latest' = job.def \/ ("RegisterSchema" \in ops' /\ ~Registered(job.def)')
      <4>0. job.def \in Bodies /\ live.versions \in Seq(Bodies)
        BY <3>1, <3>3 DEF JobInv, Manages, TypeOK, Live
      <4>1. CASE live'.versions = live.versions
        <5>1. Latest' = Latest /\ Registered(job.def)' = Registered(job.def)
          BY <4>1, Zenon DEF Latest, Registered
        <5>2. a = "RegisterSchema" => Registered(job.def)
          <6>1. live'.versions = Append(live.versions, job.def) => FALSE
            BY <4>0, <4>1
          <6> QED
            BY <6>1 DEF Brings
        <5> QED
          BY <1>2, <3>1, <3>3, <5>1, <5>2 DEF SchemaWanted
      <4>2. CASE live'.versions = Append(live.versions, job.def)
        <5>1. PICK v \in Seq(Bodies), d \in Bodies : v = live.versions /\ d = job.def
          BY <4>0
        <5>2. Len(Append(v, d)) = Len(v) + 1 /\ Append(v, d)[Len(v) + 1] = d
          OBVIOUS
        <5>3. Append(v, d) # <<>>
          BY <5>2
        <5> QED
          BY <4>2, <5>1, <5>2, <5>3 DEF Latest
      <4> QED
        BY <4>1, <4>2 DEF Brings
    <3> QED
      BY <3>2, <3>3
  <2> QED
    BY <2>1, <2>2 DEF OnCourse
<1> QED
  BY <1>1, <1>2 DEF OnCourse

(* Recording a result leaves the rest of the plan.                         *)
LEMMA RecordFacts ==
  ASSUME TypeOK, PlanInv, NEW a \in ops, NEW st \in Statuses, Record(a, st), job' = job,
         st \in OKStatuses => st = "Succeeded"
  PROVE  /\ ops' = ops \ {a} /\ ops' \subseteq Actions
         /\ results' \subseteq [action : Actions, status : Statuses]
         /\ failedTopics' \subseteq {Name}
         /\ PlanInv'
         /\ AllSucceeded' => AllSucceeded /\ st = "Succeeded"
<1>1. PICK res : res = [action |-> a, status |-> st]
  OBVIOUS
<1>2. a \in Actions /\ a \in PlanActions
  BY DEF TypeOK, PlanInv
<1>3. /\ res \in [action : Actions, status : Statuses] /\ res.action = a /\ res.status = st
  BY <1>1, <1>2
<1>4. results' = results \cup {res} /\ ops' = ops \ {a}
  BY <1>1 DEF Record
<1>5. failedTopics' \subseteq {Name}
  BY DEF Record, TypeOK
<1>6. AllSucceeded' => AllSucceeded /\ st = "Succeeded"
  BY <1>3, <1>4 DEF AllSucceeded
<1>7. PlanInv'
  BY <1>2, <1>3, <1>4 DEF PlanInv
<1> QED
  BY <1>3, <1>4, <1>5, <1>6, <1>7 DEF TypeOK

(* One action is done with, successfully or not.                           *)
LEMMA ExecKeeps ==
  ASSUME TopicInv, pc = "exec", NEW a \in ops, IsNext(a, ops), NEW st \in Statuses,
         Record(a, st), UNCHANGED <<cr, pc, job, status, quiet, edits, envOps>>, faults' \in Nat,
         st \in OKStatuses => st = "Succeeded",
         live' = live \/ (a \notin Stuck /\ live' \in Live /\ Brings(a, live')),
         st = "Succeeded" => a \notin Stuck /\ live' \in Live /\ Brings(a, live')
  PROVE  TopicInv'
<1> USE DEF TopicInv, cr
<1>0. /\ ops' = ops \ {a} /\ ops' \subseteq Actions
      /\ results' \subseteq [action : Actions, status : Statuses]
      /\ failedTopics' \subseteq {Name}
      /\ PlanInv'
      /\ AllSucceeded' => AllSucceeded /\ st = "Succeeded"
  BY RecordFacts
<1>1. TypeOK'
  BY <1>0 DEF TypeOK
<1>2. JobInv'
  BY DEF JobInv
<1>3. ViewInv'
  <2>1. live'.global = live.global
    BY DEF Brings
  <2>2. ~Looked /\ ~Looked' /\ pc \notin Reads
    BY DEF Looked, Reads
  <2>3. Manages(job)' <=> Manages(job)
    BY DEF Manages
  <2> QED
    BY <2>1, <2>2, <2>3 DEF ViewInv, Reads
<1>4. LevelInv'
  <2>1. SUFFICES ASSUME quiet, "RaiseSchemaCompatibility" \in ops', ~job.globalErr,
                        live'.versions # <<>>
                 PROVE  LET base == Effective(live'.level, live'.global)
                        IN \/ base = job.spec.compat
                           \/ compatRank(base) < compatRank(job.spec.compat)
    BY DEF LevelInv, compatRank, Effective
  <2>2. "RaiseSchemaCompatibility" \in ops /\ a # "RaiseSchemaCompatibility"
    BY <1>0, <2>1
  <2>3. a # "RegisterSchema"
    BY <2>2, RaiseComesFirst
  <2>4. live'.versions = live.versions /\ live'.global = live.global
    BY <2>3 DEF Brings
  <2>5. CASE live'.level = live.level
    BY <2>1, <2>2, <2>4, <2>5 DEF LevelInv
  <2>6. CASE a \in LevelActions /\ live'.level = job.spec.compat
    <3>1. job.spec.compat \in Levels
      BY <2>6 DEF PlanInv
    <3>2. job.spec.compat # ""
      BY <3>1 DEF Levels
    <3> QED
      BY <2>6, <3>2 DEF Effective
  <2> QED
    BY <2>5, <2>6 DEF Brings
<1>5. CourseInv'
  <2>1. SUFFICES ASSUME quiet, AllSucceeded' PROVE OnCourse(ops)'
    BY DEF CourseInv
  <2>2. st = "Succeeded" /\ OnCourse(ops)
    BY <1>0, <2>1 DEF CourseInv
  <2> QED
    BY <1>0, <2>2, EffectKeepsCourse
<1>6. StatusIsTruthful'
  BY DEF StatusIsTruthful
<1> QED
  BY <1>0, <1>1, <1>2, <1>3, <1>4, <1>5, <1>6

(* Executing keeps the invariant, dispatched or not, answered or not.      *)
LEMMA ExecutionKeeps ==
  ASSUME TopicInv, NotDispatched \/ Dispatch \/ DispatchFails PROVE TopicInv'
<1>0. /\ "Succeeded" \in Statuses /\ "Failed" \in Statuses /\ faults \in Nat
      /\ ops \subseteq PlanActions /\ TypeOK /\ JobInv /\ PlanInv /\ "Failed" \notin OKStatuses
  BY DEF Statuses, OKStatuses, TopicInv, TypeOK, PlanInv
<1>1. CASE NotDispatched
  <2>1. PICK a \in ops :
          IsNext(a, ops) /\ VerdictOn(a) # "Dispatch" /\ Record(a, VerdictOn(a))
    BY <1>1 DEF NotDispatched
  <2>2. PICK st : st = VerdictOn(a)
    OBVIOUS
  <2>3. st \in Statuses /\ st # "Succeeded" /\ st \notin OKStatuses
    BY <1>0, <2>1, <2>2, VerdictFacts DEF OKStatuses
  <2>4. /\ pc = "exec" /\ live' = live
        /\ UNCHANGED <<cr, pc, job, status, quiet, edits, envOps>> /\ faults' \in Nat
    BY <1>0, <1>1 DEF NotDispatched
  <2> QED
    BY <2>1, <2>2, <2>3, <2>4, ExecKeeps
<1>2. CASE Dispatch
  <2>1. PICK a \in ops :
          /\ Dispatching(a)
          /\ IF Accepts(a) THEN live' = Effect(a) /\ Record(a, "Succeeded")
                           ELSE live' = live /\ Record(a, "Failed")
    BY <1>2 DEF Dispatch
  <2>2. pc = "exec" /\ IsNext(a, ops) /\ a \notin Stuck
    BY <1>0, <2>1, VerdictFacts DEF Dispatching
  <2>3. UNCHANGED <<cr, pc, job, status, quiet, edits, envOps>> /\ faults' \in Nat
    BY <1>0, <1>2 DEF Dispatch
  <2>4. CASE Accepts(a) /\ live' = Effect(a) /\ Record(a, "Succeeded")
    <3>1. live' \in Live /\ Brings(a, live')
      BY <1>0, <2>2, <2>4, EffectBrings
    <3> QED
      BY <1>0, <2>2, <2>3, <2>4, <3>1, ExecKeeps
  <2>5. CASE live' = live /\ Record(a, "Failed")
    BY <1>0, <2>2, <2>3, <2>5, ExecKeeps
  <2> QED
    BY <2>1, <2>4, <2>5
<1>3. CASE DispatchFails
  <2>1. PICK a \in ops :
          /\ Dispatching(a)
          /\ live' = live \/ (Accepts(a) /\ live' = Effect(a))
          /\ Record(a, "Failed")
    BY <1>3 DEF DispatchFails
  <2>2. pc = "exec" /\ IsNext(a, ops) /\ a \notin Stuck
    BY <1>0, <2>1, VerdictFacts DEF Dispatching
  <2>3. UNCHANGED <<cr, pc, job, status, quiet, edits, envOps>> /\ faults' \in Nat
    BY <1>0, <1>3 DEF DispatchFails, Fault
  <2>4. live' = live \/ (a \notin Stuck /\ live' \in Live /\ Brings(a, live'))
    BY <1>0, <2>1, <2>2, EffectBrings
  <2> QED
    BY <1>0, <2>1, <2>2, <2>3, <2>4, ExecKeeps
<1> QED
  BY <1>1, <1>2, <1>3

(***************************************************************************)
(* Beginning and reading.                                                  *)
(***************************************************************************)

(* Nothing is known before a reconcile begins.                             *)
LEMMA IdleFacts ==
  /\ Idle \in Job /\ Idle.spec = NoSpec /\ Idle.gen = 0 /\ Idle.resolved
  /\ ~Idle.globalErr /\ ~Idle.present /\ Idle.def = "" /\ ~NoSpec.valid
  /\ NoSpec.schema = "none" /\ NoSpec.mode = "none"
<1>1. NoTopic \in Topic
  BY DEF NoTopic, Topic
<1> QED
  BY <1>1 DEF Idle, Job, NoSpec

(* The resource is copied as it is.                                        *)
LEMMA BeginKeeps == ASSUME TopicInv, Begin PROVE TopicInv'
<1> USE DEF TopicInv
<1> DEFINE d == IF spec.schema = "content" /\ Resolved(spec) THEN secret ELSE ""
<1>1. /\ pc = "idle" /\ quiet' = TRUE /\ pc' = IF spec.valid THEN "topic" ELSE "status"
      /\ job' = [Idle EXCEPT !.spec = spec, !.gen = gen, !.approved = approved,
                   !.resolved = Resolved(spec), !.def = d]
      /\ UNCHANGED <<cr, live, ops, results, failedTopics, status, edits, envOps, faults>>
  BY DEF Begin, CopyResource
<1>2. d \in Bodies \cup {""} /\ Resolved(spec) \in BOOLEAN
  BY DEF TypeOK, Resolved
<1>3. spec \in Specs /\ gen \in Nat /\ approved \in BOOLEAN /\ spec.valid \in BOOLEAN
  BY TopicAssumption DEF TypeOK
<1>4. /\ job' \in Job /\ job'.spec = spec /\ job'.gen = gen /\ job'.resolved = Resolved(spec)
      /\ job'.def = d /\ job'.globalErr = Idle.globalErr
  <2>1. PICK def, res : def = d /\ res = Resolved(spec)
    OBVIOUS
  <2>2. job' = [Idle EXCEPT !.spec = spec, !.gen = gen, !.approved = approved,
                  !.resolved = res, !.def = def]
    BY <1>1, <2>1
  <2>3. Idle \in Job /\ res \in BOOLEAN /\ def \in Bodies \cup {""}
    BY <1>2, <2>1, IdleFacts
  <2>4. /\ job' \in Job /\ job'.spec = spec /\ job'.gen = gen /\ job'.resolved = res
        /\ job'.def = def /\ job'.globalErr = Idle.globalErr
    BY <1>3, <2>2, <2>3 DEF Job
  <2> QED
    BY <2>1, <2>4
<1> HIDE DEF d
<1>5. pc' \in {"topic", "status"} /\ (pc' = "status" <=> ~spec.valid) /\ ops' = {} /\ results' = {}
  BY <1>1 DEF JobInv
<1>6. TypeOK'
  BY <1>1, <1>4, <1>5 DEF TypeOK, cr, Reads
<1>7. JobInv'
  <2>1. job'.spec.schema = "content" /\ job'.resolved => job'.def \in Bodies
    BY <1>4 DEF d, Resolved, TypeOK
  <2>2. ~job'.resolved => job'.spec.schema = "content"
    BY <1>4 DEF Resolved
  <2> QED
    BY <1>1, <1>3, <1>4, <1>5, <2>1, <2>2 DEF JobInv, cr, Reads
<1>8. ViewInv'
  <2>1. ~Looked'
    BY <1>4, <1>5 DEF Looked
  <2> QED
    BY <1>1, <1>4, <1>5, <2>1 DEF d, ViewInv, Resolved, cr, Reads
<1>9. PlanInv' /\ LevelInv' /\ CourseInv' /\ StatusIsTruthful'
  BY <1>5 DEF PlanInv, LevelInv, CourseInv, StatusIsTruthful
<1> QED
  BY <1>6, <1>7, <1>8, <1>9

(* A read moves nothing but the reconcile's place and its view.            *)
LEMMA ReadingKeeps ==
  ASSUME TopicInv, pc \in Reads, job' \in Job, pc' \in Reads \cup {"plan"},
         job'.spec = job.spec, job'.gen = job.gen, job'.def = job.def,
         job'.resolved = job.resolved, ViewInv',
         UNCHANGED <<cr, live, ops, results, failedTopics, status, quiet, edits, envOps>>,
         faults' \in Nat
  PROVE  TopicInv'
<1> USE DEF TopicInv
<1>1. pc # "idle" /\ pc # "exec" /\ pc' \notin {"idle", "exec", "status"} /\ ops = {} /\ results = {}
  BY DEF Reads, JobInv
<1>2. TypeOK'
  BY DEF TypeOK, cr
<1>3. JobInv'
  BY <1>1 DEF JobInv, cr
<1>4. PlanInv' /\ LevelInv' /\ CourseInv' /\ StatusIsTruthful'
  BY <1>1 DEF PlanInv, LevelInv, CourseInv, StatusIsTruthful
<1> QED
  BY <1>2, <1>3, <1>4

(* A read that returns what is there.                                      *)
LEMMA ReadKeeps == ASSUME TopicInv, Read PROVE TopicInv'
<1> USE DEF TopicInv
<1>1. /\ pc \in Reads /\ job' = Observed /\ pc' = AfterRead(job')
      /\ UNCHANGED <<cr, live, ops, results, failedTopics, status, quiet, edits, envOps, faults>>
  BY DEF Read
<1>2. /\ job \in Job /\ live \in Live /\ live.topic \in Topic /\ live.acl \in BOOLEAN
      /\ live.level \in Levels \cup {""} /\ live.global \in Levels \cup {""}
      /\ live.versions \in Seq(Bodies)
  BY DEF TypeOK, Live
<1>3. Latest \in Bodies \cup {""} /\ \A d : Registered(d) \in BOOLEAN
  <2>1. \A v \in Seq(Bodies) : v # <<>> => v[Len(v)] \in Bodies
    OBVIOUS
  <2> QED
    BY <1>2, <2>1 DEF Latest, Registered
<1>4. /\ pc = "topic" => job' = [job EXCEPT !.topic = live.topic] /\ pc' = "acls"
      /\ pc = "acls" =>
           /\ job' = [job EXCEPT !.acl = live.acl]
           /\ pc' = IF Manages(job') THEN "global" ELSE "plan"
      /\ pc = "global" => job' = [job EXCEPT !.global = live.global] /\ pc' = "subject"
      /\ pc = "subject" =>
           /\ job' = [job EXCEPT !.present = live.versions # <<>>, !.latest = Latest]
           /\ pc' = IF job'.present \/ job'.spec.schema = "governance" THEN "level" ELSE "plan"
      /\ pc = "level" =>
           /\ job' = [job EXCEPT !.level = live.level]
           /\ pc' = IF job'.spec.schema = "content" /\ job'.def # job'.latest
                      THEN "lookup" ELSE "plan"
      /\ pc = "lookup" => job' = [job EXCEPT !.superseded = Registered(job.def)] /\ pc' = "plan"
  BY <1>1 DEF Observed, AfterRead
<1>5. /\ job' \in Job /\ job'.spec = job.spec /\ job'.gen = job.gen /\ job'.def = job.def
      /\ job'.resolved = job.resolved /\ job'.globalErr = job.globalErr
  <2>1. PICK full, last, sup :
          full = (live.versions # <<>>) /\ last = Latest /\ sup = Registered(job.def)
    OBVIOUS
  <2>2. \/ job' = [job EXCEPT !.topic = live.topic] \/ job' = [job EXCEPT !.acl = live.acl]
        \/ job' = [job EXCEPT !.global = live.global]
        \/ job' = [job EXCEPT !.present = full, !.latest = last]
        \/ job' = [job EXCEPT !.level = live.level] \/ job' = [job EXCEPT !.superseded = sup]
    BY <1>1, <1>4, <2>1 DEF Reads
  <2>3. full \in BOOLEAN /\ last \in Bodies \cup {""} /\ sup \in BOOLEAN
    BY <1>3, <2>1
  <2> QED
    BY <1>2, <2>2, <2>3 DEF Job
<1>6. pc' \in Reads \cup {"plan"}
  BY <1>1, <1>4 DEF Reads
<1>7. Manages(job') <=> Manages(job)
  BY <1>5 DEF Manages
<1>8. ViewInv'
  <2>1. /\ Looked' <=> pc' = "plan"
        /\ ~Looked /\ pc # "idle"
        /\ Latest' = Latest /\ \A d : Registered(d)' = Registered(d)
        /\ live' = live /\ quiet' = quiet /\ secret' = secret
    BY <1>1, <1>6 DEF Looked, Reads, Latest, Registered, cr
  <2>2. /\ Manages(job)' <=> Manages(job)
        /\ job.spec.schema \in {"none", "governance", "content"}
    BY <1>1, <1>7, TopicAssumption DEF JobInv, Reads
  <2>3. CASE pc = "topic"
    BY <1>2, <1>4, <1>5, <2>1, <2>2, <2>3 DEF ViewInv, Job, Reads
  <2>4. CASE pc = "acls"
    BY <1>2, <1>4, <1>5, <1>7, <2>1, <2>2, <2>4 DEF ViewInv, Job, Reads
  <2>5. CASE pc = "global"
    BY <1>2, <1>4, <1>5, <2>1, <2>2, <2>5 DEF ViewInv, Job, Reads
  <2>6. CASE pc = "subject"
    BY <1>2, <1>3, <1>4, <1>5, <2>1, <2>2, <2>6 DEF ViewInv, Job, Reads
  <2>7. CASE pc = "level"
    BY <1>2, <1>4, <1>5, <2>1, <2>2, <2>7 DEF ViewInv, Job, Reads
  <2>8. CASE pc = "lookup"
    <3>1. Registered(job.def)' = Registered(job.def)
      BY <1>5, <2>1 DEF Registered
    <3>2. PICK sup \in BOOLEAN : sup = Registered(job.def)
      BY <1>3
    <3>3. job' = [job EXCEPT !.superseded = sup] /\ pc' = "plan"
      BY <1>4, <2>8, <3>2
    <3>4. /\ job'.superseded = sup /\ job'.topic = job.topic /\ job'.acl = job.acl
          /\ job'.global = job.global /\ job'.present = job.present /\ job'.latest = job.latest
          /\ job'.level = job.level
      BY <1>2, <3>3 DEF Job
    <3> QED
      BY <1>5, <2>1, <2>2, <2>8, <3>1, <3>2, <3>3, <3>4 DEF ViewInv, Reads
  <2> QED
    BY <1>1, <2>3, <2>4, <2>5, <2>6, <2>7, <2>8 DEF Reads
<1> QED
  BY <1>1, <1>5, <1>6, <1>8, ReadingKeeps DEF TypeOK

(* A read that failed leaves a gap in the view, or ends the reconcile.     *)
LEMMA ReadFailsKeeps == ASSUME TopicInv, ReadFails PROVE TopicInv'
<1> USE DEF TopicInv
<1>1. /\ pc \in Reads /\ faults' \in Nat
      /\ UNCHANGED <<cr, live, ops, results, failedTopics, quiet, edits, envOps>>
      /\ job \in Job
  BY DEF ReadFails, Fault, TypeOK
<1>2. CASE pc = "global" /\ job' = [job EXCEPT !.globalErr = TRUE] /\ pc' = "subject"
           /\ status' = status
  <2>1. /\ job' \in Job /\ job'.spec = job.spec /\ job'.gen = job.gen /\ job'.def = job.def
        /\ job'.resolved = job.resolved /\ job'.globalErr /\ job'.topic = job.topic
        /\ job'.acl = job.acl
    BY <1>1, <1>2 DEF Job
  <2>2. ~Looked' /\ pc' \in Reads
    BY <1>2 DEF Looked, Reads
  <2>3. ViewInv'
    BY <1>1, <1>2, <2>1, <2>2 DEF ViewInv, Reads, cr
  <2> QED
    BY <1>1, <1>2, <2>1, <2>2, <2>3, ReadingKeeps
<1>3. CASE /\ pc' = "idle" /\ job' = Idle
           /\ status' = [status EXCEPT !.gen = job.gen, !.ready = "False", !.drift = "none",
                           !.schemaSynced = IF SchemaDeclared(job.spec) THEN @ ELSE "absent"]
  <2>1. PICK sync \in {"absent", "True", "False"} :
          status' = [status EXCEPT !.gen = job.gen, !.ready = "False", !.drift = "none",
                       !.schemaSynced = sync]
    BY <1>3 DEF TypeOK, Status
  <2>2. /\ status' \in Status /\ status'.gen = job.gen /\ status'.ready = "False"
        /\ status'.drift = "none"
    BY <1>1, <2>1 DEF TypeOK, Status, Job
  <2>3. ops = {} /\ results = {} /\ job.gen <= gen
    BY <1>1 DEF JobInv, Reads
  <2>4. TypeOK'
    BY <1>1, <1>3, <2>2, IdleFacts DEF TypeOK, cr
  <2>5. JobInv'
    BY <1>1, <1>3, <2>2, <2>3 DEF JobInv, Reads, cr
  <2>6. ViewInv' /\ PlanInv' /\ LevelInv' /\ CourseInv'
    BY <1>1, <1>3, <2>3 DEF ViewInv, PlanInv, LevelInv, CourseInv
  <2>7. StatusIsTruthful'
    BY <2>2 DEF StatusIsTruthful
  <2> QED
    BY <2>4, <2>5, <2>6, <2>7
<1> QED
  BY <1>2, <1>3 DEF ReadFails

(***************************************************************************)
(* The plan.                                                               *)
(***************************************************************************)

(* What diff.Compute says of the copy, whatever was read.                  *)
LEMMA PendingActions ==
  ASSUME TypeOK, JobInv, pc # "idle"
  PROVE  /\ Pending(job) \subseteq PlanActions
         /\ "UpdateTopicConfig" \in Pending(job) => job.spec.cfg # "unset"
         /\ "RegisterSchema" \in Pending(job) => job.spec.schema = "content" /\ job.resolved
         /\ \A a \in LevelActions : a \in Pending(job) => job.spec.compat \in Levels
<1> DEFINE register ==
             IF job.spec.schema = "governance" \/ (job.present /\ job.def = job.latest) THEN {}
             ELSE IF job.superseded THEN {"SchemaSuperseded"} ELSE {"RegisterSchema"}
           level ==
             IF job.spec.compat \in {"", LevelSeen(job)} THEN {}
             ELSE {compatibilityOp(job.spec.compat, LevelSeen(job), job.global)}
<1>0. /\ job.spec \in Specs /\ job.spec.schema \in {"none", "governance", "content"}
      /\ job.spec.compat \in Levels \cup {""}
  BY TopicAssumption DEF JobInv
<1>1. /\ computeTopicOps(job) \subseteq
           {"CreateTopic", "Rejected", "IncreasePartitions", "UpdateTopicConfig",
            "UpdateReplicationFactor"}
      /\ "UpdateTopicConfig" \in computeTopicOps(job) => job.spec.cfg # "unset"
  BY DEF computeTopicOps
<1>2. compatibilityOp(job.spec.compat, LevelSeen(job), job.global) \in LevelActions
  BY DEF compatibilityOp, LevelActions
<1>3. computeSchemaOps(job) = IF ~Manages(job) THEN {} ELSE register \cup level
  BY DEF computeSchemaOps
<1>4. /\ computeSchemaOps(job) \subseteq {"SchemaSuperseded", "RegisterSchema"} \cup LevelActions
      /\ "RegisterSchema" \in computeSchemaOps(job) =>
           job.spec.schema = "content" /\ job.resolved
      /\ \A a \in LevelActions : a \in computeSchemaOps(job) => job.spec.compat \in Levels
  <2>1. level = {} \/ (job.spec.compat \in Levels /\ level \subseteq LevelActions)
    BY <1>0, <1>2
  <2>2. /\ register \subseteq {"SchemaSuperseded", "RegisterSchema"}
        /\ "RegisterSchema" \in register => job.spec.schema # "governance"
    OBVIOUS
  <2>3. Manages(job) => job.resolved /\ job.spec.schema \in {"governance", "content"}
    BY <1>0 DEF Manages, SchemaDeclared
  <2> HIDE DEF register, level
  <2> QED
    BY <1>3, <2>1, <2>2, <2>3 DEF LevelActions
<1> HIDE DEF register, level
<1>5. Pending(job) =
        computeTopicOps(job) \cup (IF job.acl THEN {} ELSE {"CreateAcl"}) \cup computeSchemaOps(job)
  BY DEF Pending
<1> QED
  BY <1>1, <1>4, <1>5 DEF PlanActions, LevelActions

(* A plan made of what there is leads to what is declared.                 *)
LEMMA PendingIsOnCourse ==
  ASSUME TopicInv, Looked, quiet PROVE OnCourse(Pending(job))
<1> USE DEF TopicInv
<1>0. /\ pc # "idle" /\ job.spec \in Specs
      /\ job.spec.schema \in {"none", "governance", "content"}
      /\ job.spec.partitions \in Nat /\ live.topic.partitions \in Nat /\ job.topic \in Topic
  <2>1. pc # "idle"
    BY DEF Looked
  <2> QED
    BY <2>1, TopicAssumption DEF JobInv, TypeOK, Live, Job, Topic
<1>1. /\ job.topic = live.topic /\ job.acl = live.acl
      /\ Manages(job) => job.present = (live.versions # <<>>) /\ job.latest = Latest
      /\ Manages(job) /\ (job.present \/ job.spec.schema = "governance") => job.level = live.level
      /\ Manages(job) /\ job.spec.schema = "content" /\ job.def # job.latest /\ job.present =>
           job.superseded = Registered(job.def)
  BY <1>0 DEF ViewInv
<1>2. SUFFICES ASSUME \A a \in Pending(job) : a \notin Stuck
               PROVE  TopicWanted(Pending(job)) /\ SchemaWanted(Pending(job))
  BY DEF OnCourse
<1>3. /\ computeTopicOps(job) \subseteq Pending(job) /\ computeSchemaOps(job) \subseteq Pending(job)
      /\ job.acl \/ "CreateAcl" \in Pending(job)
  BY DEF Pending
<1>4. TopicWanted(Pending(job))
  <2>1. CASE ~job.topic.exists
    BY <1>1, <1>3, <2>1 DEF computeTopicOps, TopicWanted
  <2>2. CASE job.topic.exists
    <3>1. /\ ~Ignores(job, "partitions") /\ job.spec.partitions < job.topic.partitions =>
               "Rejected" \in computeTopicOps(job)
          /\ ~Ignores(job, "partitions") /\ job.spec.partitions > job.topic.partitions =>
               "IncreasePartitions" \in computeTopicOps(job)
          /\ ~Ignores(job, "cfg") /\ job.spec.cfg \notin {"unset", job.topic.cfg} =>
               "UpdateTopicConfig" \in computeTopicOps(job)
          /\ ~Ignores(job, "rf") /\ job.spec.rf \notin {0, job.topic.rf} =>
               "UpdateReplicationFactor" \in computeTopicOps(job)
      BY <2>2 DEF computeTopicOps
    <3>2. "Rejected" \notin computeTopicOps(job) /\ "UpdateReplicationFactor" \notin computeTopicOps(job)
      BY <1>2, <1>3 DEF Stuck
    <3>3. \/ "partitions" \in job.spec.ignore \/ live.topic.partitions = job.spec.partitions
          \/ "IncreasePartitions" \in Pending(job)
      BY <1>0, <1>1, <1>3, <3>1, <3>2 DEF Ignores
    <3>4. \/ "cfg" \in job.spec.ignore \/ job.spec.cfg \in {"unset", live.topic.cfg}
          \/ "UpdateTopicConfig" \in Pending(job)
      BY <1>1, <1>3, <3>1 DEF Ignores
    <3>5. "rf" \in job.spec.ignore \/ job.spec.rf \in {0, live.topic.rf}
      BY <1>1, <3>1, <3>2 DEF Ignores
    <3> QED
      BY <1>1, <1>3, <2>2, <3>3, <3>4, <3>5 DEF TopicWanted
  <2> QED
    BY <2>1, <2>2
<1>5. SchemaWanted(Pending(job))
  <2>1. SUFFICES ASSUME Manages(job)
                 PROVE  /\ job.spec.schema = "content" =>
                             \/ Latest = job.def
                             \/ "RegisterSchema" \in Pending(job) /\ ~Registered(job.def)
                        /\ \/ job.spec.compat \in {"", live.level}
                           \/ \E a \in LevelActions : a \in Pending(job)
    BY DEF SchemaWanted
  <2>2. ASSUME job.spec.schema = "content", Latest # job.def
        PROVE  "RegisterSchema" \in Pending(job) /\ ~Registered(job.def)
    <3>1. ~(job.present /\ job.def = job.latest) /\ job.spec.schema # "governance"
      BY <1>1, <2>1, <2>2
    <3>2. IF job.superseded THEN "SchemaSuperseded" \in computeSchemaOps(job)
                            ELSE "RegisterSchema" \in computeSchemaOps(job)
      BY <2>1, <3>1 DEF computeSchemaOps
    <3>3. ~job.superseded /\ "RegisterSchema" \in Pending(job)
      BY <1>2, <1>3, <3>2 DEF Stuck
    <3>4. ~Registered(job.def)
      <4>1. CASE job.present
        BY <1>1, <2>1, <2>2, <3>3, <4>1
      <4>2. CASE ~job.present
        <5>1. live.versions = <<>>
          BY <1>1, <2>1, <4>2
        <5>2. DOMAIN <<>> = {}
          OBVIOUS
        <5> QED
          BY <5>1, <5>2, Zenon DEF Registered
      <4> QED
        BY <4>1, <4>2
    <3> QED
      BY <3>3, <3>4
  <2>3. ASSUME job.spec.compat \notin {"", live.level}
        PROVE  \E a \in LevelActions : a \in Pending(job)
    <3>1. job.spec.compat \notin {"", LevelSeen(job)}
      BY <1>1, <2>1, <2>3 DEF LevelSeen
    <3>2. compatibilityOp(job.spec.compat, LevelSeen(job), job.global) \in computeSchemaOps(job)
      BY <2>1, <3>1 DEF computeSchemaOps
    <3>3. compatibilityOp(job.spec.compat, LevelSeen(job), job.global) \in LevelActions
      BY DEF compatibilityOp, LevelActions
    <3> QED
      BY <1>3, <3>2, <3>3
  <2> QED
    BY <2>2, <2>3
<1> QED
  BY <1>4, <1>5

(* A raise is one: the level it is measured against is the one in force,   *)
(* once the subject has a version and the global default could be read.    *)
LEMMA RaiseIsARaise ==
  ASSUME TopicInv, Looked, quiet, "RaiseSchemaCompatibility" \in Pending(job), ~job.globalErr,
         live.versions # <<>>, NEW base, base = Effective(live.level, live.global)
  PROVE  base = job.spec.compat \/ compatRank(base) < compatRank(job.spec.compat)
<1> USE DEF TopicInv
<1>1. pc # "idle"
  BY DEF Looked
<1>2. "RaiseSchemaCompatibility" \in computeSchemaOps(job)
  BY DEF Pending, computeTopicOps
<1>3. Manages(job)
  BY <1>2 DEF computeSchemaOps
<1>4. "RaiseSchemaCompatibility" = compatibilityOp(job.spec.compat, LevelSeen(job), job.global)
  BY <1>2, <1>3 DEF computeSchemaOps
<1>5. job.present /\ job.level = live.level /\ job.global = live.global
  BY <1>1, <1>3 DEF ViewInv
<1>6. LevelSeen(job) = live.level
  BY <1>5 DEF LevelSeen
<1>7. compatibilityOp(job.spec.compat, live.level, live.global) = "RaiseSchemaCompatibility"
  BY <1>4, <1>5, <1>6
<1>8. \/ live.level = "" /\ base # "" /\ job.spec.compat = base
      \/ compatRank(job.spec.compat) > compatRank(base)
  BY <1>7 DEF compatibilityOp
<1>9. compatRank(base) \in Int /\ compatRank(job.spec.compat) \in Int
  BY DEF compatRank
<1> QED
  BY <1>8, <1>9

(* The plan is made, and executed only when the resource is enforced.      *)
LEMMA PlanKeeps == ASSUME TopicInv, Plan PROVE TopicInv'
<1> USE DEF TopicInv
<1>1. /\ pc = "plan" /\ Looked /\ ops = {} /\ results = {}
      /\ UNCHANGED <<cr, live, job, results, failedTopics, status, quiet, edits, envOps, faults>>
  BY DEF Plan, Looked, JobInv
<1>2. /\ Latest' = Latest /\ Registered(job.def)' = Registered(job.def)
      /\ Manages(job)' <=> Manages(job)
  BY <1>1 DEF Latest, Registered, Manages
<1>3. /\ Pending(job) \subseteq PlanActions
      /\ "UpdateTopicConfig" \in Pending(job) => job.spec.cfg # "unset"
      /\ "RegisterSchema" \in Pending(job) => job.spec.schema = "content" /\ job.resolved
      /\ \A a \in LevelActions : a \in Pending(job) => job.spec.compat \in Levels
  BY <1>1, PendingActions
<1>4. CASE job.spec.mode = "Enforce" /\ ops' = Pending(job) /\ pc' = "exec"
  <2>1. TypeOK'
    BY <1>1, <1>3, <1>4, PlanActionsKnown DEF TypeOK, cr
  <2>2. JobInv'
    BY <1>1, <1>4 DEF JobInv, cr, Reads
  <2>3. ViewInv'
    BY <1>1, <1>2, <1>4 DEF ViewInv, Looked, Reads, cr
  <2>4. PlanInv'
    BY <1>1, <1>3, <1>4 DEF PlanInv
  <2>5. LevelInv'
    <3>1. SUFFICES ASSUME quiet, "RaiseSchemaCompatibility" \in Pending(job), ~job.globalErr,
                          live.versions # <<>>
                   PROVE  LET base == Effective(live.level, live.global)
                          IN \/ base = job.spec.compat
                             \/ compatRank(base) < compatRank(job.spec.compat)
      BY <1>1, <1>4 DEF LevelInv, Effective, compatRank
    <3>2. PICK base : base = Effective(live.level, live.global)
      OBVIOUS
    <3>3. base = job.spec.compat \/ compatRank(base) < compatRank(job.spec.compat)
      BY <1>1, <3>1, <3>2, RaiseIsARaise
    <3> QED
      BY <3>2, <3>3
  <2>6. CourseInv'
    <3>1. quiet => OnCourse(Pending(job))
      BY <1>1, PendingIsOnCourse
    <3>2. OnCourse(Pending(job)) => OnCourse(ops)'
      BY <1>1, <1>2, <1>4 DEF OnCourse, TopicWanted, SchemaWanted
    <3> QED
      BY <1>1, <3>1, <3>2 DEF CourseInv
  <2>7. StatusIsTruthful'
    BY <1>4 DEF StatusIsTruthful
  <2> QED
    BY <2>1, <2>2, <2>3, <2>4, <2>5, <2>6, <2>7
<1>5. CASE job.spec.mode # "Enforce" /\ ops' = ops /\ pc' = "status"
  <2>1. TypeOK'
    BY <1>1, <1>5 DEF TypeOK, cr
  <2>2. JobInv'
    BY <1>1, <1>5 DEF JobInv, cr, Reads
  <2>3. ViewInv'
    BY <1>1, <1>2, <1>5 DEF ViewInv, Looked, Reads, cr
  <2>4. PlanInv' /\ LevelInv' /\ CourseInv' /\ StatusIsTruthful'
    BY <1>1, <1>5 DEF PlanInv, LevelInv, CourseInv, StatusIsTruthful
  <2> QED
    BY <2>1, <2>2, <2>3, <2>4
<1> QED
  BY <1>4, <1>5 DEF Plan

(***************************************************************************)
(* Reporting.                                                              *)
(***************************************************************************)

(* Nothing left to do and nothing that did not succeed: the declaration is *)
(* met, and its schema is left out only if its body could not be resolved. *)
LEMMA NothingWanted ==
  ASSUME TopicInv, pc # "idle", quiet, job.gen = gen, TopicWanted({}), SchemaWanted({})
  PROVE  /\ TopicInSync(spec)
         /\ Manages(job) => SchemaInSync(spec)
         /\ SchemaDeclared(job.spec) /\ ~Manages(job) => secret = "missing"
<1>1. job.spec = spec
  BY DEF TopicInv, JobInv
<1>2. TopicInSync(spec)
  BY <1>1 DEF TopicWanted, TopicInSync
<1>3. Manages(job) => SchemaInSync(spec)
  BY <1>1 DEF SchemaWanted, SchemaInSync, TopicInv, ViewInv, Manages, LevelActions
<1>4. SchemaDeclared(job.spec) /\ ~Manages(job) => secret = "missing"
  BY DEF Manages, TopicInv, JobInv, ViewInv
<1> QED
  BY <1>2, <1>3, <1>4

(* What is reported of a valid resource.                                   *)
LEMMA FinishFacts ==
  ASSUME TopicInv, pc # "idle", NEW st, st = finish
  PROVE  /\ st \in Status /\ st.gen = job.gen
         /\ st.drift = "no" \/ (st.ready = "True" /\ job.spec.mode # "ObserveOnly") =>
              IF job.spec.mode = "Enforce" THEN AllSucceeded ELSE Pending(job) = {}
         /\ st.schemaSynced = "True" => Manages(job)
         /\ /\ st.schemaSynced = "False"
            /\ IF job.spec.mode = "Enforce" THEN AllSucceeded ELSE Pending(job) = {}
            => SchemaDeclared(job.spec) /\ ~Manages(job)
<1> DEFINE clean == Outcome(Actions)
           synced == job.resolved /\ Outcome(SchemaActions)
           good == \/ job.spec.mode = "ObserveOnly"
                   \/ IF job.spec.mode = "Enforce" THEN ResultOK(results) ELSE clean
<1>0. job.gen \in Nat /\ Pending(job) \subseteq Actions /\ job.resolved \in BOOLEAN
      /\ \A res \in results : res.action \in Actions /\ res.action \in PlanActions
  BY PendingActions, PlanActionsKnown DEF TopicInv, TypeOK, Job, PlanInv
<1>1. clean <=> (IF job.spec.mode = "Enforce" THEN AllSucceeded ELSE Pending(job) = {})
  BY <1>0 DEF Outcome, AllSucceeded
<1>2. clean => Outcome(SchemaActions)
  BY <1>0 DEF Outcome
<1>3. PICK d \in {"no", "yes"}, rd \in {"True", "False"}, sc \in {"absent", "True", "False"},
           dg \in BOOLEAN :
        /\ st = [gen |-> job.gen, ready |-> rd, drift |-> d, schemaSynced |-> sc, degraded |-> dg]
        /\ d = "no" <=> clean
        /\ rd = "True" <=> good
        /\ sc = "absent" <=> ~SchemaDeclared(job.spec)
        /\ sc = "True" <=> SchemaDeclared(job.spec) /\ synced
  <2> DEFINE dd == IF clean THEN "no" ELSE "yes"
             rr == IF good THEN "True" ELSE "False"
             ss == IF ~SchemaDeclared(job.spec) THEN "absent" ELSE IF synced THEN "True" ELSE "False"
             gg == Manages(job) /\ job.globalErr
  <2>1. st = [gen |-> job.gen, ready |-> rr, drift |-> dd, schemaSynced |-> ss, degraded |-> gg]
    BY DEF finish
  <2>2. /\ dd \in {"no", "yes"} /\ rr \in {"True", "False"} /\ ss \in {"absent", "True", "False"}
        /\ gg \in BOOLEAN
        /\ dd = "no" <=> clean
        /\ rr = "True" <=> good
        /\ ss = "absent" <=> ~SchemaDeclared(job.spec)
        /\ ss = "True" <=> SchemaDeclared(job.spec) /\ synced
    OBVIOUS
  <2> HIDE DEF dd, rr, ss, gg, clean, good, synced
  <2> QED
    BY <2>1, <2>2
<1>4. /\ st.gen = job.gen /\ st.drift = d /\ st.ready = rd /\ st.schemaSynced = sc
      /\ st \in Status
  BY <1>0, <1>3 DEF Status
<1>5. good /\ job.spec.mode # "ObserveOnly" => clean
  <2>1. ASSUME job.spec.mode = "Enforce", ResultOK(results) PROVE AllSucceeded
    BY <2>1 DEF TopicInv, PlanInv, ResultOK, AllSucceeded
  <2> QED
    BY <1>1, <2>1
<1>6. Manages(job) <=> SchemaDeclared(job.spec) /\ job.resolved
  BY DEF Manages
<1> HIDE DEF clean, good, synced
<1>7. (synced => job.resolved) /\ (clean /\ job.resolved => synced)
  BY <1>2 DEF synced, clean
<1> QED
  BY <1>1, <1>3, <1>4, <1>5, <1>6, <1>7

(* What is reported clean is clean: nothing is left over and nothing       *)
(* failed.                                                                 *)
LEMMA WriteStatusKeeps == ASSUME TopicInv, WriteStatus PROVE TopicInv'
<1> USE DEF TopicInv
<1>1. /\ pc = "status" \/ (pc = "exec" /\ ops = {})
      /\ status' = IF job.spec.valid THEN finish
                   ELSE [status EXCEPT !.gen = job.gen, !.ready = "False", !.drift = "none"]
      /\ pc' = "idle" /\ job' = Idle /\ results' = {} /\ failedTopics' = {}
      /\ UNCHANGED <<cr, live, ops, quiet, edits, envOps, faults>>
      /\ ops = {}
  BY DEF WriteStatus, JobInv
<1>2. pc # "idle" /\ job.gen \in Nat /\ job.gen <= gen /\ gen \in Nat /\ spec' = spec /\ gen' = gen
  BY <1>1 DEF TypeOK, JobInv, Job, cr
<1>3. /\ status' \in Status /\ status'.gen = job.gen
      /\ ~job.spec.valid => status'.drift = "none" /\ status'.ready = "False"
  <2>1. CASE job.spec.valid
    BY <1>1, <1>2, <2>1, FinishFacts
  <2>2. CASE ~job.spec.valid
    BY <1>1, <1>2, <2>2 DEF TypeOK, Status
  <2> QED
    BY <2>1, <2>2
<1>4. TypeOK'
  BY <1>1, <1>3, IdleFacts DEF TypeOK, cr
<1>5. JobInv'
  BY <1>1, <1>2, <1>3 DEF JobInv, Reads, cr
<1>6. ViewInv' /\ PlanInv' /\ LevelInv' /\ CourseInv'
  BY <1>1 DEF ViewInv, PlanInv, LevelInv, CourseInv
<1>7. StatusIsTruthful'
  <2>1. SUFFICES ASSUME quiet, status'.gen = gen,
                        status'.drift = "no" \/ (status'.ready = "True" /\ spec.mode # "ObserveOnly")
                 PROVE  /\ TopicInSync(spec)
                        /\ status'.schemaSynced = "True" => SchemaInSync(spec)
                        /\ status'.schemaSynced = "False" => secret = "missing"
    BY <1>1, <1>2 DEF StatusIsTruthful, TopicInSync, SchemaInSync, Latest, SchemaDeclared, cr
  <2>2. job.spec.valid /\ job.gen = gen /\ job.spec = spec
    BY <1>2, <1>3, <2>1 DEF JobInv
  <2>3. status' = finish
    BY <1>1, <2>2
  <2>4. /\ status'.drift = "no" \/ (status'.ready = "True" /\ job.spec.mode # "ObserveOnly") =>
             IF job.spec.mode = "Enforce" THEN AllSucceeded ELSE Pending(job) = {}
        /\ status'.schemaSynced = "True" => Manages(job)
        /\ /\ status'.schemaSynced = "False"
           /\ IF job.spec.mode = "Enforce" THEN AllSucceeded ELSE Pending(job) = {}
           => SchemaDeclared(job.spec) /\ ~Manages(job)
    BY <1>2, <2>3, FinishFacts
  <2>5. IF job.spec.mode = "Enforce" THEN AllSucceeded ELSE Pending(job) = {}
    BY <2>1, <2>2, <2>4
  <2>6. OnCourse({})
    <3>1. CASE pc = "exec"
      <4>1. AllSucceeded
        BY <2>5, <3>1 DEF JobInv
      <4> QED
        BY <1>1, <2>1, <3>1, <4>1 DEF CourseInv
    <3>2. CASE pc = "status"
      <4>1. Looked /\ Pending(job) = {}
        BY <2>2, <2>5, <3>2 DEF Looked, JobInv
      <4> QED
        BY <2>1, <4>1, PendingIsOnCourse
    <3> QED
      BY <1>1, <3>1, <3>2
  <2>7. TopicWanted({}) /\ SchemaWanted({})
    BY <2>6 DEF OnCourse
  <2> QED
    BY <1>2, <2>1, <2>2, <2>4, <2>5, <2>7, NothingWanted
<1> QED
  BY <1>4, <1>5, <1>6, <1>7

(***************************************************************************)
(* Crashes, users and everybody else.                                      *)
(***************************************************************************)
(* A crash forgets everything, and nobody is blamed for the status it      *)
(* leaves.                                                                 *)
LEMMA CrashKeeps == ASSUME TopicInv, Crash PROVE TopicInv'
<1> USE DEF TopicInv
<1>1. /\ pc' = "idle" /\ job' = Idle /\ ops' = {} /\ results' = {} /\ failedTopics' = {}
      /\ quiet' = FALSE /\ faults' \in Nat
      /\ UNCHANGED <<cr, live, status, edits, envOps>>
  BY DEF Crash, Fault, TypeOK
<1>2. TypeOK'
  BY <1>1, IdleFacts DEF TypeOK, cr
<1>3. JobInv'
  BY <1>1 DEF JobInv, Reads, cr
<1>4. ViewInv' /\ PlanInv' /\ LevelInv' /\ CourseInv' /\ StatusIsTruthful'
  BY <1>1 DEF ViewInv, PlanInv, LevelInv, CourseInv, StatusIsTruthful
<1> QED
  BY <1>2, <1>3, <1>4

(* An edit is of a generation that no reconcile and no status names yet.   *)
LEMMA EditKeeps == ASSUME TopicInv, Edit PROVE TopicInv'
<1> USE DEF TopicInv
<1>0. /\ edits \in Nat /\ job.gen \in Nat /\ status.gen \in Nat /\ gen \in Nat
      /\ approved \in BOOLEAN /\ spec \in Specs /\ secret \in Bodies \cup {"missing"}
      /\ quiet \in BOOLEAN
  BY DEF TypeOK, Job, Status
<1>1. /\ UNCHANGED <<live, pc, job, ops, results, failedTopics, status, envOps, faults>>
      /\ edits' \in Nat
      /\ \/ /\ spec' \in Specs /\ gen' = gen + 1
            /\ UNCHANGED <<approved, secret, quiet>>
         \/ /\ approved' \in BOOLEAN
            /\ UNCHANGED <<spec, gen, secret, quiet>>
         \/ /\ secret' \in Bodies \cup {"missing"}
            /\ quiet' = FALSE
            /\ UNCHANGED <<spec, gen, approved>>
  <2>1. UNCHANGED <<live, pc, job, ops, results, failedTopics, status, envOps, faults>>
        /\ edits' \in Nat
    BY <1>0 DEF Edit, operatorVars
  <2>2. approved' = ~approved => approved' \in BOOLEAN
    OBVIOUS
  <2> QED
    BY <2>1, <2>2 DEF Edit
<1>2. TypeOK'
  <2>1. spec' \in Specs /\ gen' \in Nat
    BY <1>0, <1>1
  <2>2. approved' \in BOOLEAN
    BY <1>0, <1>1
  <2>3. secret' \in Bodies \cup {"missing"}
    BY <1>0, <1>1
  <2>4. quiet' \in BOOLEAN
    BY <1>0, <1>1
  <2> QED
    BY <1>1, <2>1, <2>2, <2>3, <2>4 DEF TypeOK
<1>3. JobInv'
  BY <1>0, <1>1 DEF JobInv
<1>4. /\ Looked' <=> Looked
      /\ Manages(job)' <=> Manages(job)
      /\ Latest' = Latest /\ Registered(job.def)' = Registered(job.def)
      /\ Effective(live.level, live.global)' = Effective(live.level, live.global)
      /\ compatRank(job.spec.compat)' = compatRank(job.spec.compat)
  BY <1>1 DEF Looked, Latest, Registered, Manages
<1>5. ViewInv' /\ PlanInv' /\ LevelInv' /\ CourseInv'
  <2>1. ViewInv'
    BY <1>1, <1>4 DEF ViewInv
  <2>2. PlanInv'
    BY <1>1 DEF PlanInv
  <2>3. LevelInv'
    BY <1>1, <1>4 DEF LevelInv
  <2>4. OnCourse(ops)' <=> OnCourse(ops)
    BY <1>1, <1>4 DEF OnCourse, TopicWanted, SchemaWanted
  <2>5. CourseInv'
    BY <1>1, <2>4 DEF CourseInv, AllSucceeded
  <2> QED
    BY <2>1, <2>2, <2>3, <2>5
<1>6. StatusIsTruthful'
  <2>1. CASE spec' \in Specs /\ gen' = gen + 1
    <3>1. status'.gen # gen'
      BY <1>0, <1>1, <2>1 DEF JobInv
    <3> QED
      BY <3>1 DEF StatusIsTruthful
  <2>2. CASE UNCHANGED <<spec, gen, secret, quiet>>
    BY <1>1, <2>2 DEF StatusIsTruthful, TopicInSync, SchemaInSync, Latest, SchemaDeclared
  <2>3. CASE quiet' = FALSE
    BY <2>3 DEF StatusIsTruthful
  <2> QED
    BY <1>1, <2>1, <2>2, <2>3
<1> QED
  BY <1>2, <1>3, <1>4, <1>5, <1>6

(* Whatever others do, the cluster keeps its shape.                        *)
LEMMA InterferenceKeepsTypes == ASSUME TypeOK, Interference PROVE live' \in Live
<1>0. /\ live \in Live /\ live.topic \in Topic /\ live.versions \in Seq(Bodies) /\ NoTopic \in Topic
      /\ LevelsUsed \subseteq Levels
  BY TopicAssumption DEF TypeOK, Live, NoTopic, Topic
<1>1. ASSUME NEW t \in Topic, live' = [live EXCEPT !.topic = t] PROVE live' \in Live
  BY <1>0, <1>1 DEF Live
<1>2. CASE \E p \in 1..3 : live' = [live EXCEPT !.topic.partitions = p]
  <2>0. PICK p \in 1..3 : live' = [live EXCEPT !.topic.partitions = p]
    BY <1>2
  <2>1. PICK t : live' = [live EXCEPT !.topic = t] /\ t = [live.topic EXCEPT !.partitions = p]
    BY <2>0
  <2>2. t \in Topic
    BY <1>0, <2>1 DEF Topic
  <2> QED
    BY <1>1, <2>1, <2>2
<1>3. CASE live' = [live EXCEPT !.topic.cfg = "other"]
  <2>1. PICK t : live' = [live EXCEPT !.topic = t] /\ t = [live.topic EXCEPT !.cfg = "other"]
    BY <1>3
  <2>2. t \in Topic
    BY <1>0, <2>1 DEF Topic
  <2> QED
    BY <1>1, <2>1, <2>2
<1>4. CASE live' = [live EXCEPT !.topic = NoTopic]
  BY <1>0, <1>1, <1>4
<1>5. CASE live' = [live EXCEPT !.topic = [exists |-> TRUE, partitions |-> 1, rf |-> 1,
                                           cfg |-> "unset"]]
  <2>1. PICK t : t = [exists |-> TRUE, partitions |-> 1, rf |-> 1, cfg |-> "unset"]
    OBVIOUS
  <2>2. t \in Topic
    BY <2>1 DEF Topic
  <2> QED
    BY <1>1, <1>5, <2>1, <2>2
<1>6. CASE live' = [live EXCEPT !.acl = FALSE]
  <2>1. PICK b \in BOOLEAN : live' = [live EXCEPT !.acl = b]
    BY <1>6
  <2> QED
    BY <1>0, <2>1 DEF Live
<1>7. CASE \E b \in Bodies : live' = [live EXCEPT !.versions = Append(live.versions, b)]
  <2>0. PICK b \in Bodies : live' = [live EXCEPT !.versions = Append(live.versions, b)]
    BY <1>7
  <2>1. PICK v : live' = [live EXCEPT !.versions = v] /\ v = Append(live.versions, b)
    BY <2>0
  <2>2. v \in Seq(Bodies)
    <3>1. PICK u \in Seq(Bodies) : u = live.versions
      BY <1>0
    <3> QED
      BY <2>1, <3>1
  <2> QED
    BY <1>0, <2>1, <2>2 DEF Live
<1>8. CASE \E l \in LevelsUsed : live' = [live EXCEPT !.level = l]
  <2>1. PICK l \in Levels \cup {""} : live' = [live EXCEPT !.level = l]
    BY <1>0, <1>8
  <2> QED
    BY <1>0, <2>1 DEF Live
<1>9. CASE \E l \in LevelsUsed : live' = [live EXCEPT !.global = l]
  <2>1. PICK l \in Levels \cup {""} : live' = [live EXCEPT !.global = l]
    BY <1>0, <1>9
  <2> QED
    BY <1>0, <2>1 DEF Live
<1> QED
  BY <1>2, <1>3, <1>4, <1>5, <1>6, <1>7, <1>8, <1>9 DEF Interference

(* After interference nothing is claimed until the next reconcile.         *)
LEMMA InterfereKeeps == ASSUME TopicInv, Interfere PROVE TopicInv'
<1> USE DEF TopicInv
<1>1. /\ quiet' = FALSE /\ live' \in Live /\ envOps' \in Nat
      /\ UNCHANGED <<cr, pc, job, ops, results, failedTopics, status, edits, faults>>
  BY InterferenceKeepsTypes DEF Interfere, operatorVars, TypeOK
<1>2. TypeOK'
  BY <1>1 DEF TypeOK, cr
<1>3. JobInv' /\ PlanInv'
  BY <1>1 DEF JobInv, PlanInv, cr
<1>4. ViewInv' /\ LevelInv' /\ CourseInv' /\ StatusIsTruthful'
  BY <1>1 DEF ViewInv, LevelInv, CourseInv, StatusIsTruthful
<1> QED
  BY <1>2, <1>3, <1>4

(***************************************************************************)
(* The invariant.                                                          *)
(***************************************************************************)

(* At first there is nothing, and nothing is reported of it.               *)
LEMMA InitEstablishes == ASSUME Init PROVE TopicInv
<1>1. live \in Live
  <2>1. NoTopic \in Topic
    BY DEF NoTopic, Topic
  <2>2. PICK v \in Seq(Bodies), g \in Levels \cup {""} :
          live = [topic |-> NoTopic, acl |-> FALSE, versions |-> v, level |-> "", global |-> g]
    <3>1. <<>> \in Seq(Bodies) /\ "BACKWARD" \in Levels
      BY DEF Levels
    <3> QED
      BY <3>1 DEF Init
  <2> QED
    BY <2>1, <2>2 DEF Live
<1>2. status \in Status
  <2>1. FALSE \in BOOLEAN /\ 0 \in Nat
    OBVIOUS
  <2> QED
    BY <2>1 DEF Init, Status
<1>3. TypeOK
  <2>1. quiet \in BOOLEAN /\ approved \in BOOLEAN
    BY DEF Init
  <2>2. job \in Job /\ spec \in Specs /\ gen \in Nat /\ secret \in Bodies /\ pc = "idle"
        /\ ops = {} /\ results = {} /\ failedTopics = {} /\ edits = 0 /\ envOps = 0 /\ faults = 0
    BY IdleFacts DEF Init
  <2> QED
    BY <1>1, <1>2, <2>1, <2>2 DEF TypeOK
<1>4. status.gen = 0 /\ status.ready = "none" /\ status.drift = "none" /\ gen = 1
  BY DEF Init
<1>5. JobInv
  <2>1. pc = "idle" /\ job = Idle /\ ops = {} /\ results = {}
    BY DEF Init
  <2> QED
    BY <1>4, <2>1 DEF JobInv, Reads
<1>6. ViewInv /\ PlanInv /\ LevelInv /\ CourseInv
  BY DEF Init, ViewInv, PlanInv, LevelInv, CourseInv
<1>7. StatusIsTruthful
  BY <1>4 DEF StatusIsTruthful
<1> QED
  BY <1>3, <1>5, <1>6, <1>7 DEF TopicInv

(* Every step of everybody keeps the invariant.                            *)
LEMMA NextPreserves == ASSUME TopicInv, [Next]_vars PROVE TopicInv'
<1>1. CASE Begin
  BY <1>1, BeginKeeps
<1>2. CASE Read
  BY <1>2, ReadKeeps
<1>3. CASE ReadFails
  BY <1>3, ReadFailsKeeps
<1>4. CASE Plan
  BY <1>4, PlanKeeps
<1>5. CASE NotDispatched \/ Dispatch \/ DispatchFails
  BY <1>5, ExecutionKeeps
<1>6. CASE WriteStatus
  BY <1>6, WriteStatusKeeps
<1>7. CASE Crash
  BY <1>7, CrashKeeps
<1>8. CASE Edit
  BY <1>8, EditKeeps
<1>9. CASE Interfere
  BY <1>9, InterfereKeeps
<1>10. CASE UNCHANGED vars
  <2>1. UNCHANGED <<spec, gen, approved, secret, live, pc, job, ops, results, failedTopics,
                    status, quiet, edits, envOps, faults>>
    BY <1>10 DEF vars
  <2>2. /\ Looked' <=> Looked
        /\ Manages(job)' <=> Manages(job)
        /\ Latest' = Latest /\ Registered(job.def)' = Registered(job.def)
        /\ Effective(live.level, live.global)' = Effective(live.level, live.global)
        /\ compatRank(job.spec.compat)' = compatRank(job.spec.compat)
    BY <2>1 DEF Looked, Latest, Registered, Manages
  <2>3. TypeOK' /\ JobInv' /\ PlanInv'
    BY <2>1 DEF TopicInv, TypeOK, JobInv, PlanInv
  <2>4. ViewInv'
    BY <2>1, <2>2 DEF TopicInv, ViewInv
  <2>5. LevelInv'
    BY <2>1, <2>2 DEF TopicInv, LevelInv
  <2>6. CourseInv'
    <3>1. OnCourse(ops)' <=> OnCourse(ops)
      BY <2>1, <2>2 DEF OnCourse, TopicWanted, SchemaWanted
    <3> QED
      BY <2>1, <3>1 DEF TopicInv, CourseInv, AllSucceeded
  <2>7. StatusIsTruthful'
    BY <2>1, <2>2 DEF TopicInv, StatusIsTruthful, TopicInSync, SchemaInSync, SchemaDeclared
  <2> QED
    BY <2>3, <2>4, <2>5, <2>6, <2>7 DEF TopicInv
<1> QED
  BY <1>1, <1>2, <1>3, <1>4, <1>5, <1>6, <1>7, <1>8, <1>9, <1>10 DEF Next, Operator

(***************************************************************************)
(* TopicInv holds throughout, whatever the operator, the users, everybody  *)
(* else and the faults do (reconcile.ReconcileTopic).                      *)
(***************************************************************************)
THEOREM TopicInvariant == Spec => []TopicInv
<1>1. Init => TopicInv
  BY InitEstablishes
<1>2. TopicInv /\ [Next]_vars => TopicInv'
  BY NextPreserves
<1> QED
  BY <1>1, <1>2, PTL DEF Spec

(* The state of a reconcile, of its resource and of the cluster is typed.  *)
THEOREM TypeCorrect == Spec => []TypeOK
<1>1. TopicInv => TypeOK
  BY DEF TopicInv
<1> QED
  BY <1>1, TopicInvariant, PTL

(***************************************************************************)
(* A status of the present generation that reports no drift, or Ready, is  *)
(* true of the cluster, until somebody interferes or the next reconcile    *)
(* begins (finishEnforce and finishDetectOnly).                            *)
(***************************************************************************)
THEOREM StatusCanBeBelieved == Spec => []StatusIsTruthful
<1>1. TopicInv => StatusIsTruthful
  BY DEF TopicInv
<1> QED
  BY <1>1, TopicInvariant, PTL

(***************************************************************************)
(* The contract.                                                           *)
(***************************************************************************)

(* An action that took effect is one the contract allows: it is done for a *)
(* valid enforced declaration, it changes one thing to what was declared,  *)
(* and what cannot be taken back was approved.                             *)
LEMMA EffectIsAllowed ==
  ASSUME TopicInv, pc = "exec", NEW a \in ops, VerdictOn(a) = "Dispatch", Accepts(a),
         live' = Effect(a), UNCHANGED <<cr, job, envOps>>
  PROVE  Contract!Next
<1> USE DEF TopicInv
<1>1. /\ job.spec.mode = "Enforce" /\ job.spec.valid /\ live \in Live /\ live.topic \in Topic
      /\ a \in PlanActions
  BY DEF JobInv, TypeOK, Live, PlanInv, Reads
<1>2. /\ a \notin Stuck
      /\ a \in {"IncreasePartitions", "LowerSchemaCompatibility"} => job.approved
  BY <1>1, VerdictFacts
<1>3. live' \in Live /\ Brings(a, live')
  BY <1>2, EffectBrings
<1>4. /\ UNCHANGED [spec |-> spec, approved |-> approved, def |-> secret]
      /\ UNCHANGED [spec |-> job.spec, approved |-> job.approved, def |-> job.def]
      /\ UNCHANGED envOps
  BY DEF cr
<1>5. SUFFICES \/ live' = live
               \/ \/ Contract!CreateTopic \/ Contract!AddPartitions \/ Contract!SetConfig
                  \/ Contract!Grant \/ Contract!Register \/ Contract!SetLevel
  BY <1>1, <1>4 DEF Contract!Next, Contract!Act, Contract!Look
<1>6. /\ (\A x \in DOMAIN live \ {"topic"} : live'[x] = live[x]) => Contract!Only("topic")
      /\ (\A x \in DOMAIN live \ {"acl"} : live'[x] = live[x]) => Contract!Only("acl")
      /\ (\A x \in DOMAIN live \ {"versions"} : live'[x] = live[x]) => Contract!Only("versions")
      /\ (\A x \in DOMAIN live \ {"level"} : live'[x] = live[x]) => Contract!Only("level")
      /\ DOMAIN live = {"topic", "acl", "versions", "level", "global"}
  BY <1>1, <1>3 DEF Live, Contract!Only
<1>7. CASE a = "CreateTopic"
  <2>1. Contract!Only("topic")
    BY <1>3, <1>6, <1>7 DEF Brings, LevelActions
  <2> QED
    BY <1>3, <1>7, <2>1 DEF Brings, Contract!CreateTopic
<1>8. CASE a = "IncreasePartitions"
  <2>1. Contract!Only("topic")
    BY <1>3, <1>6, <1>8 DEF Brings, LevelActions
  <2>2. live'.topic = [live.topic EXCEPT !.partitions = job.spec.partitions]
    <3>1. PICK t : t = [live.topic EXCEPT !.partitions = job.spec.partitions]
      OBVIOUS
    <3>2. live' = [live EXCEPT !.topic = t]
      BY <1>8, <3>1 DEF Effect
    <3> QED
      BY <1>1, <3>1, <3>2 DEF Live
  <2>3. live'.topic.partitions > live.topic.partitions
    BY <1>3, <1>8 DEF Brings, Accepts
  <2> QED
    BY <1>2, <1>8, <2>1, <2>2, <2>3 DEF Contract!AddPartitions
<1>9. CASE a = "UpdateTopicConfig"
  <2>1. Contract!Only("topic")
    BY <1>3, <1>6, <1>9 DEF Brings, LevelActions
  <2>2. live'.topic = [live.topic EXCEPT !.cfg = job.spec.cfg]
    <3>1. PICK t : t = [live.topic EXCEPT !.cfg = job.spec.cfg]
      OBVIOUS
    <3>2. live' = [live EXCEPT !.topic = t]
      BY <1>9, <3>1 DEF Effect
    <3> QED
      BY <1>1, <3>1, <3>2 DEF Live
  <2> QED
    BY <1>9, <2>1, <2>2 DEF Contract!SetConfig, PlanInv
<1>10. CASE a = "CreateAcl"
  <2>1. Contract!Only("acl")
    BY <1>3, <1>6, <1>10 DEF Brings, LevelActions, TopicActions
  <2> QED
    BY <1>3, <1>10, <2>1 DEF Brings, Contract!Grant
<1>11. CASE a = "RegisterSchema"
  <2>1. CASE Registered(job.def)
    BY <1>11, <2>1 DEF Effect
  <2>2. CASE ~Registered(job.def)
    <3>1. Contract!Only("versions")
      BY <1>3, <1>6, <1>11 DEF Brings, LevelActions, TopicActions
    <3>2. live'.versions = Append(live.versions, job.def)
      BY <1>3, <1>11, <2>2 DEF Brings
    <3> QED
      BY <2>2, <3>1, <3>2 DEF Registered, Contract!Register
  <2> QED
    BY <2>1, <2>2
<1>12. CASE a \in LevelActions
  <2>1. Contract!Only("level")
    BY <1>3, <1>6, <1>12 DEF Brings, LevelActions, TopicActions
  <2>2. live'.level = job.spec.compat
    BY <1>3, <1>12 DEF Brings
  <2>3. \/ job.approved
        \/ Blind
        \/ Effective(live.level, live.global) = live'.level
        \/ compatRank(Effective(live.level, live.global)) < compatRank(live'.level)
    <3>1. CASE a = "LowerSchemaCompatibility"
      BY <1>2, <3>1
    <3>2. CASE a = "RaiseSchemaCompatibility"
      <4>1. PICK base : base = Effective(live.level, live.global)
        OBVIOUS
      <4>2. ~Blind => base = job.spec.compat \/ compatRank(base) < compatRank(job.spec.compat)
        BY <3>2, <4>1 DEF LevelInv, Blind
      <4> QED
        BY <2>2, <4>1, <4>2
    <3> QED
      BY <1>12, <3>1, <3>2 DEF LevelActions
  <2> QED
    BY <2>1, <2>2, <2>3
       DEF Contract!SetLevel, Contract!Effective, Contract!compatRank, Effective, compatRank
<1> QED
  BY <1>1, <1>2, <1>7, <1>8, <1>9, <1>10, <1>11, <1>12 DEF PlanActions, Stuck, LevelActions

(* Without a change to the cluster, an execution step changes nothing.     *)
LEMMA ExecutionIsAllowed ==
  ASSUME TopicInv, NotDispatched \/ Dispatch \/ DispatchFails PROVE Contract!Next
<1>1. UNCHANGED <<cr, job, envOps>>
  BY DEF NotDispatched, Dispatch, DispatchFails
<1>2. CASE live' = live
  BY <1>1, <1>2 DEF cr, Contract!Next, Contract!Look
<1>3. CASE \E a \in ops : Dispatching(a) /\ Accepts(a) /\ live' = Effect(a)
  <2>1. PICK a \in ops : Dispatching(a) /\ Accepts(a) /\ live' = Effect(a)
    BY <1>3
  <2> QED
    BY <1>1, <2>1, EffectIsAllowed DEF Dispatching
<1> QED
  BY <1>2, <1>3 DEF NotDispatched, Dispatch, DispatchFails

(* Everything a reconcile does before it executes, and being done with it, *)
(* leaves the cluster alone; it acts for the declaration it copied.        *)
LEMMA LookingIsAllowed ==
  ASSUME TopicInv, Begin \/ Read \/ ReadFails \/ Plan \/ WriteStatus \/ Crash
  PROVE  Contract!Look
<1>1. UNCHANGED <<spec, approved, secret, live, envOps>>
  BY DEF Begin, CopyResource, Read, ReadFails, Plan, WriteStatus, Crash, cr
<1>2. SUFFICES \/ job'.spec = job.spec /\ job'.approved = job.approved /\ job'.def = job.def
               \/ job'.spec = spec /\ job'.approved = approved /\ job'.def \in {secret, ""}
               \/ ~job'.spec.valid
  <2> DEFINE wish == [spec |-> job.spec, approved |-> job.approved, def |-> job.def]
             declared == [spec |-> spec, approved |-> approved, def |-> secret]
  <2>1. declared' = declared
    BY <1>1
  <2>2. job'.spec = job.spec /\ job'.approved = job.approved /\ job'.def = job.def => wish' = wish
    OBVIOUS
  <2>3. /\ job'.spec = spec /\ job'.approved = approved /\ job'.def \in {secret, ""}
        => wish' \in {declared, [declared EXCEPT !.def = ""]}
    <3>1. declared \in [spec : {spec}, approved : {approved}, def : {secret}]
      OBVIOUS
    <3>2. declared = [spec |-> spec, approved |-> approved, def |-> secret]
      OBVIOUS
    <3> HIDE DEF declared
    <3>3. [declared EXCEPT !.def = ""] = [spec |-> spec, approved |-> approved, def |-> ""]
      <4>1. PICK r : r = [declared EXCEPT !.def = ""]
        OBVIOUS
      <4>2. r \in [spec : {spec}, approved : {approved}, def : {""}]
        BY <3>1, <4>1
      <4>3. r = [spec |-> spec, approved |-> approved, def |-> ""]
        BY <4>2
      <4> QED
        BY <4>1, <4>3
    <3>4. ASSUME job'.spec = spec, job'.approved = approved
          PROVE  wish' = [spec |-> spec, approved |-> approved, def |-> job'.def]
      BY <3>4
    <3> HIDE DEF wish
    <3> QED
      BY <3>2, <3>3, <3>4
  <2>4. (~job'.spec.valid) => ~(wish').spec.valid
    OBVIOUS
  <2>5. UNCHANGED <<declared, live, envOps>>
    BY <1>1, <2>1
  <2> HIDE DEF wish, declared
  <2>6. Contract!Look <=>
          /\ wish' \in {wish, declared, [declared EXCEPT !.def = ""]} \/ ~(wish').spec.valid
          /\ UNCHANGED <<declared, live, envOps>>
    BY DEF Contract!Look, wish, declared
  <2> QED
    BY <2>2, <2>3, <2>4, <2>5, <2>6
<1>3. CASE Begin
  <2>1. PICK d \in {secret, ""} :
          job' = [Idle EXCEPT !.spec = spec, !.gen = gen, !.approved = approved,
                    !.resolved = Resolved(spec), !.def = d]
    BY <1>3 DEF Begin, CopyResource
  <2> QED
    BY <2>1 DEF Idle
<1>4. CASE Read
  <2>1. job \in Job
    BY DEF TopicInv, TypeOK
  <2> QED
    BY <1>4, <2>1 DEF Read, Observed, Reads, Job
<1>5. CASE ReadFails
  <2>1. job \in Job
    BY DEF TopicInv, TypeOK
  <2> QED
    BY <1>5, <2>1, IdleFacts DEF ReadFails, Job
<1>6. CASE Plan
  BY <1>6 DEF Plan
<1>7. CASE WriteStatus \/ Crash
  BY <1>7, IdleFacts DEF WriteStatus, Crash
<1> QED
  BY <1>3, <1>4, <1>5, <1>6, <1>7

(* What users and everybody else do, the contract leaves to them.          *)
LEMMA OthersAreAllowed == ASSUME TopicInv, Edit \/ Interfere PROVE Contract!Next
<1>1. CASE Edit
  <2>1. UNCHANGED <<job, live, envOps>>
    BY <1>1 DEF Edit, operatorVars
  <2>2. spec' # spec \/ approved' # approved \/ secret' # secret
    <3>1. approved \in BOOLEAN
      BY DEF TopicInv, TypeOK
    <3>2. approved' = ~approved => approved' # approved
      BY <3>1
    <3> QED
      BY <1>1, <3>2 DEF Edit
  <2>3. [spec |-> spec, approved |-> approved, def |-> secret]' #
          [spec |-> spec, approved |-> approved, def |-> secret]
    BY <2>2
  <2> QED
    BY <2>1, <2>3 DEF Contract!Next, Contract!Declare
<1>2. CASE Interfere
  BY <1>2 DEF Interfere, operatorVars, cr, Contract!Next, Contract!Interfere
<1> QED
  BY <1>1, <1>2

(***************************************************************************)
(* The reconcile does nothing TopicContract does not promise: it acts for  *)
(* one declaration that was in force, only extends, and takes no step that *)
(* cannot be taken back without the approval of that declaration           *)
(* (diff.Compute and executor.Execute, between them).                      *)
(***************************************************************************)
THEOREM ReconcileHonoursContract == Spec => ImplementsContract
<1>1. Init => Contract!Init
  BY DEF Init, Contract!Init
<1>2. TopicInv /\ [Next]_vars => [Contract!Next]_Contract!vars
  <2> SUFFICES ASSUME TopicInv, [Next]_vars PROVE [Contract!Next]_Contract!vars
    OBVIOUS
  <2>1. CASE Begin \/ Read \/ ReadFails \/ Plan \/ WriteStatus \/ Crash
    BY <2>1, LookingIsAllowed DEF Contract!Next
  <2>2. CASE NotDispatched \/ Dispatch \/ DispatchFails
    BY <2>2, ExecutionIsAllowed
  <2>3. CASE Edit \/ Interfere
    BY <2>3, OthersAreAllowed
  <2>4. CASE UNCHANGED vars
    BY <2>4 DEF vars, Contract!vars, Blind
  <2> QED
    BY <2>1, <2>2, <2>3, <2>4 DEF Next, Operator
<1> QED
  BY <1>1, <1>2, TopicInvariant, PTL DEF Spec, ImplementsContract, Contract!Spec
=============================================================================
