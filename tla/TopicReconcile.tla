--------------------------- MODULE TopicReconcile ---------------------------
(***************************************************************************)
(* The operator's reconcile of one KafkaTopic: its topic, one ACL of its   *)
(* access block, and one schema subject (reconcile.ReconcileTopic, called  *)
(* by KafkaTopicReconciler.Reconcile).  The custom resource is copied, the *)
(* live state is read call by call, the plan is executed operation by      *)
(* operation, and the status is written last; users, producers and other   *)
(* tools act between any two calls, a write may fail after it took effect, *)
(* and the operator may crash.  Deletion and the duplicate-identity gate   *)
(* are in IdentityGate, the shared ACLs of several resources and pruning   *)
(* in AclSubstrate.                                                        *)
(*                                                                         *)
(* A spec is [partitions, rf, cfg, ignore, schema, compat, mode, valid]:   *)
(* rf 0 and cfg "unset" are undeclared, ignore is spec.drift.ignoreFields, *)
(* schema is "none", "governance" (the level only) or "content", valid is  *)
(* what validation, tenancy and the ACL compiler say.  One config key      *)
(* stands for all.  Schema bodies are classes under schemaEqual.           *)
(***************************************************************************)
EXTENDS Sequences, Executor, Compatibility

CONSTANTS
  Specs,       \* specs users may declare
  Bodies,      \* schema bodies
  LevelsUsed,  \* levels others may set
  MaxEdits,    \* bound: changes of the resource, its annotation, its Secret
  MaxEnvOps,   \* bound: changes of the cluster or the registry by others
  MaxFaults    \* bound: calls that fail, and crashes

ASSUME TopicAssumption ==
  /\ Bodies # {} /\ {"missing", ""} \cap Bodies = {} /\ LevelsUsed \subseteq Levels
  /\ Specs # {}
  /\ \A s \in Specs :
       /\ s.partitions \in Nat /\ s.rf \in Nat
       /\ s.schema \in {"none", "governance", "content"} /\ s.compat \in Levels \cup {""}
       /\ s.mode \in {"Enforce"} \cup ReportOnlyModes /\ s.valid \in BOOLEAN
  /\ MaxEdits \in Nat /\ MaxEnvOps \in Nat /\ MaxFaults \in Nat

VARIABLES
  spec, gen,   \* the custom resource; gen also counts its edits
  approved,    \* its allow-destructive annotation
  secret,      \* the schema body in the Secret it refers to, or "missing"
  live,        \* [topic, acl, versions, level, global]: cluster and registry
  pc,
  job,         \* what the reconcile in progress has copied and read
  ops,         \* actions left to execute
  results, failedTopics,
  status,
  quiet,       \* history: the last reconcile to begin was not cut short, and
               \* nobody else has changed anything since it began
  edits, envOps, faults

cr   == <<spec, gen, approved, secret>>
vars == <<spec, gen, approved, secret, live, pc, job, ops, results, failedTopics, status,
          quiet, edits, envOps, faults>>

Name == "t"

NoTopic == [exists |-> FALSE, partitions |-> 0, rf |-> 0, cfg |-> "unset"]

Reads == {"topic", "acls", "global", "subject", "level", "lookup"}

NoSpec == [mode |-> "none", valid |-> FALSE, schema |-> "none"]

Idle ==
  [spec |-> NoSpec, gen |-> 0, approved |-> FALSE, def |-> "", resolved |-> TRUE,
   topic |-> NoTopic, acl |-> FALSE, global |-> "", globalErr |-> FALSE,
   present |-> FALSE, latest |-> "", level |-> "", superseded |-> FALSE]

Topic ==
  [exists : BOOLEAN, partitions : Nat, rf : Nat,
   cfg : {"unset", "other"} \cup {s.cfg : s \in Specs}]

Live ==
  [topic : Topic, acl : BOOLEAN, versions : Seq(Bodies), level : Levels \cup {""},
   global : Levels \cup {""}]

Job ==
  [spec : Specs \cup {NoSpec}, gen : Nat, approved : BOOLEAN, def : Bodies \cup {""},
   resolved : BOOLEAN, topic : Topic, acl : BOOLEAN, global : Levels \cup {""},
   globalErr : BOOLEAN, present : BOOLEAN, latest : Bodies \cup {""},
   level : Levels \cup {""}, superseded : BOOLEAN]

Status ==
  [gen : Nat, ready : {"none", "True", "False"}, drift : {"none", "no", "yes"},
   schemaSynced : {"absent", "True", "False"}, degraded : BOOLEAN]

TypeOK ==
  /\ spec \in Specs /\ gen \in Nat /\ approved \in BOOLEAN
  /\ secret \in Bodies \cup {"missing"}
  /\ live \in Live
  /\ pc \in Reads \cup {"idle", "plan", "exec", "status"}
  /\ job \in Job /\ status \in Status
  /\ ops \subseteq Actions /\ results \subseteq [action : Actions, status : Statuses]
  /\ failedTopics \subseteq {Name}
  /\ quiet \in BOOLEAN /\ edits \in Nat /\ envOps \in Nat /\ faults \in Nat

Init ==
  /\ spec \in Specs /\ gen = 1
  /\ approved \in BOOLEAN
  /\ secret \in Bodies
  /\ live = [topic |-> NoTopic, acl |-> FALSE, versions |-> <<>>, level |-> "",
             global |-> "BACKWARD"]
  /\ pc = "idle" /\ job = Idle
  /\ ops = {} /\ results = {} /\ failedTopics = {}
  /\ status = [gen |-> 0, ready |-> "none", drift |-> "none", schemaSynced |-> "absent",
               degraded |-> FALSE]
  /\ quiet = TRUE
  /\ edits = 0 /\ envOps = 0 /\ faults = 0

Fault == faults < MaxFaults /\ faults' = faults + 1

(***************************************************************************)
(* Starting: the resource is copied, validated, and its schema body is     *)
(* resolved.  A body that cannot be resolved does not end the reconcile:   *)
(* topic and access go on without the schema.                              *)
(***************************************************************************)
SchemaDeclared(s) == s.schema # "none"

Resolved(s) == s.schema = "content" => secret # "missing"

CopyResource ==
  /\ job' = [Idle EXCEPT !.spec = spec, !.gen = gen, !.approved = approved,
               !.resolved = Resolved(spec),
               !.def = IF spec.schema = "content" /\ Resolved(spec) THEN secret ELSE ""]
  /\ pc' = IF spec.valid THEN "topic" ELSE "status"
  /\ quiet' = TRUE
  /\ UNCHANGED <<cr, live, ops, results, failedTopics, status, edits, envOps, faults>>

(* A reconcile that only a new generation starts.                          *)
BeginOnChange == pc = "idle" /\ status.gen # gen /\ CopyResource

(* By a watch event, by the resync interval or by the backoff.             *)
Begin == pc = "idle" /\ CopyResource

(* buildDesiredSchemas yielded a subject to manage.                        *)
Manages(j) == SchemaDeclared(j.spec) /\ j.resolved

(***************************************************************************)
(* observeTopicLive, one call at a time.                                   *)
(***************************************************************************)
Latest == IF live.versions = <<>> THEN "" ELSE live.versions[Len(live.versions)]

Registered(def) == \E i \in DOMAIN live.versions : live.versions[i] = def

(* The level is read for a subject with versions, and for one without them *)
(* only when the level is all that is managed.                             *)
Observed ==
  CASE pc = "topic"   -> [job EXCEPT !.topic = live.topic]
    [] pc = "acls"    -> [job EXCEPT !.acl = live.acl]
    [] pc = "global"  -> [job EXCEPT !.global = live.global]
    [] pc = "subject" -> [job EXCEPT !.present = live.versions # <<>>, !.latest = Latest]
    [] pc = "level"   -> [job EXCEPT !.level = live.level]
    [] pc = "lookup"  -> [job EXCEPT !.superseded = Registered(job.def)]

(* A reader that registers whatever differs from the latest version.       *)
AfterReadNoProbe(j) ==
  CASE pc = "topic"   -> "acls"
    [] pc = "acls"    -> IF Manages(j) THEN "global" ELSE "plan"
    [] pc = "global"  -> "subject"
    [] pc = "subject" -> IF j.present \/ j.spec.schema = "governance" THEN "level" ELSE "plan"
    [] pc \in {"level", "lookup"} -> "plan"

AfterRead(j) ==
  CASE pc = "topic"   -> "acls"
    [] pc = "acls"    -> IF Manages(j) THEN "global" ELSE "plan"
    [] pc = "global"  -> "subject"
    [] pc = "subject" -> IF j.present \/ j.spec.schema = "governance" THEN "level" ELSE "plan"
    [] pc = "level"   -> IF j.spec.schema = "content" /\ j.def # j.latest THEN "lookup" ELSE "plan"
    [] pc = "lookup"  -> "plan"

Read ==
  /\ pc \in Reads
  /\ job' = Observed
  /\ pc' = AfterRead(Observed)
  /\ UNCHANGED <<cr, live, ops, results, failedTopics, status, quiet, edits, envOps, faults>>

(* The global level may stay unknown; without any other read there is no   *)
(* plan, and the status says so.                                           *)
ReadFails ==
  /\ pc \in Reads
  /\ Fault
  /\ \/ /\ pc = "global"
        /\ job' = [job EXCEPT !.globalErr = TRUE]
        /\ pc' = "subject"
        /\ UNCHANGED status
     \/ /\ pc # "global"
        /\ status' = [status EXCEPT !.gen = job.gen, !.ready = "False", !.drift = "none",
                        !.schemaSynced = IF SchemaDeclared(job.spec) THEN @ ELSE "absent"]
        /\ pc' = "idle" /\ job' = Idle
  /\ UNCHANGED <<cr, live, ops, results, failedTopics, quiet, edits, envOps>>

(***************************************************************************)
(* The plan: diff.Compute over the copy and what was read.                 *)
(***************************************************************************)
Ignores(j, field) == field \in j.spec.ignore

computeTopicOps(j) ==
  LET s == j.spec
  IN IF ~j.topic.exists THEN {"CreateTopic"}
     ELSE {a \in {"Rejected", "IncreasePartitions", "UpdateTopicConfig",
                  "UpdateReplicationFactor"} :
             CASE a = "Rejected" ->
                    ~Ignores(j, "partitions") /\ s.partitions < j.topic.partitions
               [] a = "IncreasePartitions" ->
                    ~Ignores(j, "partitions") /\ s.partitions > j.topic.partitions
               [] a = "UpdateTopicConfig" ->
                    ~Ignores(j, "cfg") /\ s.cfg \notin {"unset", j.topic.cfg}
               [] a = "UpdateReplicationFactor" ->
                    ~Ignores(j, "rf") /\ s.rf \notin {0, j.topic.rf}}

(* A content subject without versions counts as one without a level.       *)
LevelSeen(j) == IF j.present \/ j.spec.schema = "governance" THEN j.level ELSE ""

computeSchemaOps(j) ==
  IF ~Manages(j) THEN {}
  ELSE (IF j.spec.schema = "governance" \/ (j.present /\ j.def = j.latest) THEN {}
        ELSE IF j.superseded THEN {"SchemaSuperseded"} ELSE {"RegisterSchema"})
       \cup (IF j.spec.compat \in {"", LevelSeen(j)} THEN {}
             ELSE {compatibilityOp(j.spec.compat, LevelSeen(j), j.global)})

Pending(j) ==
  computeTopicOps(j) \cup (IF j.acl THEN {} ELSE {"CreateAcl"}) \cup computeSchemaOps(j)

Plan ==
  /\ pc = "plan"
  /\ IF job.spec.mode = "Enforce"
       THEN ops' = Pending(job) /\ pc' = "exec"
       ELSE pc' = "status" /\ UNCHANGED ops
  /\ UNCHANGED <<cr, live, job, results, failedTopics, status, quiet, edits, envOps, faults>>

(***************************************************************************)
(* Executing.                                                              *)
(***************************************************************************)
Approvals == IF job.approved THEN {"destructive"} ELSE {}

Op(a) == [action |-> a, mode |-> "", target |-> Name]

VerdictOn(a) == Verdict(Op(a), Approvals, failedTopics)

Record(a, st) ==
  /\ results' = results \cup {[action |-> a, status |-> st]}
  /\ failedTopics' = IF st = "Failed" /\ a = "CreateTopic" THEN {Name} ELSE failedTopics
  /\ ops' = ops \ {a}

NotDispatched ==
  /\ pc = "exec"
  /\ \E a \in ops : /\ IsNext(a, ops)
                    /\ VerdictOn(a) # "Dispatch"
                    /\ Record(a, VerdictOn(a))
  /\ UNCHANGED <<cr, live, pc, job, status, quiet, edits, envOps, faults>>

(* Kafka refuses to create what exists, to alter what does not, and to     *)
(* reduce partitions; the registry answers a schema it has with the old    *)
(* version's id.                                                           *)
Accepts(a) ==
  CASE a = "CreateTopic"        -> ~live.topic.exists
    [] a = "IncreasePartitions" -> live.topic.exists
                                     /\ job.spec.partitions > live.topic.partitions
    [] a = "UpdateTopicConfig"  -> live.topic.exists
    [] OTHER                    -> TRUE

Effect(a) ==
  CASE a = "CreateTopic" ->
         [live EXCEPT !.topic = [exists |-> TRUE, partitions |-> job.spec.partitions,
                                 cfg |-> job.spec.cfg,
                                 rf |-> IF job.spec.rf = 0 THEN 1 ELSE job.spec.rf]]
    [] a = "IncreasePartitions" -> [live EXCEPT !.topic.partitions = job.spec.partitions]
    [] a = "UpdateTopicConfig"  -> [live EXCEPT !.topic.cfg = job.spec.cfg]
    [] a = "CreateAcl"          -> [live EXCEPT !.acl = TRUE]
    [] a = "RegisterSchema"     -> IF Registered(job.def) THEN live
                                   ELSE [live EXCEPT !.versions = Append(@, job.def)]
    [] OTHER                    -> [live EXCEPT !.level = job.spec.compat]

Dispatching(a) == pc = "exec" /\ IsNext(a, ops) /\ VerdictOn(a) = "Dispatch"

Dispatch ==
  /\ \E a \in ops :
       /\ Dispatching(a)
       /\ IF Accepts(a) THEN live' = Effect(a) /\ Record(a, "Succeeded")
                        ELSE UNCHANGED live /\ Record(a, "Failed")
  /\ UNCHANGED <<cr, pc, job, status, quiet, edits, envOps, faults>>

(* No answer: the call had its effect or not.                              *)
DispatchFails ==
  /\ \E a \in ops :
       /\ Dispatching(a)
       /\ \/ UNCHANGED live
          \/ Accepts(a) /\ live' = Effect(a)
       /\ Record(a, "Failed")
  /\ Fault
  /\ UNCHANGED <<cr, pc, job, status, quiet, edits, envOps>>

(***************************************************************************)
(* The status: finishEnforce and finishDetectOnly, with the schema's area  *)
(* condition.  A reconcile that ended in validation keeps the conditions   *)
(* it did not get to.                                                      *)
(***************************************************************************)
Outcome(area) ==
  IF job.spec.mode = "Enforce"
    THEN \A res \in results : res.action \in area => res.status = "Succeeded"
    ELSE Pending(job) \cap area = {}

finish ==
  LET clean == Outcome(Actions)
  IN [gen   |-> job.gen,
      ready |-> IF \/ job.spec.mode = "ObserveOnly"
                   \/ IF job.spec.mode = "Enforce" THEN ResultOK(results) ELSE clean
                  THEN "True" ELSE "False",
      drift |-> IF clean THEN "no" ELSE "yes",
      schemaSynced |-> IF ~SchemaDeclared(job.spec) THEN "absent"
                       ELSE IF job.resolved /\ Outcome(SchemaActions) THEN "True" ELSE "False",
      degraded |-> Manages(job) /\ job.globalErr]

WriteStatus ==
  /\ pc = "status" \/ (pc = "exec" /\ ops = {})
  /\ status' = IF job.spec.valid THEN finish
               ELSE [status EXCEPT !.gen = job.gen, !.ready = "False", !.drift = "none"]
  /\ pc' = "idle" /\ job' = Idle
  /\ results' = {} /\ failedTopics' = {}
  /\ UNCHANGED <<cr, live, ops, quiet, edits, envOps, faults>>

(* A crash, or a status update that is given up: everything is forgotten.  *)
Crash ==
  /\ pc # "idle"
  /\ Fault
  /\ pc' = "idle" /\ job' = Idle
  /\ ops' = {} /\ results' = {} /\ failedTopics' = {}
  /\ quiet' = FALSE
  /\ UNCHANGED <<cr, live, status, edits, envOps>>

(***************************************************************************)
(* Everybody else.                                                         *)
(***************************************************************************)
operatorVars == <<pc, job, ops, results, failedTopics, status>>

Edit ==
  /\ edits < MaxEdits /\ edits' = edits + 1
  /\ \/ /\ spec' \in Specs \ {spec}
        /\ gen' = gen + 1
        /\ UNCHANGED <<approved, secret, quiet>>
     \/ /\ approved' = ~approved
        /\ UNCHANGED <<spec, gen, secret, quiet>>
     \/ /\ secret' \in (Bodies \cup {"missing"}) \ {secret}
        /\ quiet' = FALSE
        /\ UNCHANGED <<spec, gen, approved>>
  /\ UNCHANGED <<live, operatorVars, envOps, faults>>

(* Someone alters or deletes the topic or the ACL, a producer registers a  *)
(* version, someone sets the subject's level or the global default.        *)
Interference ==
  \/ \E p \in 1..3 : live.topic.exists /\ live' = [live EXCEPT !.topic.partitions = p]
                       /\ p > live.topic.partitions
  \/ live.topic.exists /\ live' = [live EXCEPT !.topic.cfg = "other"]
  \/ live.topic.exists /\ live' = [live EXCEPT !.topic = NoTopic]
  \/ ~live.topic.exists
       /\ live' = [live EXCEPT !.topic = [exists |-> TRUE, partitions |-> 1, rf |-> 1,
                                          cfg |-> "unset"]]
  \/ live.acl /\ live' = [live EXCEPT !.acl = FALSE]
  \/ \E b \in Bodies : ~Registered(b) /\ live' = [live EXCEPT !.versions = Append(@, b)]
  \/ \E l \in LevelsUsed : live' = [live EXCEPT !.level = l]
  \/ \E l \in LevelsUsed : live' = [live EXCEPT !.global = l]

Interfere ==
  /\ envOps < MaxEnvOps /\ envOps' = envOps + 1
  /\ Interference
  /\ quiet' = FALSE
  /\ UNCHANGED <<cr, operatorVars, edits, faults>>

Operator == Begin \/ Read \/ Plan \/ NotDispatched \/ Dispatch \/ WriteStatus

Next == Operator \/ ReadFails \/ DispatchFails \/ Crash \/ Edit \/ Interfere

(***************************************************************************)
(* Fairness: a reconcile in progress goes on, and the resync interval or   *)
(* the backoff starts another one after each, whatever its outcome.        *)
(***************************************************************************)
Spec == Init /\ [][Next]_vars /\ WF_vars(Operator)

(***************************************************************************)
(* Properties.                                                             *)
(***************************************************************************)
TopicInSync(s) ==
  /\ live.topic.exists
  /\ "partitions" \in s.ignore \/ live.topic.partitions = s.partitions
  /\ "cfg" \in s.ignore \/ s.cfg \in {"unset", live.topic.cfg}
  /\ "rf" \in s.ignore \/ s.rf \in {0, live.topic.rf}
  /\ live.acl

SchemaInSync(s) ==
  /\ s.schema = "content" => Latest = secret
  /\ SchemaDeclared(s) => s.compat \in {"", live.level}

(***************************************************************************)
(* A status can be believed: of the generation it names, in any mode, if   *)
(* it reports no drift, or Ready without merely observing, the topic and   *)
(* its access are as declared, and so is the schema unless SchemaSynced is *)
(* False (its Secret could not be resolved).  Provided nobody interfered   *)
(* since that reconcile began and none has begun since.                    *)
(***************************************************************************)
StatusIsTruthful ==
  /\ pc = "idle" /\ quiet /\ status.gen = gen
  /\ status.drift = "no" \/ (status.ready = "True" /\ spec.mode # "ObserveOnly")
  => /\ TopicInSync(spec)
     /\ status.schemaSynced = "True" => SchemaInSync(spec)
     /\ status.schemaSynced = "False" => secret = "missing"

(* What the operator may only report: it lacks an approval, or there is    *)
(* nothing it could do.                                                    *)
Attainable ==
  /\ spec.valid /\ spec.mode = "Enforce" /\ approved
  /\ "partitions" \in spec.ignore \/ live.topic.partitions <= spec.partitions
  /\ "rf" \in spec.ignore \/ spec.rf = 0 \/ ~live.topic.exists \/ live.topic.rf = spec.rf
  /\ spec.schema = "content" =>
       secret # "missing" /\ (Registered(secret) => Latest = secret)

(***************************************************************************)
(* Every spec is eventually reported on, and one that can be attained is   *)
(* attained and reported Ready: no failed or ambiguous call, crash or      *)
(* out-of-band change needs anybody to touch the resource again.           *)
(***************************************************************************)
EventuallySettled ==
  <>[](/\ status.gen = gen
       /\ Attainable => TopicInSync(spec) /\ SchemaInSync(spec) /\ status.ready = "True")

(***************************************************************************)
(* The reconcile implements the contract.  It is blind to the level in     *)
(* force when the global default could not be read, when somebody changed  *)
(* anything meanwhile, and when the subject has no version yet.            *)
(***************************************************************************)
Blind == ~quiet \/ job.globalErr \/ live.versions = <<>>

Contract ==
  INSTANCE TopicContract WITH
    declared <- [spec |-> spec, approved |-> approved, def |-> secret],
    wish     <- [spec |-> job.spec, approved |-> job.approved, def |-> job.def],
    blind    <- Blind,
    live     <- live,
    others   <- envOps

ImplementsContract == Contract!Spec

(***************************************************************************)
(* A subject's level is not weakened without approval (diff.go: a first    *)
(* set below the global default is gated "exactly like an explicit         *)
(* Lower"), by the code's own ranking, when everything could be read and   *)
(* nobody interfered.                                                      *)
(***************************************************************************)
NoUngatedLowering ==
  [][pc = "exec" /\ quiet' /\ ~job.globalErr /\ ~job.approved /\ live'.level # live.level =>
       compatRank(live'.level) >= compatRank(Effective(live.level, live.global))]_vars
=============================================================================
