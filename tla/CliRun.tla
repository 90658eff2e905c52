------------------------------- MODULE CliRun -------------------------------
(***************************************************************************)
(* Runs of the CLI's apply and verify against one destination cluster: the *)
(* live state is read call by call (cli.computeOps, mirror.ReadSnapshot),  *)
(* the plan is computed once, and apply executes it operation by           *)
(* operation.  A declaration is one KafkaMirrorTopic or one KafkaTopic of  *)
(* the same topic name, together with one ACL on that topic; two runs may  *)
(* come from two repositories that know nothing of each other.             *)
(*                                                                         *)
(* A read is repeated by httpretry.Do and changes nothing, so its attempts *)
(* are one step here; a POST is sent exactly once, and its error leaves    *)
(* the outcome open: the request may have been lost, refused, applied, or  *)
(* be on its way still.                                                    *)
(***************************************************************************)
EXTENDS Integers, Mirror, Executor

CONSTANTS
  Runs,          \* invocations of the CLI, each made once
  Invocations,   \* what each run may be invoked with, all runs at a time
  Links,         \* settings the declared link may be in
  Clusters,      \* states the cluster may be in when the first run starts
  MaxEnvOps,     \* bound: changes made on the cluster by anybody else
  MaxFaults      \* bound: calls that fail for good or whose answer is lost

Values == {"unset", "v1", "v2"}

Topic == [exists : BOOLEAN, cfg : Values, rf : 0..3]

Declared   == UNION {{i[r].decl : r \in Runs} : i \in Invocations}
Mirrorings == {d \in Declared : d.kind = "mirror"}

(* A link as a snapshot shows it.                                          *)
Link ==
  [exists : BOOLEAN, state : {"none"} \cup {l.state : l \in Links}, prefixed : BOOLEAN,
   sync : {"managed", "free", "unreported"}]

Entry ==
  [status : {"none"} \cup Healthy \cup Unhealthy \cup Stopping \cup Stopped \cup Progressing,
   link   : {"none"} \cup {d.link : d \in Mirrorings} \cup {c.entry.link : c \in Clusters},
   source : {"none"} \cup {d.source : d \in Mirrorings} \cup {c.entry.source : c \in Clusters}]

ASSUME CliAssumption ==
  /\ "nobody" \notin Runs
  /\ \A d \in Declared :
       /\ d.kind \in {"mirror", "topic"} /\ d.cfg \in Values
       /\ d.mode \in {"Enforce"} \cup ReportOnlyModes
       /\ d.kind = "mirror" => d.rf \in 0..3
  /\ \A i \in Invocations : \A r \in Runs : i[r].cmd \in {"apply", "verify"}
  /\ Links \subseteq Link
  /\ \A c \in Clusters :
       /\ c.topic \in Topic /\ c.link \in Links /\ c.entry \in Entry
       /\ c.entry.status = "none" => c.entry = NoEntry
  /\ MaxEnvOps \in Nat /\ MaxFaults \in Nat

VARIABLES
  rest,       \* whether the cluster's manifest configures Kafka REST
  topic, entry, link, acl,   \* the destination cluster
  pc,         \* place of each run
  decl, cmd,  \* what it was invoked with
  got,        \* what it has read: live topic and ACL, and the mirror snapshot
  ops,        \* actions left to execute
  results, failedTopics, exit,
  late,       \* POSTs the client gave up on that may still be applied
  changed,    \* history: what others did since the run began, and since its
              \* writer began to read
  landed,     \* history: POSTs of the run that took effect
  envOps, faults

cluster == <<rest, topic, entry, link, acl>>
local   == <<decl, cmd, got, ops, results, failedTopics, exit>>
vars == <<rest, topic, entry, link, acl, pc, decl, cmd, got, ops, results,
          failedTopics, exit, late, changed, landed, envOps, faults>>

Name == "t"     \* the topic name every declaration resolves to

NoTopic == [exists |-> FALSE, cfg |-> "unset", rf |-> 0]

NoLink == [exists |-> FALSE, state |-> "none", prefixed |-> FALSE, sync |-> "unreported"]

(* The reads of computeOps that these declarations need, in order; the     *)
(* last five are ReadSnapshot, which the mirror writer makes again.        *)
SnapshotReads == <<"ids", "snapTopics", "mirrors", "links", "configs">>

Reading == {"topics", "acls"} \cup {SnapshotReads[i] : i \in DOMAIN SnapshotReads}

(* What a run has read: for the diff the live topic and ACL, and the       *)
(* mirror snapshot.                                                        *)
View ==
  [live : Topic, acl : BOOLEAN, topic : Topic, entry : Entry, link : Link,
   complete : BOOLEAN, configErr : BOOLEAN]

Unread == [live |-> NoTopic, acl |-> FALSE, topic |-> NoTopic, entry |-> NoEntry,
           link |-> NoLink, complete |-> FALSE, configErr |-> FALSE]

Posts == {"CreateMirrorTopic", "UpdateMirrorTopicConfig"}

TypeOK ==
  /\ rest \in BOOLEAN /\ topic \in Topic /\ entry \in Entry /\ link \in Links /\ acl \in BOOLEAN
  /\ pc \in [Runs -> Reading \cup {"idle", "plan", "exec", "check", "post", "done"}]
  /\ decl \in [Runs -> Declared] /\ cmd \in [Runs -> {"apply", "verify"}]
  /\ got \in [Runs -> View]
  /\ ops \in [Runs -> SUBSET Actions]
  /\ results \in [Runs -> SUBSET [action : Actions, status : Statuses]]
  /\ failedTopics \in [Runs -> SUBSET {Name}] /\ exit \in [Runs -> {-1, 0, 1, 2, 3}]
  /\ late \subseteq Runs \X Posts
  /\ changed \in [Runs -> SUBSET {"run", "write"}] /\ landed \in [Runs -> Nat]
  /\ envOps \in Nat /\ faults \in Nat

Init ==
  /\ rest \in BOOLEAN
  /\ \E c \in Clusters : topic = c.topic /\ entry = c.entry /\ link = c.link
  /\ acl = FALSE
  /\ pc = [r \in Runs |-> "idle"]
  /\ \E i \in Invocations :
       decl = [r \in Runs |-> i[r].decl] /\ cmd = [r \in Runs |-> i[r].cmd]
  /\ got = [r \in Runs |-> Unread]
  /\ ops = [r \in Runs |-> {}] /\ results = [r \in Runs |-> {}]
  /\ failedTopics = [r \in Runs |-> {}]
  /\ exit = [r \in Runs |-> -1]
  /\ late = {}
  /\ changed = [r \in Runs |-> {}] /\ landed = [r \in Runs |-> 0]
  /\ envOps = 0 /\ faults = 0

(* Everybody else's view of a change: the run that makes it, if any, is by.*)
Disturb(by) == changed' = [r \in Runs |-> IF r = by THEN changed[r] ELSE {"run", "write"}]

(***************************************************************************)
(* Reading.                                                                *)
(***************************************************************************)
Goto(r, place) == pc' = [pc EXCEPT ![r] = place]

Writing(r) == ops[r] # {}    \* the reads are the mirror writer's

(* Where the snapshot's reads lead: to the plan, or to the pre-write check.*)
AfterSnapshot(r) == IF Writing(r) THEN "check" ELSE "plan"

NextRead(r) ==
  CASE pc[r] = "topics"     -> "acls"
    [] pc[r] = "acls"       -> IF rest THEN "ids" ELSE "plan"
    [] pc[r] = "ids"        -> "snapTopics"
    [] pc[r] = "snapTopics" -> "mirrors"
    [] pc[r] = "mirrors"    -> "links"
    [] pc[r] = "links"      -> IF link.exists /\ decl[r].kind = "mirror"
                                 THEN "configs" ELSE AfterSnapshot(r)
    [] pc[r] = "configs"    -> AfterSnapshot(r)

(* The live topics are read only when a KafkaTopic is declared.            *)
Start(r) ==
  /\ pc[r] = "idle"
  /\ Goto(r, IF decl[r].kind = "topic" THEN "topics" ELSE "acls")
  /\ changed' = [changed EXCEPT ![r] = {}]
  /\ UNCHANGED <<cluster, local, late, landed, envOps, faults>>

(* A link is put together from two reads, its existence and state from the *)
(* list and the rest from its configs; one that has gone in between has    *)
(* none.                                                                   *)
WithConfigs(s) ==
  IF link.exists
    THEN [s EXCEPT !.link.prefixed = link.prefixed, !.link.sync = link.sync, !.complete = TRUE]
    ELSE [s EXCEPT !.configErr = TRUE, !.complete = TRUE]

(* What one answered read adds.  The link's configs are read for the links *)
(* that mirrors are declared on; the snapshot is complete at the end.      *)
Seen(r) ==
  CASE pc[r] = "topics"     -> [got[r] EXCEPT !.live = topic]
    [] pc[r] = "acls"       -> [got[r] EXCEPT !.acl = acl]
    [] pc[r] = "ids"        -> [got[r] EXCEPT !.complete = FALSE, !.configErr = FALSE]
    [] pc[r] = "snapTopics" -> [got[r] EXCEPT !.topic = topic]
    [] pc[r] = "mirrors"    -> [got[r] EXCEPT !.entry = entry]
    [] pc[r] = "links"      -> [got[r] EXCEPT !.link = link,
                                  !.complete = NextRead(r) # "configs"]
    [] pc[r] = "configs"    -> WithConfigs(got[r])

Get(r) ==
  /\ pc[r] \in Reading
  /\ got' = [got EXCEPT ![r] = Seen(r)]
  /\ Goto(r, NextRead(r))
  /\ UNCHANGED <<cluster, decl, cmd, ops, results, failedTopics, exit, late, changed, landed,
                 envOps, faults>>

(***************************************************************************)
(* A read that fails for good: a status that is not retried, the last of   *)
(* its attempts, a cluster id that does not match, a page that cannot be   *)
(* used.  Failing to list topics or ACLs ends the run; a snapshot is left  *)
(* incomplete, except that a link's configs only mark that link.           *)
(***************************************************************************)
GetFails(r) ==
  /\ faults < MaxFaults /\ faults' = faults + 1
  /\ \/ /\ pc[r] \in {"topics", "acls"}
        /\ Goto(r, "done")
        /\ exit' = [exit EXCEPT ![r] = 2]
        /\ UNCHANGED got
     \/ /\ pc[r] \in Reading \ {"topics", "acls", "configs"}
        /\ got' = [got EXCEPT ![r] = [@ EXCEPT !.complete = FALSE]]
        /\ Goto(r, AfterSnapshot(r))
        /\ UNCHANGED exit
     \/ /\ pc[r] = "configs"
        /\ got' = [got EXCEPT ![r] = [@ EXCEPT !.complete = TRUE, !.configErr = TRUE]]
        /\ Goto(r, AfterSnapshot(r))
        /\ UNCHANGED exit
  /\ UNCHANGED <<cluster, decl, cmd, ops, results, failedTopics, late, changed, landed, envOps>>

(***************************************************************************)
(* The plan: diff.Compute over what was read.                              *)
(***************************************************************************)
Op(r, a) == [action |-> a, mode |-> decl[r].mode, target |-> Name]

TopicActions(r) ==
  IF ~got[r].live.exists THEN {"CreateTopic"}
  ELSE IF decl[r].cfg \in {"unset", got[r].live.cfg} THEN {} ELSE {"UpdateTopicConfig"}

AclActions(r) == IF got[r].acl THEN {} ELSE {"CreateAcl"}

(* A guarded topic loses its own operations and its literal ACL.           *)
Planned(r) ==
  IF decl[r].kind = "mirror"
    THEN mirrorOpsFor(decl[r], got[r]) \cup AclActions(r)
  ELSE IF rest /\ Guard(got[r]) # "none" THEN {Guard(got[r])}
  ELSE TopicActions(r) \cup AclActions(r)

Compute(r) ==
  /\ pc[r] = "plan"
  /\ \/ /\ cmd[r] = "apply"
        /\ ops' = [ops EXCEPT ![r] = Planned(r)]
        /\ Goto(r, "exec")
        /\ UNCHANGED exit
     \/ /\ cmd[r] = "verify"
        /\ exit' = [exit EXCEPT ![r] = VerifyExit({Op(r, a) : a \in Planned(r)})]
        /\ Goto(r, "done")
        /\ UNCHANGED ops
  /\ got' = [got EXCEPT ![r] = Unread]
  /\ UNCHANGED <<cluster, decl, cmd, results, failedTopics, late, changed, landed, envOps, faults>>

(***************************************************************************)
(* Executing.                                                              *)
(***************************************************************************)
Creates == {"CreateTopic", "CreateMirrorTopic"}

(* An action is done with: its result, and the topics whose creation       *)
(* failed.                                                                 *)
Record(r, a, status) ==
  /\ results' = [results EXCEPT ![r] = @ \cup {[action |-> a, status |-> status]}]
  /\ failedTopics' =
       [failedTopics EXCEPT ![r] =
          IF status = "Failed" /\ a \in Creates THEN @ \cup {Name} ELSE @]
  /\ ops' = [ops EXCEPT ![r] = @ \ {a}]

VerdictOn(r, a) == Verdict(Op(r, a), {}, failedTopics[r])

NotDispatched(r) ==
  /\ pc[r] = "exec"
  /\ \E a \in ops[r] :
       /\ IsNext(a, ops[r])
       /\ VerdictOn(r, a) # "Dispatch"
       /\ Record(r, a, VerdictOn(r, a))
  /\ UNCHANGED <<cluster, pc, decl, cmd, got, exit, late, changed, landed, envOps,
                 faults>>

Dispatching(r, a) ==
  /\ pc[r] = "exec" /\ IsNext(a, ops[r])
  /\ VerdictOn(r, a) = "Dispatch"

(* A Kafka Admin call: it takes effect, the broker refuses it, or it fails *)
(* on the way there or on the way back, when it has taken effect.          *)
AdminCall(r, a, allowed, topicAfter, aclAfter) ==
  LET Effect  == allowed /\ topic' = topicAfter /\ acl' = aclAfter /\ Disturb(r)
      Nothing == UNCHANGED <<topic, acl, changed>>
  IN /\ Dispatching(r, a)
     /\ \/ Effect /\ Record(r, a, "Succeeded") /\ UNCHANGED faults
        \/ ~allowed /\ Nothing /\ Record(r, a, "Failed") /\ UNCHANGED faults
        \/ /\ faults < MaxFaults /\ faults' = faults + 1
           /\ Record(r, a, "Failed")
           /\ Effect \/ Nothing
     /\ UNCHANGED <<rest, entry, link, pc, decl, cmd, got, exit, late, landed, envOps>>

CreateTopic(r) ==
  AdminCall(r, "CreateTopic", ~topic.exists,
            [exists |-> TRUE, cfg |-> decl[r].cfg, rf |-> 1], acl)

UpdateTopicConfig(r) ==
  AdminCall(r, "UpdateTopicConfig", topic.exists, [topic EXCEPT !.cfg = decl[r].cfg], acl)

CreateACLs(r) == AdminCall(r, "CreateAcl", TRUE, topic, TRUE)

(* The mirror writer reads everything again before it posts.               *)
WriterReads(r) ==
  /\ \E a \in Posts : Dispatching(r, a)
  /\ Goto(r, "ids")
  /\ changed' = [changed EXCEPT ![r] = @ \ {"write"}]
  /\ UNCHANGED <<cluster, local, late, landed, envOps, faults>>

PreWrite(r, a) ==
  IF a = "CreateMirrorTopic" THEN MayCreate(decl[r], got[r]) ELSE MayAlter(decl[r], got[r])

WriterChecks(r) ==
  /\ pc[r] = "check"
  /\ \E a \in ops[r] :
       /\ IsNext(a, ops[r])
       /\ \/ /\ PreWrite(r, a)
             /\ Goto(r, "post")
             /\ UNCHANGED <<ops, results, failedTopics>>
          \/ /\ ~PreWrite(r, a)
             /\ Goto(r, "exec")
             /\ Record(r, a, "Failed")
  /\ got' = [got EXCEPT ![r] = Unread]
  /\ UNCHANGED <<cluster, decl, cmd, exit, late, changed, landed, envOps, faults>>

(***************************************************************************)
(* The REST server: it creates a mirror of a name that is free on an       *)
(* active link, and alters the config of any topic there is.               *)
(***************************************************************************)
Accepts(action) ==
  IF action = "CreateMirrorTopic"
    THEN ~topic.exists /\ entry.status = "none" /\ link.exists /\ LinkActive(link)
    ELSE topic.exists

Serve(action, d) ==
  IF action = "CreateMirrorTopic"
    THEN /\ topic' = [exists |-> TRUE, cfg |-> d.cfg, rf |-> IF d.rf > 0 THEN d.rf ELSE 1]
         /\ entry' = [status |-> "PENDING_MIRROR", link |-> d.link, source |-> d.source]
    ELSE /\ topic' = [topic EXCEPT !.cfg = d.cfg]
         /\ UNCHANGED entry

(* The POST of one run takes effect.                                       *)
Land(r, action) ==
  /\ Accepts(action)
  /\ Serve(action, decl[r])
  /\ landed' = [landed EXCEPT ![r] = @ + 1]
  /\ UNCHANGED <<rest, link, acl>>

(* An answer: the write was made, or the server refused it.                *)
Answered(r, a) ==
  \/ /\ Land(r, a)
     /\ Record(r, a, "Succeeded")
     /\ Disturb(r)
  \/ /\ ~Accepts(a)
     /\ Record(r, a, "Failed")
     /\ UNCHANGED <<cluster, changed, landed>>

(* An error with the outcome open: lost, applied, or still under way.      *)
Unanswered(r, a) ==
  /\ faults < MaxFaults /\ faults' = faults + 1
  /\ \/ UNCHANGED <<cluster, late, changed, landed>>
     \/ Land(r, a) /\ Disturb(r) /\ UNCHANGED late
     \/ /\ late' = late \cup {<<r, a>>}
        /\ UNCHANGED <<cluster, changed, landed>>

(* A client that sends a POST again when it is not answered.               *)
PostRetried(r) ==
  /\ pc[r] = "post"
  /\ \E a \in ops[r] :
       /\ IsNext(a, ops[r])
       /\ \/ Answered(r, a) /\ Goto(r, "exec") /\ UNCHANGED <<late, faults>>
          \/ Unanswered(r, a) /\ UNCHANGED <<pc, ops, results, failedTopics>>
  /\ UNCHANGED <<decl, cmd, got, exit, envOps>>

(* Sent once, whatever becomes of it.                                      *)
Post(r) ==
  /\ pc[r] = "post"
  /\ \E a \in ops[r] :
       /\ IsNext(a, ops[r])
       /\ \/ Answered(r, a) /\ UNCHANGED <<late, faults>>
          \/ Unanswered(r, a) /\ Record(r, a, "Failed")
  /\ Goto(r, "exec")
  /\ UNCHANGED <<decl, cmd, got, exit, envOps>>

DeliverLate ==
  \E m \in late :
    /\ late' = late \ {m}
    /\ \/ Land(m[1], m[2]) /\ Disturb("nobody")
       \/ ~Accepts(m[2]) /\ UNCHANGED <<cluster, landed, changed>>
    /\ UNCHANGED <<pc, local, envOps, faults>>

Finish(r) ==
  /\ pc[r] = "exec" /\ ops[r] = {}
  /\ exit' = [exit EXCEPT ![r] = ApplyExit(results[r])]
  /\ Goto(r, "done")
  /\ UNCHANGED <<cluster, decl, cmd, got, ops, results, failedTopics, late, changed,
                 landed, envOps, faults>>

Step(r) ==
  \/ Start(r) \/ Get(r) \/ GetFails(r) \/ Compute(r)
  \/ NotDispatched(r) \/ CreateTopic(r) \/ UpdateTopicConfig(r) \/ CreateACLs(r)
  \/ WriterReads(r) \/ WriterChecks(r) \/ Post(r) \/ Finish(r)

(***************************************************************************)
(* Everybody else: the cluster moves mirrors through their statuses,       *)
(* people promote, delete and create topics and change the link.           *)
(***************************************************************************)
Env(effect) ==
  /\ envOps < MaxEnvOps /\ envOps' = envOps + 1
  /\ effect
  /\ Disturb("nobody")
  /\ UNCHANGED <<rest, acl, pc, local, late, landed, faults>>

MirrorMoves ==
  Env(/\ topic.exists
      /\ \E to \in {<<"PENDING_MIRROR", "ACTIVE">>, <<"ACTIVE", "PAUSED">>,
                    <<"ACTIVE", "PENDING_STOPPED">>, <<"PENDING_STOPPED", "STOPPED">>} :
           entry.status = to[1] /\ entry' = [entry EXCEPT !.status = to[2]]
      /\ UNCHANGED <<topic, link>>)

(* A deleted topic's entry goes with it, unless it was promoted before:    *)
(* then REST may list it for some time.                                    *)
TopicDeleted ==
  Env(/\ topic.exists
      /\ topic' = NoTopic
      /\ \/ entry' = NoEntry
         \/ entry.status = "STOPPED" /\ UNCHANGED entry
      /\ UNCHANGED link)

TopicCreated ==
  Env(/\ ~topic.exists
      /\ topic' = [exists |-> TRUE, cfg |-> "unset", rf |-> 1]
      /\ UNCHANGED <<entry, link>>)

ConfigChanged ==
  Env(/\ topic.exists
      /\ \E v \in Values \ {topic.cfg} : topic' = [topic EXCEPT !.cfg = v]
      /\ UNCHANGED <<entry, link>>)

LinkChanged ==
  Env(/\ \E l \in Links \ {link} : link' = l
      /\ UNCHANGED <<topic, entry>>)

Next ==
  \/ \E r \in Runs : Step(r)
  \/ DeliverLate
  \/ MirrorMoves \/ TopicDeleted \/ TopicCreated \/ ConfigChanged \/ LinkChanged

Spec == Init /\ [][Next]_vars

(***************************************************************************)
(* Properties.                                                             *)
(***************************************************************************)

(* A mirror's declaration, and a KafkaTopic's, met by the live cluster.    *)
InSync(d) ==
  /\ topic.exists /\ acl
  /\ d.cfg # "unset" => topic.cfg = d.cfg
  /\ IF d.kind = "mirror"
       THEN /\ entry.status \in Healthy \cup Progressing
            /\ SameMirror(entry, d)
            /\ d.rf > 0 => topic.rf = d.rf
       ELSE rest => entry.status \in {"none"} \cup Stopped

(***************************************************************************)
(* Exit 0 can be believed: when apply of an enforced declaration, or       *)
(* verify of one that is not merely observed, exits 0 and nobody else      *)
(* touched the cluster while it ran, the cluster is what the manifests     *)
(* say.  No lost answer, refused write, skipped dependent or unreadable    *)
(* state is passed over (cli/apply.go, cli/verify.go, executor.Result.OK). *)
(***************************************************************************)
ExitZeroIsTruthful ==
  \A r \in Runs :
    /\ exit[r] = 0
    /\ "run" \notin changed[r]
    /\ IF cmd[r] = "apply" THEN decl[r].mode = "Enforce" ELSE decl[r].mode # "ObserveOnly"
    => InSync(decl[r])

(***************************************************************************)
(* A mirror write that lands without anybody having interfered since its   *)
(* writer began to read meets the rules on the live cluster, however old   *)
(* the plan is: the name was free, or still is the declared mirror, and    *)
(* the link leaves the key alone (mirror.Writer).                          *)
(***************************************************************************)
WritesMeetTheRules ==
  [][\A r \in Runs :
       landed'[r] # landed[r] /\ "write" \notin changed[r] /\ pc[r] = "post" =>
         /\ link.exists /\ KeyIsFree(link, decl[r])
         /\ IF IsNext("CreateMirrorTopic", ops[r])
              THEN /\ ~topic.exists /\ entry = NoEntry
                   /\ LinkActive(link) /\ CheckPrefix(link, decl[r])
              ELSE /\ SameMirror(entry, decl[r])
                   /\ entry.status \notin Stopping \cup Stopped]_vars

(***************************************************************************)
(* One run's POST takes effect at most once, so it can undo a change that  *)
(* was made after it only when it was itself delayed (httpretry.Do with    *)
(* idempotent = false).                                                    *)
(***************************************************************************)
PostsLandOnce == \A r \in Runs : landed[r] <= 1

(***************************************************************************)
(* Nothing is granted on a topic whose creation failed in the same run     *)
(* (executor.executionOrder and the prerequisite skip).                    *)
(***************************************************************************)
FailedTopicHasNoDependents ==
  \A r \in Runs :
    ~\E res, dep \in results[r] :
       /\ res.action \in Creates /\ res.status = "Failed"
       /\ dep.action = "CreateAcl" /\ dep.status \in {"Succeeded", "Failed"}
=============================================================================
