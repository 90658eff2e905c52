------------------------------ MODULE Executor ------------------------------
(***************************************************************************)
(* The operation taxonomy (internal/operations) and what the executor      *)
(* decides before and after it calls a backend (internal/executor): the    *)
(* order operations run in, the verdict that keeps one from being          *)
(* dispatched, and what a finished list means to the caller.  An operation *)
(* is a record with at least the fields action, mode and target; the calls *)
(* themselves are steps of the modules that use this one.                  *)
(***************************************************************************)
EXTENDS Naturals

(* Actions in the order diff.Compute renders them: by name.                *)
ByName ==
  <<"AddRoleBinding", "CreateAcl", "CreateMirrorTopic", "CreateTopic", "DeleteAcl",
    "IncreasePartitions", "LowerSchemaCompatibility", "MirrorTopicProgressing",
    "MirrorTopicPromoted", "MirrorTopicStopping", "MirrorTopicUnhealthy",
    "RaiseSchemaCompatibility", "RegisterSchema", "Rejected", "RemoveRoleBinding",
    "SchemaSuperseded", "StateReadError", "UnsupportedReplicationFactorChange",
    "UpdateMirrorTopicConfig", "UpdateReplicationFactor", "UpdateTopicConfig">>

Actions == {ByName[i] : i \in DOMAIN ByName}

ACLActions == {"CreateAcl", "DeleteAcl"}
SchemaActions ==
  {"RegisterSchema", "RaiseSchemaCompatibility", "LowerSchemaCompatibility", "SchemaSuperseded"}
RoleBindingActions == {"AddRoleBinding", "RemoveRoleBinding"}

(* Findings that no client call can settle.                                *)
TerminalFindings ==
  {"MirrorTopicUnhealthy", "MirrorTopicStopping", "MirrorTopicPromoted",
   "UnsupportedReplicationFactorChange", "SchemaSuperseded"}

Destructive == {"IncreasePartitions", "UpdateReplicationFactor", "LowerSchemaCompatibility"}
PruneGated  == {"DeleteAcl", "RemoveRoleBinding"}

GateOf(action) ==
  CASE action \in Destructive -> "allow-destructive"
    [] action \in PruneGated  -> "prune"
    [] OTHER                  -> "none"

Informational(action)    == action = "MirrorTopicProgressing"
OperationalError(action) == action = "StateReadError"

ReportOnlyModes == {"DetectOnly", "ObserveOnly"}

Statuses ==
  {"Succeeded", "Failed", "Blocked", "Skipped", "Rejected", "ReportOnly", "PruneDisabled",
   "Unsupported"}

(* The final sort of diff.Compute, of operations on one target: who comes  *)
(* before whom.                                                            *)
RenderOrder ==
  {p \in Actions \X Actions : \E i, j \in DOMAIN ByName : i < j /\ p = <<ByName[i], ByName[j]>>}

Group(action) ==
  CASE action \in ACLActions         -> 1
    [] action \in SchemaActions      -> 2
    [] action \in RoleBindingActions -> 3
    [] OTHER                         -> 0

(* The order of rendering: a topic's ACL before the topic.                 *)
executionOrderAsRendered == RenderOrder

(***************************************************************************)
(* Topics run before their ACLs and schemas, whatever the order they were  *)
(* rendered in: a stable partition.                                        *)
(***************************************************************************)
executionOrder ==
  {p \in Actions \X Actions :
     Group(p[1]) < Group(p[2]) \/ (Group(p[1]) = Group(p[2]) /\ p \in RenderOrder)}

(* Of the actions left to execute, the one whose turn it is.               *)
IsNext(a, left) == a \in left /\ \A b \in left \ {a} : <<a, b>> \in executionOrder

(***************************************************************************)
(* applyOne up to the dispatch: the status of an operation that is not     *)
(* attempted, or "Dispatch".  The first matching row wins: mode before     *)
(* everything, findings before gates, gates before the prerequisite skip.  *)
(* failedTopics holds the topics whose creation failed in this run.        *)
(***************************************************************************)
Verdict(op, approved, failedTopics) ==
  IF op.mode \in ReportOnlyModes THEN "ReportOnly"
  ELSE IF op.action = "Rejected" THEN "Rejected"
  ELSE IF Informational(op.action) THEN "ReportOnly"
  ELSE IF op.action \in TerminalFindings THEN "Unsupported"
  ELSE IF OperationalError(op.action) THEN "Failed"
  ELSE IF GateOf(op.action) = "allow-destructive" /\ "destructive" \notin approved THEN "Blocked"
  ELSE IF GateOf(op.action) = "prune" /\ "prune" \notin approved THEN "PruneDisabled"
  ELSE IF op.action = "UpdateReplicationFactor" THEN "Unsupported"
  ELSE IF op.action \in {"CreateAcl"} \cup SchemaActions /\ op.target \in failedTopics
       THEN "Skipped"
  ELSE "Dispatch"

OKStatuses == {"Succeeded", "ReportOnly", "PruneDisabled"}

(* A list's results, of which each action has at most one.                 *)
ResultOK(results) == \A res \in results : res.status \in OKStatuses

(* 3 when only approvals are missing, 2 when anything went wrong.          *)
applyExitCode(results) ==
  IF \A res \in results : res.status \in OKStatuses \cup {"Blocked"} THEN 3 ELSE 2

(* An apply to which an unknown outcome is as good as success.             *)
ApplyExitOptimistic(results) ==
  IF \A res \in results : res.status \in OKStatuses \cup {"Failed"}
    THEN 0 ELSE applyExitCode(results)

ApplyExit(results) == IF ResultOK(results) THEN 0 ELSE applyExitCode(results)

(* verify: state it could not see fails the run in every mode, findings    *)
(* that settle by themselves and ObserveOnly drift never do.               *)
VerifyExit(ops) ==
  IF \E op \in ops : OperationalError(op.action) THEN 2
  ELSE IF \E op \in ops : ~Informational(op.action) /\ op.mode # "ObserveOnly" THEN 1
  ELSE 0
=============================================================================
