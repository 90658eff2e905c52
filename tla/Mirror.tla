------------------------------- MODULE Mirror -------------------------------
(***************************************************************************)
(* Cluster-link mirror topics: how internal/mirror classifies a topic from *)
(* what Kafka Admin and Kafka REST say of it, the rules a link imposes,    *)
(* and the decision table of diff.mirrorOpsFor.                            *)
(*                                                                         *)
(* One declared config key stands for all of them.  A mirror entry is      *)
(* [status, link, source], status "none" being no entry; a link is         *)
(* [exists, state, prefixed, sync], sync telling whether the link syncs    *)
(* the key from the source ("managed"), leaves it alone ("free") or does   *)
(* not report topic.config.sync.include ("unreported").                    *)
(***************************************************************************)
EXTENDS Naturals

Healthy     == {"ACTIVE"}
Unhealthy   == {"PAUSED", "LINK_PAUSED", "FAILED", "LINK_FAILED", "SOURCE_UNAVAILABLE"}
Stopping    == {"PENDING_STOPPED"}
Stopped     == {"STOPPED"}
Progressing ==
  {"PENDING_MIRROR", "PENDING_SYNCHRONIZE", "PENDING_SETUP_FOR_RESTORE", "PENDING_RESTORE",
   "PENDING_RESTORE_MIRROR"}

NoEntry == [status |-> "none", link |-> "none", source |-> "none"]

(***************************************************************************)
(* Snapshot.Classify: an incomplete snapshot, a mirror entry without its   *)
(* topic and a status nobody knows are Unknown, never Absent or Normal.    *)
(***************************************************************************)
Classify(complete, hasTopic, entry) ==
  IF ~complete THEN "Unknown"
  ELSE IF entry.status = "none" THEN (IF hasTopic THEN "Normal" ELSE "Absent")
  ELSE IF ~hasTopic THEN "Unknown"
  ELSE IF entry.status \in Healthy \cup Unhealthy \cup Progressing THEN "Mirror"
  ELSE IF entry.status \in Stopping THEN "StoppingMirror"
  ELSE IF entry.status \in Stopped THEN "StoppedFormerMirror"
  ELSE "Unknown"

(* The declared name against the link's prefix: without one it is the      *)
(* source's name, with one it is spelled out and prefixed.                 *)
CheckPrefix(link, decl) ==
  IF link.prefixed THEN decl.explicit /\ decl.naming = "prefixed" ELSE decl.naming = "same"

LinkActive(link) == link.state = "ACTIVE"

(* A declared key may be set only when the link is known to leave it.      *)
KeyIsFree(link, decl) == decl.cfg = "unset" \/ link.sync = "free"

SameMirror(entry, decl) == entry.link = decl.link /\ entry.source = decl.source

(***************************************************************************)
(* mirrorOpsFor: the first matching row wins.  A snapshot is               *)
(* [complete, topic, entry, link, configErr], topic being [exists, cfg,    *)
(* rf]; a cluster without Kafka REST has no complete one.                  *)
(***************************************************************************)
mirrorOpsFor(decl, s) ==
  LET class == Classify(s.complete, s.topic.exists, s.entry)
      finding ==
        IF s.entry.status \in Unhealthy THEN {"MirrorTopicUnhealthy"}
        ELSE IF s.entry.status \in Progressing THEN {"MirrorTopicProgressing"} ELSE {}
      factor ==
        IF decl.rf > 0 /\ decl.rf # s.topic.rf
          THEN {"UnsupportedReplicationFactorChange"} ELSE {}
      config ==
        IF decl.cfg = "unset" THEN {}
        ELSE IF ~KeyIsFree(s.link, decl) THEN {"Rejected"}
        ELSE IF s.topic.cfg = decl.cfg THEN {} ELSE {"UpdateMirrorTopicConfig"}
  IN IF ~s.complete THEN {"StateReadError"}
     ELSE IF ~s.link.exists THEN {"Rejected"}
     ELSE IF s.configErr THEN {"StateReadError"}
     ELSE IF ~CheckPrefix(s.link, decl) THEN {"Rejected"}
     ELSE IF class = "Absent"
       THEN IF LinkActive(s.link) /\ KeyIsFree(s.link, decl)
              THEN {"CreateMirrorTopic"} ELSE {"Rejected"}
     ELSE IF class = "Normal" THEN {"Rejected"}
     ELSE IF class = "StoppedFormerMirror" THEN {"Rejected", "MirrorTopicPromoted"}
     ELSE IF class = "Unknown" THEN {"StateReadError"}
     ELSE IF ~SameMirror(s.entry, decl) THEN {"Rejected"}
     ELSE IF class = "StoppingMirror" THEN {"MirrorTopicStopping"}
     ELSE finding \cup factor \cup config

(***************************************************************************)
(* guardedTopics: the finding that replaces every operation of a           *)
(* KafkaTopic whose name is, or may be, a mirror's; "none" leaves it be.   *)
(***************************************************************************)
Guard(s) ==
  LET class == Classify(s.complete, s.topic.exists, s.entry)
  IN CASE class \in {"Mirror", "StoppingMirror"} -> "Rejected"
       [] class = "Unknown"                      -> "StateReadError"
       [] OTHER                                  -> "none"

(***************************************************************************)
(* What the writer asks of its own fresh snapshot before it posts: the     *)
(* rules the diff used.                                                    *)
(***************************************************************************)
freshLink(s) == s.complete /\ s.link.exists /\ ~s.configErr

(* A writer that trusts the plan.                                          *)
MayCreateAsPlanned(decl, s) == TRUE

MayCreate(decl, s) ==
  /\ freshLink(s)
  /\ Classify(s.complete, s.topic.exists, s.entry) = "Absent"
  /\ LinkActive(s.link)
  /\ CheckPrefix(s.link, decl)
  /\ KeyIsFree(s.link, decl)

MayAlter(decl, s) ==
  /\ freshLink(s)
  /\ Classify(s.complete, s.topic.exists, s.entry) = "Mirror"
  /\ SameMirror(s.entry, decl)
  /\ KeyIsFree(s.link, decl)
=============================================================================
