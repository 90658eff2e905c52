--------------------------- MODULE TopicContract ---------------------------
(***************************************************************************)
(* What the operator promises about one KafkaTopic and its subject, with   *)
(* nothing of how it goes about it: no reads, plans, retries or status.    *)
(*                                                                         *)
(* The operator acts on one declaration at a time, one that was in force   *)
(* when it looked; what it changes, it changes to what that declaration    *)
(* says.  It creates and extends but never takes away, and what cannot be  *)
(* taken back, more partitions and a weaker compatibility level, needs the *)
(* approval that was in force with the declaration.                        *)
(***************************************************************************)
EXTENDS Naturals, Sequences, Compatibility

VARIABLES
  declared,   \* [spec, approved, def]: what users say now
  wish,       \* the declaration the operator acts on
  blind,      \* it does not know the level in force
  live,       \* [topic, acl, versions, level, global]
  others      \* changes made on the cluster by anybody else

vars == <<declared, wish, blind, live, others>>

(* Users declare, others change the cluster: no promise about either.      *)
Declare == declared' # declared /\ UNCHANGED <<wish, live, others>>

Interfere ==
  /\ others' = others + 1
  /\ UNCHANGED <<declared, wish>>

(* Looking, with the schema's body or without, and being done with it.     *)
Look ==
  /\ \/ wish' \in {wish, declared, [declared EXCEPT !.def = ""]}
     \/ ~wish'.spec.valid
  /\ UNCHANGED <<declared, live, others>>

Only(field) == live' = [live EXCEPT ![field] = live'[field]]

CreateTopic ==
  /\ Only("topic")
  /\ ~live.topic.exists
  /\ live'.topic.exists
  /\ live'.topic.partitions = wish.spec.partitions
  /\ live'.topic.cfg = wish.spec.cfg

AddPartitions ==
  /\ Only("topic")
  /\ wish.approved
  /\ live'.topic = [live.topic EXCEPT !.partitions = wish.spec.partitions]
  /\ live'.topic.partitions > live.topic.partitions

SetConfig ==
  /\ Only("topic")
  /\ wish.spec.cfg # "unset"
  /\ live'.topic = [live.topic EXCEPT !.cfg = wish.spec.cfg]

Grant == Only("acl") /\ live'.acl

(* A schema is a new version or no version, never an old one again.        *)
Register ==
  /\ Only("versions")
  /\ ~\E i \in DOMAIN live.versions : live.versions[i] = wish.def
  /\ live'.versions = Append(live.versions, wish.def)

SetLevel ==
  /\ Only("level")
  /\ live'.level = wish.spec.compat
  /\ \/ wish.approved
     \/ blind
     \/ Effective(live.level, live.global) = live'.level
     \/ compatRank(Effective(live.level, live.global)) < compatRank(live'.level)

Act ==
  /\ wish.spec.mode = "Enforce" /\ wish.spec.valid
  /\ CreateTopic \/ AddPartitions \/ SetConfig \/ Grant \/ Register \/ SetLevel
  /\ UNCHANGED <<declared, wish, others>>

Init == others = 0

Next == Declare \/ Interfere \/ Look \/ Act

Spec == Init /\ [][Next]_vars
=============================================================================
