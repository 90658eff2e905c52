------------------------------ MODULE MCCliRun ------------------------------
(* TLC instance of CliRun.                                                 *)
EXTENDS CliRun

CONSTANTS r1, r2

MirrorOf(value, factor, recMode) ==
  [kind |-> "mirror", link |-> "l", source |-> "s", naming |-> "same", explicit |-> FALSE,
   cfg |-> value, rf |-> factor, mode |-> recMode]

TopicOf(value, recMode) == [kind |-> "topic", cfg |-> value, mode |-> recMode]

Mine   == MirrorOf("v1", 0, "Enforce")
Theirs == TopicOf("v2", "Enforce")
Sized  == MirrorOf("unset", 3, "DetectOnly")

Pair(d1, c1, d2, c2) == [r \in {r1, r2} |-> IF r = r1 THEN [decl |-> d1, cmd |-> c1]
                                            ELSE [decl |-> d2, cmd |-> c2]]

(* Two repositories that claim one name, as a mirror and as a topic; the   *)
(* same manifests applied twice; a run that only looks, or may not touch.  *)
MCInvocations ==
  {Pair(Mine, "apply", Theirs, "apply"), Pair(Mine, "apply", Mine, "apply"),
   Pair(Theirs, "verify", Sized, "apply"), Pair(Mine, "verify", Sized, "verify")}

LinkWith(st, s) == [exists |-> TRUE, state |-> st, prefixed |-> FALSE, sync |-> s]

(* Active, paused, syncing the declared key, or not there.                 *)
MCLinks ==
  {NoLink, LinkWith("ACTIVE", "free"), LinkWith("PAUSED", "free"), LinkWith("ACTIVE", "managed")}

State(cfgNow, st, l) ==
  [topic |-> [exists |-> TRUE, cfg |-> cfgNow, rf |-> 1],
   entry |-> IF st = "none" THEN NoEntry ELSE [status |-> st, link |-> "l", source |-> "s"],
   link |-> l]

(* The name is free, a topic's, a mirror's of every class, or left over by *)
(* a promoted mirror; the link is active, is not, or does not exist.       *)
MCClusters ==
  {[topic |-> NoTopic, entry |-> NoEntry, link |-> l] : l \in MCLinks}
    \cup {State("unset", "none", LinkWith("ACTIVE", "free")),
          State("v1", "ACTIVE", LinkWith("ACTIVE", "managed")),
          State("v2", "ACTIVE", LinkWith("PAUSED", "free")),
          State("v1", "PAUSED", LinkWith("ACTIVE", "free")),
          State("v1", "PENDING_STOPPED", LinkWith("ACTIVE", "free")),
          State("v1", "STOPPED", LinkWith("ACTIVE", "free"))}
=============================================================================
