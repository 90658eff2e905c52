-------------------------- MODULE MCTopicReconcile --------------------------
(* TLC instance of TopicReconcile.                                         *)
EXTENDS TopicReconcile

Declare(n, cfgKey, ign, sch, lvl, m) ==
  [partitions |-> n, rf |-> 0, cfg |-> cfgKey, ignore |-> ign, schema |-> sch, compat |-> lvl,
   mode |-> m, valid |-> TRUE]

(* More partitions and content under a stronger level than the default,    *)
(* and back; governance of a weaker level; only looking; an invalid spec.  *)
Grown     == Declare(2, "v1", {}, "content", "FULL", "Enforce")
Shrunk    == Declare(1, "v1", {"cfg"}, "content", "BACKWARD", "Enforce")
Governed  == [Declare(2, "unset", {"partitions"}, "governance", "NONE", "Enforce")
                EXCEPT !.rf = 3]
Watched   == Declare(1, "v1", {}, "content", "", "DetectOnly")
Invalid   == [Grown EXCEPT !.valid = FALSE]

(* A level that is governed before any version exists, then content.       *)
Strict    == Declare(1, "unset", {}, "governance", "FULL", "Enforce")
Loose     == Declare(1, "unset", {}, "content", "BACKWARD", "Enforce")
MCHandOver == {Strict, Loose}

MCSpecs == {Grown, Shrunk, Governed, Watched, Invalid}
=============================================================================
