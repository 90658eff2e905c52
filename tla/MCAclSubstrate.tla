--------------------------- MODULE MCAclSubstrate ---------------------------
(* TLC instances of AclSubstrate.                                          *)
EXTENDS AclSubstrate, TLC

CONSTANTS c1, c2, s1, s2, k1

(* Two operations on one resource pattern.                                 *)
TwoSubjects == {s1, s2}
OneKey == {k1}
TwoKeyOf == (s1 :> k1) @@ (s2 :> k1)

Allow(s) == [subject |-> s, permission |-> "Allow"]
Deny(s) == [subject |-> s, permission |-> "Deny"]

Policy(tuples, consent, recMode, onDelete) ==
  [acls |-> tuples, prune |-> consent, mode |-> recMode, deletionPolicy |-> onDelete]

(* Overlapping owners of one scope, without conflicts: one that prunes and *)
(* deletes, and one that shares a tuple with it and vetoes.                *)
SharedSpecs ==
  {Policy({Allow(s1), Allow(s2)}, TRUE, "Enforce", "Delete"),
   Policy({Allow(s2)}, FALSE, "Enforce", "Delete")}

(* The same tuples, one owner deleting its tuples and the other leaving    *)
(* them behind.                                                            *)
LiveSpecs ==
  {Policy({Allow(s1), Allow(s2)}, TRUE, "Enforce", "Delete"),
   Policy({Allow(s2)}, TRUE, "Enforce", "Orphan")}

(* One CR in every mode and with both deletion policies.                   *)
LifecycleSpecs ==
  LiveSpecs \cup {Policy({Allow(s1)}, FALSE, "DetectOnly", "Delete"),
                  Policy({Allow(s2)}, FALSE, "ObserveOnly", "Orphan")}

(* An ACL nobody declares.                                                 *)
UndeclaredOne == {Deny(s1)}

(* Liveness, in two situations at once: one policy in every mode, edited   *)
(* and deleted, or failing once on the way; or two owners of one scope and *)
(* a single user operation.                                                *)
OnePolicy == userOps + faults <= 2 /\ \A c \in CRs \ {c1} : obj[c] = NoObject(0)

TwoOwners ==
  /\ faults = 0 /\ userOps <= 1
  /\ \A c \in CRs : obj[c].exists => obj[c].spec \in LiveSpecs

(* A state constraint that only users and faults can leave, which have no  *)
(* fairness: every step of the operator is kept.                           *)
Situation == OnePolicy \/ TwoOwners

MCSymmetry == Permutations(CRs)
=============================================================================
