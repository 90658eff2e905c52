----------------------------- MODULE AccessSet -----------------------------
(***************************************************************************)
(* The ACL tuples of internal/access and the cluster-wide view the         *)
(* controllers compute from them, at the level of sets.                    *)
(*                                                                         *)
(* A tuple's identity (ACL.FullKey) is its subject - the six fields of     *)
(* subjectKey: principal, host, resource type, name, pattern, operation -  *)
(* plus its permission.  The six fields are one opaque value here; what    *)
(* the code tells apart is the subject, the permission, and the scope key  *)
(* (principal and resource pattern) that the subject determines.           *)
(*                                                                         *)
(* A contribution is one tuple that one resource compiles to, stamped with *)
(* that resource's prune consent (access.StampPrune).                      *)
(***************************************************************************)
EXTENDS Integers

CONSTANTS
  Subjects,     \* six-field subjects (ACL.subjectKey)
  ScopeKeys,    \* (principal, resource pattern) pairs (access.ScopeKey)
  ScopeKeyOf    \* the scope key of each subject

ASSUME ScopeAssumption == ScopeKeyOf \in [Subjects -> ScopeKeys]

Permissions == {"Allow", "Deny"}

ACL == [subject : Subjects, permission : Permissions]

scopeKeyOf(a) == ScopeKeyOf[a.subject]

Opposite(a) == [a EXCEPT !.permission = IF @ = "Allow" THEN "Deny" ELSE "Allow"]

(* Reconciliation modes, most enforcing first; "" is unattributed.         *)
Modes == {"Enforce", "DetectOnly", "ObserveOnly", ""}

ModeRank(mode) ==
  CASE mode = "Enforce"     -> 3
    [] mode = "DetectOnly"  -> 2
    [] mode = "ObserveOnly" -> 1
    [] OTHER                -> 0

(***************************************************************************)
(* The view.  BuildClusterACLView sorts all contributions by FullKey, so   *)
(* of two tuples that differ only in the permission "Allow" is seen first  *)
(* and "Deny" is the one BuildDesiredSet drops.  A contribution here is a  *)
(* record with at least the fields acl and prune.                          *)
(***************************************************************************)
Tuples(contribs) == {i.acl : i \in contribs}

(* Subjects that some contribution allows and another denies.              *)
Contested(contribs) ==
  {a.subject : a \in {b \in Tuples(contribs) : Opposite(b) \in Tuples(contribs)}}

Dropped(contribs, a) == a.permission = "Deny" /\ a.subject \in Contested(contribs)

(* ClusterACLView.DesiredACLs: the union without the tuples that lose an   *)
(* Allow/Deny conflict.                                                    *)
DesiredUnion(contribs) == {a \in Tuples(contribs) : ~Dropped(contribs, a)}

(* ClusterACLView.Scope: the scope keys of the surviving tuples ...        *)
ManagedScope(contribs) == {scopeKeyOf(a) : a \in DesiredUnion(contribs)}

(* Mutant: one consenting contribution is enough.                          *)
ConsentedScopeAny(contribs) ==
  {scopeKeyOf(i.acl) : i \in {j \in contribs : ~Dropped(contribs, j.acl) /\ j.prune}}

(* ... and those of them on which every surviving contribution consents to *)
(* pruning (ScopeInfo.Prune, AND-merged by both walks).                    *)
ConsentedScope(contribs) ==
  {k \in ManagedScope(contribs) :
     \A i \in contribs :
        scopeKeyOf(i.acl) = k /\ ~Dropped(contribs, i.acl) => i.prune}

=============================================================================
