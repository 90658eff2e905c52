----------------------------- MODULE ManagedSet -----------------------------
(***************************************************************************)
(* The two walks of internal/managedset as access instantiates them:       *)
(* BuildDesiredSet dedupes compiled tuples by identity while it merges     *)
(* their attribution, and rejects a tuple whose subject was first seen     *)
(* with the other permission; BuildScope then folds the surviving tuples   *)
(* into the managed scope.  Every iteration of either loop is one step.    *)
(*                                                                         *)
(* The input slice is not fixed in advance: each BuildDesiredSet step      *)
(* takes the next element, any item, and `accepted' / `rejected' remember  *)
(* what became of the elements taken so far.  `sorted' says whether the    *)
(* slice so far had every "Allow" of a subject before its "Deny", which is *)
(* what BuildClusterACLView's sort by FullKey guarantees.                  *)
(***************************************************************************)
EXTENDS AccessSet, FiniteSets

CONSTANT MaxItems   \* bound on the length of the input slice

ASSUME MaxItemsAssumption == MaxItems \in Nat

Item == [acl : ACL, mode : Modes, prune : BOOLEAN]

Info == [mode : Modes, prune : BOOLEAN]

VARIABLES
  phase,      \* "desired" while BuildDesiredSet runs, then "scope", "done"
  taken,      \* number of elements taken
  sorted,     \* the slice so far is in FullKey order, subject by subject
  accepted,   \* elements merged into the output
  rejected,   \* elements dropped with an error
  bySubject,  \* rejectConflicting's map: first permission seen per subject
  out,        \* identity -> merged attribution (the output slice and index)
  todo,       \* identities BuildScope has not visited yet
  scope       \* scope key -> merged attribution

vars == <<phase, taken, sorted, accepted, rejected, bySubject, out, todo, scope>>

TypeOK ==
  /\ phase \in {"desired", "scope", "done"}
  /\ taken \in Nat
  /\ sorted \in BOOLEAN
  /\ accepted \subseteq Item
  /\ rejected \subseteq Item
  /\ DOMAIN bySubject \subseteq Subjects
  /\ bySubject \in [DOMAIN bySubject -> Permissions]
  /\ DOMAIN out \subseteq ACL
  /\ out \in [DOMAIN out -> Info]
  /\ todo \subseteq DOMAIN out
  /\ DOMAIN scope \subseteq ScopeKeys
  /\ scope \in [DOMAIN scope -> Info]

Empty == [k \in {} |-> TRUE]

Init ==
  /\ phase = "desired"
  /\ taken = 0
  /\ sorted = TRUE
  /\ accepted = {}
  /\ rejected = {}
  /\ bySubject = Empty
  /\ out = Empty
  /\ todo = {}
  /\ scope = Empty

-----------------------------------------------------------------------------

(* Mutant: prune consent OR-merged, as the mode in effect is.              *)
MergeAttributionOr(existing, incoming) ==
  [mode  |-> IF ModeRank(incoming.mode) > ModeRank(existing.mode)
               THEN incoming.mode ELSE existing.mode,
   prune |-> existing.prune \/ incoming.prune]

(* The most enforcing mode wins and prune consent AND-merges; the owner    *)
(* attribution, which the first contributor keeps, is left out.            *)
MergeAttribution(existing, incoming) ==
  [mode  |-> IF ModeRank(incoming.mode) > ModeRank(existing.mode)
               THEN incoming.mode ELSE existing.mode,
   prune |-> existing.prune /\ incoming.prune]

(* m with key k holding v, whether or not k was there.                     *)
Put(m, k, v) == [x \in DOMAIN m \cup {k} |-> IF x = k THEN v ELSE m[x]]

(* Mutant: the last contributor overwrites the entry.                      *)
FoldedLastWins(m, k, info) == Put(m, k, info)

(* A map entry after one more contributor: its own attribution for a new   *)
(* key, the merge for an existing one.                                     *)
Folded(m, k, info) == Put(m, k, IF k \in DOMAIN m THEN MergeAttribution(m[k], info) ELSE info)

(* Mutant: the conflict check compares with the wrong map entry and never  *)
(* rejects.                                                                *)
rejectConflictingNever(a) ==
  /\ a.subject \in DOMAIN bySubject
  /\ bySubject[a.subject] \notin Permissions

rejectConflicting(a) ==
  /\ a.subject \in DOMAIN bySubject
  /\ bySubject[a.subject] # a.permission

Attribution(it) == [mode |-> it.mode, prune |-> it.prune]

(* Mutant: the permission is recorded before the check can reject.         *)
BuildDesiredSetRecordsFirst(it) ==
  /\ phase = "desired"
  /\ taken < MaxItems
  /\ taken' = taken + 1
  /\ sorted' = sorted
  /\ bySubject' = Put(bySubject, it.acl.subject, it.acl.permission)
  /\ \/ /\ rejectConflicting(it.acl)
        /\ rejected' = rejected \cup {it}
        /\ UNCHANGED <<accepted, out>>
     \/ /\ ~rejectConflicting(it.acl)
        /\ accepted' = accepted \cup {it}
        /\ out' = Folded(out, it.acl, Attribution(it))
        /\ UNCHANGED rejected
  /\ UNCHANGED <<phase, todo, scope>>

(* One iteration of BuildDesiredSet's loop over element it.                *)
BuildDesiredSet(it) ==
  /\ phase = "desired"
  /\ taken < MaxItems
  /\ taken' = taken + 1
  /\ sorted' = (sorted /\ ~(it.acl.permission = "Allow"
                            /\ \E i \in accepted \cup rejected : i.acl = Opposite(it.acl)))
  /\ \/ /\ rejectConflicting(it.acl)
        /\ rejected' = rejected \cup {it}
        /\ UNCHANGED <<accepted, bySubject, out>>
     \/ /\ ~rejectConflicting(it.acl)
        /\ accepted' = accepted \cup {it}
        /\ bySubject' = Put(bySubject, it.acl.subject, it.acl.permission)
        /\ out' = Folded(out, it.acl, Attribution(it))
        /\ UNCHANGED rejected
  /\ UNCHANGED <<phase, todo, scope>>

(* Mutant: the scope is built from the unfiltered input.                   *)
StartScopeUnfiltered ==
  /\ phase = "desired"
  /\ phase' = "scope"
  /\ todo' = Tuples(accepted \cup rejected)
  /\ UNCHANGED <<taken, sorted, accepted, rejected, bySubject, out, scope>>

(* The slice is exhausted: BuildScope is called on the output.             *)
StartScope ==
  /\ phase = "desired"
  /\ phase' = "scope"
  /\ todo' = DOMAIN out
  /\ UNCHANGED <<taken, sorted, accepted, rejected, bySubject, out, scope>>

(* Mutant: an existing scope entry is kept as it is.                       *)
BuildScopeFirstWins(a) ==
  /\ phase = "scope"
  /\ a \in todo
  /\ todo' = todo \ {a}
  /\ scope' = IF scopeKeyOf(a) \in DOMAIN scope THEN scope
                                              ELSE Put(scope, scopeKeyOf(a), out[a])
  /\ UNCHANGED <<phase, taken, sorted, accepted, rejected, bySubject, out>>

(* One iteration of BuildScope's loop over the surviving tuple a.          *)
BuildScope(a) ==
  /\ phase = "scope"
  /\ a \in todo
  /\ todo' = todo \ {a}
  /\ scope' = Folded(scope, scopeKeyOf(a), out[a])
  /\ UNCHANGED <<phase, taken, sorted, accepted, rejected, bySubject, out>>

Return ==
  /\ phase = "scope"
  /\ todo = {}
  /\ phase' = "done"
  /\ UNCHANGED <<taken, sorted, accepted, rejected, bySubject, out, todo, scope>>

Next ==
  \/ \E it \in Item : BuildDesiredSet(it)
  \/ StartScope
  \/ \E a \in todo : BuildScope(a)
  \/ Return

Spec == Init /\ [][Next]_vars

-----------------------------------------------------------------------------
(* Properties.                                                             *)

(* The output never grants and denies one subject: BuildDesiredSet drops   *)
(* the permission that was not seen first, whatever the input order.       *)
NoConflictSurvives == \A a \in DOMAIN out : Opposite(a) \notin DOMAIN out

(* An element is rejected only against an accepted tuple of the opposite   *)
(* permission, so a rejection always names a conflict that really exists.  *)
RejectedHasAcceptedRival ==
  \A i \in rejected : \E j \in accepted : j.acl = Opposite(i.acl)

(* The merged attribution of a surviving tuple does not depend on the      *)
(* order of its contributors: it consents to pruning iff all of them do,   *)
(* and its mode is the most enforcing of theirs.                           *)
MergeIsOrderFree ==
  \A a \in DOMAIN out :
    LET contributors == {i \in accepted : i.acl = a} IN
      /\ out[a].prune <=> \A i \in contributors : i.prune
      /\ \E i \in contributors : out[a].mode = i.mode
      /\ \A i \in contributors : ModeRank(i.mode) <= ModeRank(out[a].mode)

(* The veto survives both folds: a scope entry consents to pruning iff     *)
(* every accepted contribution under it does, although BuildScope only     *)
(* sees tuples that BuildDesiredSet has already merged.                    *)
ScopeVeto ==
  phase = "done" =>
    \A k \in DOMAIN scope :
       scope[k].prune <=> \A i \in accepted : scopeKeyOf(i.acl) = k => i.prune

(* On a slice sorted by FullKey the walks compute exactly the set-level    *)
(* view of AccessSet, which the controller models use.                     *)
WalkComputesView ==
  phase = "done" /\ sorted =>
    LET all == accepted \cup rejected IN
      /\ DOMAIN out = DesiredUnion(all)
      /\ DOMAIN scope = ManagedScope(all)
      /\ {k \in DOMAIN scope : scope[k].prune} = ConsentedScope(all)

=============================================================================
