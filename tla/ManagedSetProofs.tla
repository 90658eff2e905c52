-------------------------- MODULE ManagedSetProofs --------------------------
(***************************************************************************)
(* Proofs about the walks of ManagedSet, for any subjects, scope keys and  *)
(* length of the input.                                                    *)
(***************************************************************************)
EXTENDS ManagedSet, TLAPS

(* The output holds exactly the accepted tuples, and the permission of     *)
(* each is the one recorded for its subject.                               *)
OutInv ==
  /\ DOMAIN out = Tuples(accepted)
  /\ \A a \in DOMAIN out : a.subject \in DOMAIN bySubject /\ bySubject[a.subject] = a.permission

(* A scope entry is the fold of the tuples visited so far.                 *)
ScopeInv ==
  /\ phase = "desired" => todo = {} /\ DOMAIN scope = {}
  /\ phase = "done" => todo = {}
  /\ phase # "desired" =>
       /\ todo \subseteq DOMAIN out
       /\ DOMAIN scope = {scopeKeyOf(a) : a \in DOMAIN out \ todo}
       /\ \A k \in DOMAIN scope :
            scope[k].prune <=>
              \A a \in DOMAIN out \ todo : scopeKeyOf(a) = k => out[a].prune

WalkInv == TypeOK /\ OutInv /\ MergeIsOrderFree /\ ScopeInv

-----------------------------------------------------------------------------

(* Ranks are numbers.                                                      *)
LEMMA ModeRankType == ASSUME NEW m \in Modes PROVE ModeRank(m) \in Nat
BY DEF Modes, ModeRank

(* The merge takes one of the two modes, the higher-ranked, and consents   *)
(* iff both do.                                                            *)
LEMMA MergeSpec ==
  ASSUME NEW x \in Info, NEW y \in Info
  PROVE  /\ MergeAttribution(x, y) \in Info
         /\ MergeAttribution(x, y).prune <=> x.prune /\ y.prune
         /\ MergeAttribution(x, y).mode \in {x.mode, y.mode}
         /\ ModeRank(x.mode) <= ModeRank(MergeAttribution(x, y).mode)
         /\ ModeRank(y.mode) <= ModeRank(MergeAttribution(x, y).mode)
<1>1. x.mode \in Modes /\ y.mode \in Modes /\ x.prune \in BOOLEAN /\ y.prune \in BOOLEAN
  BY DEF Info
<1>2. ModeRank(x.mode) \in Nat /\ ModeRank(y.mode) \in Nat
  BY <1>1, ModeRankType
<1>3. CASE ModeRank(y.mode) > ModeRank(x.mode)
  <2>1. MergeAttribution(x, y) = [mode |-> y.mode, prune |-> x.prune /\ y.prune]
    BY <1>3 DEF MergeAttribution
  <2>. QED  BY <1>1, <1>2, <1>3, <2>1 DEF Info
<1>4. CASE ~(ModeRank(y.mode) > ModeRank(x.mode))
  <2>1. MergeAttribution(x, y) = [mode |-> x.mode, prune |-> x.prune /\ y.prune]
    BY <1>4 DEF MergeAttribution
  <2>. QED  BY <1>1, <1>2, <1>4, <2>1 DEF Info
<1>. QED  BY <1>3, <1>4

(* An item's parts.                                                        *)
LEMMA ItemType ==
  ASSUME NEW it \in Item
  PROVE  /\ it.acl \in ACL /\ it.acl.subject \in Subjects /\ it.acl.permission \in Permissions
         /\ Attribution(it) \in Info
         /\ Attribution(it).mode = it.mode /\ Attribution(it).prune = it.prune
         /\ it.mode \in Modes /\ it.prune \in BOOLEAN
BY DEF Item, ACL, Attribution, Info

-----------------------------------------------------------------------------
(* Preservation, step by step.                                             *)

(* An element conflicts, or joins the output.                              *)
LEMMA DesiredStep ==
  ASSUME WalkInv, NEW it \in Item, BuildDesiredSet(it)
  PROVE  WalkInv'
<1>. USE DEF WalkInv
<1>0. /\ it.acl \in ACL /\ it.acl.subject \in Subjects /\ it.acl.permission \in Permissions
      /\ Attribution(it) \in Info
      /\ Attribution(it).mode = it.mode /\ Attribution(it).prune = it.prune
      /\ it.mode \in Modes /\ it.prune \in BOOLEAN
  BY ItemType
<1>s. /\ phase = "desired" /\ phase' = "desired" /\ todo = {} /\ DOMAIN scope = {}
      /\ UNCHANGED <<todo, scope>> /\ taken' = taken + 1 /\ sorted' \in BOOLEAN
  BY DEF BuildDesiredSet, ScopeInv
<1>c. ScopeInv'
  BY <1>s DEF ScopeInv
<1>1. CASE rejectConflicting(it.acl)
  <2>1. rejected' = rejected \cup {it} /\ UNCHANGED <<accepted, bySubject, out>>
    BY <1>1 DEF BuildDesiredSet
  <2>2. TypeOK'
    BY <1>s, <2>1 DEF TypeOK
  <2>3. OutInv' /\ MergeIsOrderFree'
    BY <2>1 DEF OutInv, MergeIsOrderFree, Tuples
  <2>. QED  BY <1>c, <2>2, <2>3
<1>2. CASE ~rejectConflicting(it.acl)
  <2>1. /\ accepted' = accepted \cup {it}
        /\ bySubject' = Put(bySubject, it.acl.subject, it.acl.permission)
        /\ out' = Folded(out, it.acl, Attribution(it))
        /\ UNCHANGED rejected
    BY <1>2 DEF BuildDesiredSet
  <2>2. /\ DOMAIN out' = DOMAIN out \cup {it.acl}
        /\ out' \in [DOMAIN out' -> Info]
        /\ \A x \in DOMAIN out : x # it.acl => out'[x] = out[x]
        /\ it.acl \notin DOMAIN out => out'[it.acl] = Attribution(it)
        /\ it.acl \in DOMAIN out => out'[it.acl] = MergeAttribution(out[it.acl], Attribution(it))
    <3>1. out \in [DOMAIN out -> Info]
      BY DEF TypeOK
    <3>. DEFINE k == it.acl
                info == Attribution(it)
                v == IF k \in DOMAIN out THEN MergeAttribution(out[k], info) ELSE info
    <3>2. v \in Info
      BY <1>0, <3>1, MergeSpec
    <3>3. out' = [x \in DOMAIN out \cup {k} |-> IF x = k THEN v ELSE out[x]]
      BY <2>1 DEF Folded, Put
    <3>4. (k \notin DOMAIN out => v = info) /\ (k \in DOMAIN out => v = MergeAttribution(out[k], info))
      OBVIOUS
    <3>. HIDE DEF k, info, v
    <3>5. /\ DOMAIN out' = DOMAIN out \cup {k}
          /\ out' \in [DOMAIN out' -> Info]
          /\ \A x \in DOMAIN out : x # k => out'[x] = out[x]
          /\ k \notin DOMAIN out => out'[k] = info
          /\ k \in DOMAIN out => out'[k] = MergeAttribution(out[k], info)
      BY <3>1, <3>2, <3>3, <3>4
    <3>. QED  BY <3>5 DEF k, info
  <2>3. /\ DOMAIN bySubject' = DOMAIN bySubject \cup {it.acl.subject}
        /\ bySubject' \in [DOMAIN bySubject' -> Permissions]
        /\ bySubject'[it.acl.subject] = it.acl.permission
        /\ \A x \in DOMAIN bySubject : bySubject'[x] = bySubject[x]
    <3>1. bySubject \in [DOMAIN bySubject -> Permissions]
      BY DEF TypeOK
    <3>2. it.acl.subject \in DOMAIN bySubject => bySubject[it.acl.subject] = it.acl.permission
      BY <1>2 DEF rejectConflicting
    <3>3. bySubject' = [x \in DOMAIN bySubject \cup {it.acl.subject} |->
                          IF x = it.acl.subject THEN it.acl.permission ELSE bySubject[x]]
      BY <2>1 DEF Put
    <3>. QED  BY <1>0, <3>1, <3>2, <3>3
  <2>4. TypeOK'
    BY <1>0, <1>s, <2>1, <2>2, <2>3 DEF TypeOK
  <2>5. OutInv'
    <3>1. DOMAIN out' = Tuples(accepted')
      BY <2>1, <2>2 DEF OutInv, Tuples
    <3>2. ASSUME NEW a \in DOMAIN out'
          PROVE  a.subject \in DOMAIN bySubject' /\ bySubject'[a.subject] = a.permission
      BY <2>2, <2>3, <3>2 DEF OutInv
    <3>. QED  BY <3>1, <3>2 DEF OutInv
  <2>6. MergeIsOrderFree'
    <3>. SUFFICES ASSUME NEW a \in DOMAIN out'
                  PROVE  /\ out'[a].prune <=> \A i \in accepted' : i.acl = a => i.prune
                         /\ \E i \in accepted' : i.acl = a /\ out'[a].mode = i.mode
                         /\ \A i \in accepted' : i.acl = a =>
                              ModeRank(i.mode) <= ModeRank(out'[a].mode)
      BY DEF MergeIsOrderFree
    <3>a. ASSUME a \in DOMAIN out
          PROVE  /\ out[a].prune <=> \A i \in accepted : i.acl = a => i.prune
                 /\ \E i \in accepted : i.acl = a /\ out[a].mode = i.mode
                 /\ \A i \in accepted : i.acl = a => ModeRank(i.mode) <= ModeRank(out[a].mode)
                 /\ out[a] \in Info
      BY <3>a DEF MergeIsOrderFree, TypeOK
    <3>1. CASE a # it.acl
      BY <2>1, <2>2, <3>a, <3>1
    <3>2. CASE a = it.acl /\ a \notin DOMAIN out
      <4>1. \A i \in accepted : i.acl # a
        BY <3>2 DEF OutInv, Tuples
      <4>2. ModeRank(it.mode) \in Nat
        BY <1>0, ModeRankType
      <4>. QED  BY <1>0, <2>1, <2>2, <3>2, <4>1, <4>2
    <3>3. CASE a = it.acl /\ a \in DOMAIN out
      <4>. DEFINE new == Attribution(it)
      <4>1. out'[a] = MergeAttribution(out[a], new)
        BY <2>2, <3>3
      <4>2. /\ out'[a] \in Info
            /\ out'[a].prune <=> out[a].prune /\ it.prune
            /\ out'[a].mode \in {out[a].mode, it.mode}
            /\ ModeRank(out[a].mode) <= ModeRank(out'[a].mode)
            /\ ModeRank(it.mode) <= ModeRank(out'[a].mode)
        BY <1>0, <3>a, <3>3, <4>1, MergeSpec
      <4>3. out'[a].prune <=> \A i \in accepted' : i.acl = a => i.prune
        BY <2>1, <3>a, <3>3, <4>2
      <4>4. \E i \in accepted' : i.acl = a /\ out'[a].mode = i.mode
        BY <2>1, <3>a, <3>3, <4>2
      <4>5. ASSUME NEW i \in accepted', i.acl = a
            PROVE  ModeRank(i.mode) <= ModeRank(out'[a].mode)
        <5>1. /\ ModeRank(out[a].mode) \in Nat /\ ModeRank(out'[a].mode) \in Nat
              /\ ModeRank(i.mode) \in Nat
          BY <2>4, <3>a, <3>3, <4>2, ModeRankType DEF Info, TypeOK, Item
        <5>2. CASE i = it
          BY <4>2, <5>2
        <5>3. CASE i \in accepted
          BY <3>a, <3>3, <4>2, <4>5, <5>1, <5>3
        <5>. QED  BY <2>1, <5>2, <5>3
      <4>. QED  BY <4>3, <4>4, <4>5
    <3>. QED  BY <2>2, <3>1, <3>2, <3>3
  <2>. QED  BY <1>c, <2>4, <2>5, <2>6
<1>. QED  BY <1>1, <1>2

(* The second walk.                                                        *)
LEMMA ScopeStep ==
  ASSUME WalkInv, NEW a \in todo, BuildScope(a)
  PROVE  WalkInv'
<1>. USE DEF WalkInv
<1>1. /\ phase = "scope" /\ phase' = "scope"
      /\ UNCHANGED <<taken, sorted, accepted, rejected, bySubject, out>>
      /\ todo' = todo \ {a} /\ scope' = Folded(scope, scopeKeyOf(a), out[a])
  BY DEF BuildScope
<1>2. a \in DOMAIN out /\ a \in ACL /\ out[a] \in Info /\ scopeKeyOf(a) \in ScopeKeys
  BY ScopeAssumption DEF TypeOK, ACL, scopeKeyOf
<1>3. /\ DOMAIN scope' = DOMAIN scope \cup {scopeKeyOf(a)}
      /\ scope' \in [DOMAIN scope' -> Info]
      /\ \A x \in DOMAIN scope : x # scopeKeyOf(a) => scope'[x] = scope[x]
      /\ scopeKeyOf(a) \notin DOMAIN scope => scope'[scopeKeyOf(a)] = out[a]
      /\ scopeKeyOf(a) \in DOMAIN scope =>
           scope'[scopeKeyOf(a)] = MergeAttribution(scope[scopeKeyOf(a)], out[a])
  <2>1. scope \in [DOMAIN scope -> Info]
    BY DEF TypeOK
  <2>. DEFINE k == scopeKeyOf(a)
              info == out[a]
              v == IF k \in DOMAIN scope THEN MergeAttribution(scope[k], info) ELSE info
  <2>2. v \in Info
    BY <1>2, <2>1, MergeSpec
  <2>3. scope' = [x \in DOMAIN scope \cup {k} |-> IF x = k THEN v ELSE scope[x]]
    BY <1>1 DEF Folded, Put
  <2>4. (k \notin DOMAIN scope => v = info) /\ (k \in DOMAIN scope => v = MergeAttribution(scope[k], info))
    OBVIOUS
  <2>. HIDE DEF k, info, v
  <2>5. /\ DOMAIN scope' = DOMAIN scope \cup {k}
        /\ scope' \in [DOMAIN scope' -> Info]
        /\ \A x \in DOMAIN scope : x # k => scope'[x] = scope[x]
        /\ k \notin DOMAIN scope => scope'[k] = info
        /\ k \in DOMAIN scope => scope'[k] = MergeAttribution(scope[k], info)
    BY <2>1, <2>2, <2>3, <2>4
  <2>. QED  BY <2>5 DEF k, info
<1>4. TypeOK'
  BY <1>1, <1>2, <1>3 DEF TypeOK
<1>5. OutInv' /\ MergeIsOrderFree'
  BY <1>1 DEF OutInv, MergeIsOrderFree, Tuples
<1>6. DOMAIN out' \ todo' = (DOMAIN out \ todo) \cup {a}
  BY <1>1, <1>2
<1>7. DOMAIN scope' = {scopeKeyOf(b) : b \in DOMAIN out' \ todo'}
  BY <1>1, <1>3, <1>6 DEF ScopeInv
<1>8. ASSUME NEW k \in DOMAIN scope'
      PROVE  scope'[k].prune <=>
               \A b \in DOMAIN out' \ todo' : scopeKeyOf(b) = k => out'[b].prune
  <2>1. k \in DOMAIN scope =>
          (scope[k].prune <=> \A b \in DOMAIN out \ todo : scopeKeyOf(b) = k => out[b].prune)
    BY <1>1 DEF ScopeInv
  <2>2. CASE k # scopeKeyOf(a)
    BY <1>1, <1>3, <1>6, <2>1, <2>2
  <2>3. CASE k = scopeKeyOf(a) /\ k \in DOMAIN scope
    <3>1. scope'[k].prune <=> scope[k].prune /\ out[a].prune
      BY <1>2, <1>3, <2>3, MergeSpec DEF TypeOK
    <3>. QED  BY <1>1, <1>6, <2>1, <2>3, <3>1
  <2>4. CASE k = scopeKeyOf(a) /\ k \notin DOMAIN scope
    <3>1. \A b \in DOMAIN out \ todo : scopeKeyOf(b) # k
      BY <1>1, <2>4 DEF ScopeInv
    <3>. QED  BY <1>1, <1>3, <1>6, <2>4, <3>1
  <2>. QED  BY <1>3, <2>2, <2>3, <2>4
<1>9. ScopeInv'
  BY <1>1, <1>4, <1>7, <1>8 DEF ScopeInv, TypeOK
<1>. QED  BY <1>4, <1>5, <1>9

(* WalkInv is an invariant.                                                *)
LEMMA WalkInvariant == Spec => []WalkInv
<1>1. Init => WalkInv
  BY DEF Init, Empty, WalkInv, TypeOK, OutInv, Tuples, MergeIsOrderFree, ScopeInv
<1>2. WalkInv /\ [Next]_vars => WalkInv'
  <2>. SUFFICES ASSUME WalkInv, [Next]_vars PROVE WalkInv'
    OBVIOUS
  <2>1. CASE StartScope
    BY <2>1 DEF StartScope, WalkInv, TypeOK, OutInv, Tuples, MergeIsOrderFree, ScopeInv
  <2>2. CASE Return
    BY <2>2 DEF Return, WalkInv, TypeOK, OutInv, Tuples, MergeIsOrderFree, ScopeInv
  <2>3. CASE UNCHANGED vars
    BY <2>3 DEF vars, WalkInv, TypeOK, OutInv, Tuples, MergeIsOrderFree, ScopeInv
  <2>. QED  BY <2>1, <2>2, <2>3, DesiredStep, ScopeStep DEF Next
<1>. QED  BY <1>1, <1>2, PTL DEF Spec

(* No output of BuildDesiredSet both allows and denies a subject.          *)
THEOREM NoConflict == Spec => []NoConflictSurvives
<1>1. WalkInv => NoConflictSurvives
  <2>. SUFFICES ASSUME WalkInv, NEW a \in DOMAIN out, Opposite(a) \in DOMAIN out
                PROVE  FALSE
    BY DEF NoConflictSurvives
  <2>1. a \in ACL
    BY DEF WalkInv, TypeOK
  <2>2. Opposite(a).subject = a.subject /\ Opposite(a).permission # a.permission
    BY <2>1 DEF Opposite, ACL, Permissions
  <2>. QED  BY <2>2 DEF WalkInv, OutInv
<1>. QED  BY <1>1, WalkInvariant, PTL

(* The merged attribution is that of the set of contributors: the order of *)
(* the input slice does not matter.                                        *)
THEOREM MergeOrderFree == Spec => []MergeIsOrderFree
<1>1. WalkInv => MergeIsOrderFree
  BY DEF WalkInv
<1>. QED  BY <1>1, WalkInvariant, PTL

(* One vetoing contributor anywhere under a scope key is enough, through   *)
(* both folds.                                                             *)
THEOREM VetoReachesScope == Spec => []ScopeVeto
<1>1. WalkInv => ScopeVeto
  <2>. SUFFICES ASSUME WalkInv, phase = "done", NEW k \in DOMAIN scope
                PROVE  scope[k].prune <=> \A i \in accepted : scopeKeyOf(i.acl) = k => i.prune
    BY DEF ScopeVeto
  <2>1. scope[k].prune <=> \A a \in DOMAIN out : scopeKeyOf(a) = k => out[a].prune
    BY DEF WalkInv, ScopeInv
  <2>2. \A a \in DOMAIN out : out[a].prune <=> \A i \in accepted : i.acl = a => i.prune
    BY DEF WalkInv, MergeIsOrderFree
  <2>3. \A i \in accepted : i.acl \in DOMAIN out
    BY DEF WalkInv, OutInv, Tuples
  <2>. QED  BY <2>1, <2>2, <2>3
<1>. QED  BY <1>1, WalkInvariant, PTL

(* The walk's maps and sets have their types at every step.                *)
THEOREM TypeCorrect == Spec => []TypeOK
<1>1. WalkInv => TypeOK
  BY DEF WalkInv
<1>. QED  BY <1>1, WalkInvariant, PTL

-----------------------------------------------------------------------------
(* The walk and the set-level view.                                        *)

(* The permission recorded for a subject is that of a tuple in the output; *)
(* what was rejected lost to an accepted rival; and in FullKey order only  *)
(* a "Deny" can lose.                                                      *)
OrderInv ==
  /\ \A s \in DOMAIN bySubject : [subject |-> s, permission |-> bySubject[s]] \in DOMAIN out
  /\ RejectedHasAcceptedRival
  /\ sorted => \A i \in rejected : i.acl.permission = "Deny"

(* The opposite of a tuple is a tuple of the same subject.                 *)
LEMMA OppositeType ==
  ASSUME NEW a \in ACL
  PROVE  /\ Opposite(a) \in ACL /\ Opposite(Opposite(a)) = a
         /\ Opposite(a).subject = a.subject /\ Opposite(a).permission # a.permission
         /\ \A b \in ACL : b.subject = a.subject => b = a \/ b = Opposite(a)
<1>1. PICK s \in Subjects, p \in Permissions : a = [subject |-> s, permission |-> p]
  BY DEF ACL
<1>2. Opposite(a) = [subject |-> s, permission |-> IF p = "Allow" THEN "Deny" ELSE "Allow"]
  BY <1>1 DEF Opposite
<1>3. \A q \in Permissions :
        Opposite([subject |-> s, permission |-> q])
          = [subject |-> s, permission |-> IF q = "Allow" THEN "Deny" ELSE "Allow"]
  BY DEF Opposite
<1>4. Opposite(Opposite(a)) = a
  <2>1. CASE p = "Allow"
    <3>1. Opposite(a) = [subject |-> s, permission |-> "Deny"]
      BY <1>2, <2>1
    <3>. QED  BY <1>1, <1>3, <2>1, <3>1 DEF Permissions
  <2>2. CASE p = "Deny"
    <3>1. Opposite(a) = [subject |-> s, permission |-> "Allow"]
      BY <1>2, <2>2
    <3>. QED  BY <1>1, <1>3, <2>2, <3>1 DEF Permissions
  <2>. QED  BY <2>1, <2>2 DEF Permissions
<1>. QED  BY <1>1, <1>2, <1>4 DEF ACL, Permissions

(* An element that is rejected has met the permission recorded first.      *)
LEMMA OrderStep ==
  ASSUME WalkInv, WalkInv', OrderInv, NEW it \in Item, BuildDesiredSet(it)
  PROVE  OrderInv'
<1>0. it.acl \in ACL /\ it.acl.subject \in Subjects /\ it.acl.permission \in Permissions
  BY ItemType
<1>1. CASE rejectConflicting(it.acl)
  <2>1. rejected' = rejected \cup {it} /\ UNCHANGED <<accepted, bySubject, out>>
    BY <1>1 DEF BuildDesiredSet
  <2>. DEFINE rival == [subject |-> it.acl.subject, permission |-> bySubject[it.acl.subject]]
  <2>2. rival \in DOMAIN out /\ rival \in ACL /\ rival # it.acl /\ rival.subject = it.acl.subject
    BY <1>0, <1>1 DEF rejectConflicting, OrderInv, WalkInv, TypeOK, ACL
  <2>3. rival = Opposite(it.acl)
    BY <1>0, <2>2, OppositeType
  <2>4. PICK j \in accepted : j.acl = Opposite(it.acl)
    BY <2>2, <2>3 DEF WalkInv, OutInv, Tuples
  <2>5. RejectedHasAcceptedRival'
    BY <2>1, <2>4 DEF OrderInv, RejectedHasAcceptedRival
  <2>6. ASSUME sorted' PROVE \A i \in rejected' : i.acl.permission = "Deny"
    <3>1. sorted /\ it.acl.permission # "Allow"
      BY <2>4, <2>6 DEF BuildDesiredSet, WalkInv, TypeOK
    <3>. QED  BY <1>0, <2>1, <3>1 DEF OrderInv, Permissions
  <2>. QED  BY <2>1, <2>5, <2>6 DEF OrderInv
<1>2. CASE ~rejectConflicting(it.acl)
  <2>1. /\ accepted' = accepted \cup {it} /\ UNCHANGED rejected
        /\ bySubject' = Put(bySubject, it.acl.subject, it.acl.permission)
    BY <1>2 DEF BuildDesiredSet
  <2>2. sorted' => sorted
    BY DEF BuildDesiredSet, WalkInv, TypeOK
  <2>3. RejectedHasAcceptedRival'
    BY <2>1 DEF OrderInv, RejectedHasAcceptedRival
  <2>4. DOMAIN out' = Tuples(accepted') /\ DOMAIN out = Tuples(accepted)
    BY DEF WalkInv, OutInv
  <2>5. ASSUME NEW s \in DOMAIN bySubject'
        PROVE  [subject |-> s, permission |-> bySubject'[s]] \in DOMAIN out'
    <3>1. CASE s = it.acl.subject
      <4>1. [subject |-> s, permission |-> bySubject'[s]] = it.acl
        BY <1>0, <2>1, <3>1 DEF Put, ACL
      <4>. QED  BY <2>1, <2>4, <4>1 DEF Tuples
    <3>2. CASE s # it.acl.subject
      <4>1. s \in DOMAIN bySubject /\ bySubject'[s] = bySubject[s]
        BY <2>1, <2>5, <3>2 DEF Put
      <4>2. Tuples(accepted) \subseteq Tuples(accepted')
        BY <2>1 DEF Tuples
      <4>. QED  BY <2>4, <4>1, <4>2 DEF OrderInv
    <3>. QED  BY <3>1, <3>2
  <2>. QED  BY <2>1, <2>2, <2>3, <2>5 DEF OrderInv
<1>. QED  BY <1>1, <1>2

(* The order invariant holds with the walk invariant.                      *)
LEMMA OrderInvariant == Spec => []OrderInv
<1>1. Init => OrderInv
  BY DEF Init, Empty, OrderInv, RejectedHasAcceptedRival
<1>2. WalkInv /\ WalkInv' /\ OrderInv /\ [Next]_vars => OrderInv'
  <2>. SUFFICES ASSUME WalkInv, WalkInv', OrderInv, [Next]_vars PROVE OrderInv'
    OBVIOUS
  <2>1. CASE UNCHANGED <<sorted, accepted, rejected, bySubject, out>>
    BY <2>1 DEF OrderInv, RejectedHasAcceptedRival
  <2>. QED  BY <2>1, OrderStep DEF Next, StartScope, BuildScope, Return, vars
<1>. QED  BY <1>1, <1>2, WalkInvariant, PTL DEF Spec

(* A rejection always names a conflict that really exists: the tuple it    *)
(* lost to is in the output.                                               *)
THEOREM RejectionsAreReal == Spec => []RejectedHasAcceptedRival
<1>1. OrderInv => RejectedHasAcceptedRival
  BY DEF OrderInv
<1>. QED  BY <1>1, OrderInvariant, PTL

(* On a slice in FullKey order the output is the set-level union.          *)
LEMMA OutIsDesiredUnion ==
  ASSUME WalkInv, OrderInv, NoConflictSurvives, sorted
  PROVE  /\ DOMAIN out = DesiredUnion(accepted \cup rejected)
         /\ \A i \in accepted : ~Dropped(accepted \cup rejected, i.acl)
         /\ \A i \in rejected : Dropped(accepted \cup rejected, i.acl)
<1>. DEFINE all == accepted \cup rejected
<1>1. /\ accepted \subseteq Item /\ rejected \subseteq Item
      /\ \A i \in all : i.acl \in ACL
  BY DEF WalkInv, TypeOK, Item
<1>2. DOMAIN out = Tuples(accepted)
  BY DEF WalkInv, OutInv
<1>3. ASSUME NEW i \in accepted PROVE ~Dropped(all, i.acl)
  <2>. SUFFICES ASSUME Dropped(all, i.acl) PROVE FALSE
    OBVIOUS
  <2>1. i.acl.permission = "Deny" /\ i.acl.subject \in Contested(all)
    BY DEF Dropped
  <2>2. PICK b \in Tuples(all) : Opposite(b) \in Tuples(all) /\ b.subject = i.acl.subject
    BY <2>1 DEF Contested
  <2>3. b \in ACL
    BY <1>1, <2>2 DEF Tuples
  <2>4. Opposite(i.acl) \in Tuples(all)
    BY <1>1, <2>2, <2>3, OppositeType
  <2>5. PICK j \in all : j.acl = Opposite(i.acl)
    BY <2>4 DEF Tuples
  <2>6. i.acl \in ACL /\ j.acl.permission # "Deny"
    BY <1>1, <2>1, <2>5, OppositeType
  <2>7. j \in accepted
    BY <2>6 DEF OrderInv
  <2>8. i.acl \in DOMAIN out /\ Opposite(i.acl) \in DOMAIN out
    BY <1>2, <2>5, <2>7 DEF Tuples
  <2>. QED  BY <2>8 DEF NoConflictSurvives
<1>4. ASSUME NEW i \in rejected PROVE Dropped(all, i.acl)
  <2>1. i.acl.permission = "Deny"
    BY DEF OrderInv
  <2>2. PICK j \in accepted : j.acl = Opposite(i.acl)
    BY DEF OrderInv, RejectedHasAcceptedRival
  <2>3. i.acl \in Tuples(all) /\ Opposite(i.acl) \in Tuples(all)
    BY <2>2 DEF Tuples
  <2>4. i.acl.subject \in Contested(all)
    BY <2>3 DEF Contested
  <2>. QED  BY <2>1, <2>4 DEF Dropped
<1>5. DOMAIN out = DesiredUnion(all)
  <2>1. \A a \in Tuples(accepted) : a \in Tuples(all) /\ ~Dropped(all, a)
    BY <1>3 DEF Tuples
  <2>2. \A a \in Tuples(all) : ~Dropped(all, a) => a \in Tuples(accepted)
    BY <1>4 DEF Tuples
  <2>. HIDE DEF all
  <2>. QED  BY <1>2, <2>1, <2>2 DEF DesiredUnion
<1>. QED  BY <1>3, <1>4, <1>5

(* On a slice in FullKey order BuildDesiredSet and BuildScope compute the  *)
(* view the controller models are written with: the union, its scope keys  *)
(* and the ones everybody consents to prune.                               *)
THEOREM WalksComputeTheView == Spec => []WalkComputesView
<1>1. WalkInv /\ OrderInv /\ NoConflictSurvives /\ ScopeVeto => WalkComputesView
  <2>. SUFFICES ASSUME WalkInv, OrderInv, NoConflictSurvives, ScopeVeto, phase = "done", sorted
                PROVE  LET all == accepted \cup rejected IN
                         /\ DOMAIN out = DesiredUnion(all)
                         /\ DOMAIN scope = ManagedScope(all)
                         /\ {k \in DOMAIN scope : scope[k].prune} = ConsentedScope(all)
    BY DEF WalkComputesView
  <2>. DEFINE all == accepted \cup rejected
  <2>1. /\ DOMAIN out = DesiredUnion(all)
        /\ \A i \in accepted : ~Dropped(all, i.acl)
        /\ \A i \in rejected : Dropped(all, i.acl)
    BY OutIsDesiredUnion
  <2>2. DOMAIN scope = ManagedScope(all)
    BY <2>1 DEF WalkInv, ScopeInv, ManagedScope
  <2>3. \A k \in DOMAIN scope :
          scope[k].prune <=> \A i \in accepted : scopeKeyOf(i.acl) = k => i.prune
    BY DEF ScopeVeto
  <2>4. \A k \in DOMAIN scope :
          scope[k].prune <=>
            \A i \in all : scopeKeyOf(i.acl) = k /\ ~Dropped(all, i.acl) => i.prune
    BY <2>1, <2>3
  <2>5. {k \in DOMAIN scope : scope[k].prune} = ConsentedScope(all)
    <3>. HIDE DEF all
    <3>. QED  BY <2>2, <2>4 DEF ConsentedScope
  <2>. QED  BY <2>1, <2>2, <2>5
<1>. QED  BY <1>1, WalkInvariant, OrderInvariant, NoConflict, VetoReachesScope, PTL

=============================================================================
