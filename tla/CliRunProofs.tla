---------------------------- MODULE CliRunProofs ----------------------------
(***************************************************************************)
(* What TLAPS proves of CliRun, for any set of runs, any declarations, any *)
(* states of the cluster and the link, and any number of changes and       *)
(* faults.  The argument is about one run at a time: RunInv(r) relates     *)
(* what the run has read, has left to do and has reported to the live      *)
(* cluster, and the steps of everybody else either leave the cluster alone *)
(* or are noted in changed[r] (Apart).                                     *)
(***************************************************************************)
EXTENDS CliRun, TLAPS

(***************************************************************************)
(* The inductive invariant.                                                *)
(***************************************************************************)

(* Before there is a plan.                                                 *)
Planning(r) == pc[r] \in {"idle", "plan"} \/ (pc[r] \in Reading /\ ops[r] = {})

(* The mirror writer is at work: it reads, checks or posts.                *)
AtWriter(r) == pc[r] \in {"check", "post"} \/ (pc[r] \in Reading /\ ops[r] # {})

Executing(r) == pc[r] = "exec" \/ AtWriter(r)

(* Where a run is, and what it then can hold.                              *)
PlaceInv(r) ==
  /\ pc[r] \in {"idle", "topics", "acls", "plan"} => ops[r] = {}
  /\ Planning(r) => results[r] = {} /\ failedTopics[r] = {}
  /\ exit[r] # -1 => pc[r] = "done"
  /\ AtWriter(r) => \E a \in Posts : IsNext(a, ops[r])
  /\ Executing(r) => cmd[r] = "apply"
  /\ pc[r] \notin {"plan", "check", "done"} => ~got[r].complete

(* A POST is planned for a mirror only, one at most, and nothing of it is  *)
(* out before it is dispatched.                                            *)
Unsent(r) == landed[r] = 0 /\ \A a \in Posts : <<r, a>> \notin late

PostInv(r) ==
  /\ \A a \in Posts : a \in ops[r] => decl[r].kind = "mirror"
  /\ ~(Posts \subseteq ops[r])
  /\ Planning(r) => Unsent(r)
  /\ \A a \in Posts : a \in ops[r] => Unsent(r)
  /\ landed[r] \in {0, 1}
  /\ \A a \in Posts : <<r, a>> \in late => landed[r] = 0 /\ decl[r].kind = "mirror"
  /\ \A a, b \in Posts : <<r, a>> \in late /\ <<r, b>> \in late => a = b

(* A failed creation is remembered, and a grant was tried only after every *)
(* creation was.                                                           *)
CreateFailed(r) == \E res \in results[r] : res.action \in Creates /\ res.status = "Failed"

AclTried(r) ==
  \E res \in results[r] : res.action = "CreateAcl" /\ res.status \in {"Succeeded", "Failed"}

DependInv(r) ==
  /\ CreateFailed(r) => Name \in failedTopics[r]
  /\ AclTried(r) => ~CreateFailed(r) /\ Creates \cap ops[r] = {}

(* What was read is what there is, as long as nobody interferes.           *)
ViewInv(r) ==
  /\ "write" \in changed[r] => "run" \in changed[r]
  /\ "write" \notin changed[r] =>
       /\ pc[r] \notin {"idle", "topics"} /\ Planning(r) /\ decl[r].kind = "topic" =>
            got[r].live = topic
       /\ pc[r] \notin {"idle", "topics", "acls"} /\ Planning(r) => got[r].acl = acl
       /\ pc[r] \in {"mirrors", "links", "configs"} => got[r].topic = topic
       /\ pc[r] \in {"links", "configs"} => got[r].entry = entry
       /\ pc[r] = "configs" => got[r].link = link
       /\ pc[r] \in {"plan", "check"} /\ got[r].complete =>
            got[r].topic = topic /\ got[r].entry = entry /\ got[r].link = link

(* What WritesMeetTheRules asks, of the action that is about to be posted. *)
Permitted(r, a) ==
  /\ link.exists /\ KeyIsFree(link, decl[r])
  /\ IF a = "CreateMirrorTopic"
       THEN /\ ~topic.exists /\ entry = NoEntry
            /\ LinkActive(link) /\ CheckPrefix(link, decl[r])
       ELSE /\ SameMirror(entry, decl[r])
            /\ entry.status \notin Stopping \cup Stopped

CheckInv(r) ==
  pc[r] = "post" /\ "write" \notin changed[r] =>
    \A a \in Posts : IsNext(a, ops[r]) => Permitted(r, a)

(* Actions no apply gets past.                                             *)
Stuck == {"Rejected", "StateReadError"} \cup TerminalFindings

(* What the cluster lacks of the declaration, the actions left will bring. *)
Wanted(r, left) ==
  /\ acl \/ "CreateAcl" \in left
  /\ decl[r].kind = "mirror" =>
       \/ "CreateMirrorTopic" \in left
       \/ /\ topic.exists /\ entry.status \in Healthy \cup Progressing
          /\ SameMirror(entry, decl[r])
          /\ decl[r].rf > 0 => topic.rf = decl[r].rf
          /\ decl[r].cfg \in {"unset", topic.cfg} \/ "UpdateMirrorTopicConfig" \in left
  /\ decl[r].kind = "topic" =>
       /\ rest => entry.status \in {"none"} \cup Stopped
       /\ \/ "CreateTopic" \in left
          \/ /\ topic.exists
             /\ decl[r].cfg \in {"unset", topic.cfg} \/ "UpdateTopicConfig" \in left

OnCourse(r, left) == (\E a \in left : a \in Stuck) \/ Wanted(r, left)

TruthInv(r) ==
  /\ Executing(r) /\ decl[r].mode = "Enforce" /\ "run" \notin changed[r] /\ ResultOK(results[r])
       => OnCourse(r, ops[r])
  /\ /\ exit[r] = 0 /\ "run" \notin changed[r]
     /\ IF cmd[r] = "apply" THEN decl[r].mode = "Enforce" ELSE decl[r].mode # "ObserveOnly"
     => InSync(decl[r])

RunInv(r) ==
  PlaceInv(r) /\ PostInv(r) /\ DependInv(r) /\ ViewInv(r) /\ CheckInv(r) /\ TruthInv(r)

EntryInv == entry.status = "none" => entry = NoEntry

CliInv == TypeOK /\ EntryInv /\ \A r \in Runs : RunInv(r)

(***************************************************************************)
(* The executor's order.                                                   *)
(***************************************************************************)

(* The taxonomy is a list of 21 names.                                     *)
LEMMA NamesDomain == DOMAIN ByName = 1..21
  BY DEF ByName

(* The actions this module speaks of are actions of the taxonomy.          *)
LEMMA ActionNames ==
  /\ {"CreateTopic", "UpdateTopicConfig", "CreateAcl", "CreateMirrorTopic",
      "UpdateMirrorTopicConfig"} \subseteq Actions
  /\ {"Rejected", "StateReadError", "MirrorTopicUnhealthy", "MirrorTopicProgressing",
      "MirrorTopicPromoted", "MirrorTopicStopping", "UnsupportedReplicationFactorChange"}
       \subseteq Actions
<1>1. \A i \in 1..21 : ByName[i] \in Actions
  BY NamesDomain DEF Actions
<1>2. /\ ByName[2] = "CreateAcl" /\ ByName[3] = "CreateMirrorTopic" /\ ByName[4] = "CreateTopic"
      /\ ByName[8] = "MirrorTopicProgressing" /\ ByName[9] = "MirrorTopicPromoted"
      /\ ByName[10] = "MirrorTopicStopping" /\ ByName[11] = "MirrorTopicUnhealthy"
      /\ ByName[14] = "Rejected" /\ ByName[17] = "StateReadError"
      /\ ByName[18] = "UnsupportedReplicationFactorChange"
      /\ ByName[19] = "UpdateMirrorTopicConfig" /\ ByName[21] = "UpdateTopicConfig"
  BY DEF ByName
<1> QED
  BY <1>1, <1>2

(* No name is listed twice.                                                *)
LEMMA NamesDiffer == \A i, j \in 1..21 : ByName[i] = ByName[j] => i = j
  BY DEF ByName

(* The order of rendering is strict.                                       *)
LEMMA RenderOrderStrict == \A a, b : ~(<<a, b>> \in RenderOrder /\ <<b, a>> \in RenderOrder)
<1> SUFFICES ASSUME NEW a, NEW b, <<a, b>> \in RenderOrder, <<b, a>> \in RenderOrder
             PROVE  FALSE
  OBVIOUS
<1>1. PICK i, j \in 1..21 : i < j /\ <<a, b>> = <<ByName[i], ByName[j]>>
  BY NamesDomain DEF RenderOrder
<1>2. PICK k, l \in 1..21 : k < l /\ <<b, a>> = <<ByName[k], ByName[l]>>
  BY NamesDomain DEF RenderOrder
<1>3. i = l /\ j = k
  BY <1>1, <1>2, NamesDiffer
<1> QED
  BY <1>1, <1>2, <1>3

(* One action at most is next: execution is a sequence.                    *)
LEMMA OneIsNext == ASSUME NEW left, NEW a, NEW b, IsNext(a, left), IsNext(b, left) PROVE a = b
<1> SUFFICES ASSUME a # b PROVE FALSE
  OBVIOUS
<1>1. <<a, b>> \in executionOrder /\ <<b, a>> \in executionOrder
  BY DEF IsNext
<1>2. Group(a) \in Nat /\ Group(b) \in Nat
  BY DEF Group
<1>3. /\ Group(a) = Group(b)
      /\ <<a, b>> \in RenderOrder /\ <<b, a>> \in RenderOrder
  BY <1>1, <1>2 DEF executionOrder
<1> QED
  BY <1>3, RenderOrderStrict

(* A grant has its turn when no creation is left.                          *)
LEMMA GrantsComeLast ==
  ASSUME NEW left, IsNext("CreateAcl", left) PROVE Creates \cap left = {}
<1> SUFFICES ASSUME NEW c \in Creates, c \in left PROVE FALSE
  OBVIOUS
<1>1. Group("CreateAcl") = 1 /\ Group(c) = 0
  BY DEF Group, Creates, ACLActions, SchemaActions, RoleBindingActions
<1>2. <<"CreateAcl", c>> \in executionOrder
  BY DEF IsNext, Creates
<1> QED
  BY <1>1, <1>2 DEF executionOrder

(***************************************************************************)
(* Everybody else's steps: nothing of the run moves, and what moves on the *)
(* cluster is noted.                                                       *)
(***************************************************************************)
Untouched(r) ==
  /\ pc'[r] = pc[r] /\ decl'[r] = decl[r] /\ cmd'[r] = cmd[r] /\ got'[r] = got[r]
  /\ ops'[r] = ops[r] /\ results'[r] = results[r] /\ failedTopics'[r] = failedTopics[r]
  /\ exit'[r] = exit[r] /\ landed'[r] = landed[r]
  /\ \A a \in Posts : <<r, a>> \in late' <=> <<r, a>> \in late

Noted(r) ==
  /\ rest' = rest
  /\ \/ topic' = topic /\ entry' = entry /\ link' = link /\ acl' = acl /\ changed'[r] = changed[r]
     \/ changed'[r] = {"run", "write"}

(* A run that is left alone keeps its invariant.                           *)
LEMMA ApartKeeps ==
  ASSUME NEW r \in Runs, RunInv(r), Untouched(r), Noted(r) PROVE RunInv(r)'
<1> USE DEF Untouched, Noted
<1>0. /\ Planning(r)' = Planning(r) /\ AtWriter(r)' = AtWriter(r)
      /\ Executing(r)' = Executing(r) /\ Unsent(r)' = Unsent(r)
      /\ CreateFailed(r)' = CreateFailed(r) /\ AclTried(r)' = AclTried(r)
  BY DEF Planning, AtWriter, Executing, Unsent, CreateFailed, AclTried
<1>1. PlaceInv(r)'
  BY <1>0 DEF RunInv, PlaceInv
<1>2. PostInv(r)'
  BY <1>0 DEF RunInv, PostInv
<1>3. DependInv(r)'
  BY <1>0 DEF RunInv, DependInv
<1>4. ViewInv(r)'
  BY <1>0 DEF RunInv, ViewInv
<1>5. CheckInv(r)'
  BY DEF RunInv, CheckInv, Permitted
<1>6. TruthInv(r)'
  BY <1>0 DEF RunInv, TruthInv, OnCourse, Wanted, InSync
<1> QED
  BY <1>1, <1>2, <1>3, <1>4, <1>5, <1>6 DEF RunInv

(* What one run does leaves every other one alone.                         *)
LEMMA OthersAreApart ==
  ASSUME TypeOK, NEW s \in Runs, NEW r \in Runs, r # s, Step(s)
  PROVE  Untouched(r) /\ Noted(r)
<1> USE DEF TypeOK, Untouched, Noted, Goto, cluster, local
<1>1. CASE Start(s)
  BY <1>1 DEF Start
<1>2. CASE Get(s)
  BY <1>2 DEF Get
<1>3. CASE GetFails(s)
  BY <1>3 DEF GetFails
<1>4. CASE Compute(s)
  BY <1>4 DEF Compute
<1>5. CASE NotDispatched(s)
  BY <1>5 DEF NotDispatched, Record
<1>6. CASE CreateTopic(s)
  BY <1>6 DEF CreateTopic, AdminCall, Record, Disturb
<1>7. CASE UpdateTopicConfig(s)
  BY <1>7 DEF UpdateTopicConfig, AdminCall, Record, Disturb
<1>8. CASE CreateACLs(s)
  BY <1>8 DEF CreateACLs, AdminCall, Record, Disturb
<1>9. CASE WriterReads(s)
  BY <1>9 DEF WriterReads
<1>10. CASE WriterChecks(s)
  BY <1>10 DEF WriterChecks, Record
<1>11. CASE Post(s)
  BY <1>11 DEF Post, Answered, Unanswered, Land, Record, Disturb
<1>12. CASE Finish(s)
  BY <1>12 DEF Finish
<1> QED
  BY <1>1, <1>2, <1>3, <1>4, <1>5, <1>6, <1>7, <1>8, <1>9, <1>10, <1>11, <1>12 DEF Step

(* So does everybody who is not a run.                                     *)
Environment == MirrorMoves \/ TopicDeleted \/ TopicCreated \/ ConfigChanged \/ LinkChanged

(* What everybody else does leaves each run where it was.                  *)
LEMMA EnvironmentIsApart ==
  ASSUME Environment, NEW r \in Runs PROVE Untouched(r) /\ Noted(r)
<1>1. r # "nobody"
  BY CliAssumption
<1> QED
  BY <1>1 DEF Environment, MirrorMoves, TopicDeleted, TopicCreated, ConfigChanged, LinkChanged,
              Env, Disturb, Untouched, Noted, local

(* A change by somebody else leaves a cluster of the declared shape.       *)
LEMMA EnvironmentKeepsTypes ==
  ASSUME TypeOK, EntryInv, Environment PROVE TypeOK' /\ EntryInv'
<1> USE DEF Topic, Values
<1>1. /\ rest' = rest /\ acl' = acl /\ UNCHANGED <<pc, local, late, landed, faults>>
      /\ changed' \in [Runs -> SUBSET {"run", "write"}]
      /\ envOps' \in Nat
  BY DEF TypeOK, Environment, MirrorMoves, TopicDeleted, TopicCreated, ConfigChanged, LinkChanged,
         Env, Disturb
<1>2. topic' \in Topic /\ entry' \in Entry /\ link' \in Links /\ EntryInv'
  <2>1. CASE MirrorMoves
    <3>1. PICK to \in {<<"PENDING_MIRROR", "ACTIVE">>, <<"ACTIVE", "PAUSED">>,
                       <<"ACTIVE", "PENDING_STOPPED">>, <<"PENDING_STOPPED", "STOPPED">>} :
            entry.status = to[1] /\ entry' = [entry EXCEPT !.status = to[2]]
      BY <2>1 DEF MirrorMoves, Env
    <3>2. /\ to[2] \in {"ACTIVE", "PAUSED", "PENDING_STOPPED", "STOPPED"}
          /\ topic' = topic /\ link' = link
      BY <2>1 DEF MirrorMoves, Env
    <3> QED
      BY <3>1, <3>2 DEF TypeOK, EntryInv, Entry, Healthy, Unhealthy, Stopping, Stopped
  <2>2. CASE TopicDeleted
    BY <2>2 DEF TopicDeleted, Env, TypeOK, EntryInv, Entry, NoEntry, NoTopic
  <2>3. CASE TopicCreated
    BY <2>3 DEF TopicCreated, Env, TypeOK, EntryInv
  <2>4. CASE ConfigChanged
    BY <2>4 DEF ConfigChanged, Env, TypeOK, EntryInv
  <2>5. CASE LinkChanged
    BY <2>5 DEF LinkChanged, Env, TypeOK, EntryInv
  <2> QED
    BY <2>1, <2>2, <2>3, <2>4, <2>5 DEF Environment
<1> QED
  BY <1>1, <1>2 DEF TypeOK, local

(***************************************************************************)
(* The POST.                                                               *)
(***************************************************************************)

(* The server leaves a cluster of the declared shape, whoever posts.       *)
LEMMA LandKeepsTypes ==
  ASSUME TypeOK, EntryInv, NEW r \in Runs, NEW a \in Posts, Land(r, a), decl[r].kind = "mirror"
  PROVE  /\ topic' \in Topic /\ entry' \in Entry /\ EntryInv'
         /\ rest' = rest /\ link' = link /\ acl' = acl
         /\ landed' = [landed EXCEPT ![r] = landed[r] + 1]
<1>1. decl[r] \in Declared /\ decl[r] \in Mirrorings
  BY DEF TypeOK, Mirrorings
<1>2. decl[r].cfg \in Values /\ decl[r].rf \in 0..3
  BY <1>1, CliAssumption
<1>3. CASE a = "CreateMirrorTopic"
  <2>1. topic' = [exists |-> TRUE, cfg |-> decl[r].cfg,
                  rf |-> IF decl[r].rf > 0 THEN decl[r].rf ELSE 1]
    BY <1>3 DEF Land, Serve
  <2>2. entry' = [status |-> "PENDING_MIRROR", link |-> decl[r].link, source |-> decl[r].source]
    BY <1>3 DEF Land, Serve
  <2>3. decl[r].link \in {d.link : d \in Mirrorings} /\ decl[r].source \in {d.source : d \in Mirrorings}
    BY <1>1
  <2>4. entry' \in Entry /\ EntryInv'
    BY <2>2, <2>3 DEF Entry, EntryInv, Progressing
  <2>5. (IF decl[r].rf > 0 THEN decl[r].rf ELSE 1) \in 0..3
    BY <1>2
  <2>6. topic' \in Topic
    BY <1>2, <2>1, <2>5 DEF Topic
  <2> QED
    BY <2>4, <2>6 DEF Land
<1>4. CASE a # "CreateMirrorTopic"
  BY <1>2, <1>4 DEF Land, Serve, TypeOK, Topic, EntryInv
<1> QED
  BY <1>3, <1>4

(* A POST that was given up on takes effect, or is refused at last.        *)
LEMMA LateKeeps ==
  ASSUME CliInv, DeliverLate PROVE CliInv'
<1>1. PICK m \in late :
        /\ late' = late \ {m}
        /\ \/ Land(m[1], m[2]) /\ Disturb("nobody")
           \/ ~Accepts(m[2]) /\ UNCHANGED <<cluster, landed, changed>>
        /\ UNCHANGED <<pc, local, envOps, faults>>
  BY DEF DeliverLate
<1>2. PICK s \in Runs, a \in Posts : m = <<s, a>>
  BY <1>1 DEF CliInv, TypeOK
<1>3. RunInv(s) /\ decl[s].kind = "mirror" /\ landed[s] = 0 /\ landed[s] \in Nat
  BY <1>1, <1>2 DEF CliInv, RunInv, PostInv
<1>4. "nobody" \notin Runs
  BY CliAssumption
<1>5. /\ topic' \in Topic /\ entry' \in Entry /\ EntryInv'
      /\ rest' = rest /\ link' = link /\ acl' = acl
      /\ landed' = [landed EXCEPT ![s] = landed[s] + 1] \/ landed' = landed
  <2>1. CASE Land(m[1], m[2])
    <3>1. Land(s, a)
      BY <1>2, <2>1
    <3> QED
      BY <1>3, <3>1, LandKeepsTypes DEF CliInv
  <2>2. CASE UNCHANGED <<cluster, landed, changed>>
    BY <2>2 DEF CliInv, TypeOK, EntryInv, cluster
  <2> QED
    BY <1>1, <2>1, <2>2
<1>6. \/ \A r \in Runs : changed'[r] = {"run", "write"}
      \/ changed' = changed /\ topic' = topic /\ entry' = entry
  BY <1>1, <1>4 DEF Disturb, cluster
<1>7. changed' \in [Runs -> SUBSET {"run", "write"}]
  BY <1>1 DEF Disturb, CliInv, TypeOK, cluster
<1>8. TypeOK'
  BY <1>1, <1>3, <1>5, <1>7 DEF CliInv, TypeOK, local
<1>9. ASSUME NEW r \in Runs, r # s PROVE RunInv(r)'
  <2>1. Untouched(r)
    BY <1>1, <1>2, <1>5, <1>9 DEF Untouched, local, CliInv, TypeOK
  <2>2. Noted(r)
    BY <1>5, <1>6 DEF Noted
  <2> QED
    BY <2>1, <2>2, ApartKeeps DEF CliInv
<1>10. RunInv(s)'
  <2> USE <1>1 DEF local
  <2>0. /\ Planning(s)' = Planning(s) /\ AtWriter(s)' = AtWriter(s)
        /\ Executing(s)' = Executing(s)
        /\ CreateFailed(s)' = CreateFailed(s) /\ AclTried(s)' = AclTried(s)
    BY DEF Planning, AtWriter, Executing, CreateFailed, AclTried
  <2>1. PlaceInv(s)'
    BY <1>3, <2>0 DEF RunInv, PlaceInv
  <2>2. PostInv(s)'
    <3>1. \A b \in Posts : <<s, b>> \notin late'
      BY <1>2, <1>3 DEF RunInv, PostInv
    <3>2. landed'[s] \in {0, 1}
      BY <1>3, <1>5 DEF CliInv, TypeOK
    <3>3. ~Planning(s) /\ \A b \in Posts : b \notin ops[s]
      BY <1>2, <1>3 DEF RunInv, PostInv, Unsent
    <3> QED
      BY <1>3, <2>0, <3>1, <3>2, <3>3 DEF RunInv, PostInv
  <2>3. DependInv(s)'
    BY <1>3, <2>0 DEF RunInv, DependInv
  <2>4. ViewInv(s)'
    BY <1>3, <1>5, <1>6, <2>0 DEF RunInv, ViewInv
  <2>5. CheckInv(s)'
    BY <1>3, <1>5, <1>6 DEF RunInv, CheckInv, Permitted
  <2>6. TruthInv(s)'
    BY <1>3, <1>5, <1>6, <2>0 DEF RunInv, TruthInv, OnCourse, Wanted, InSync
  <2> QED
    BY <2>1, <2>2, <2>3, <2>4, <2>5, <2>6 DEF RunInv
<1> QED
  BY <1>5, <1>8, <1>9, <1>10 DEF CliInv

(***************************************************************************)
(* A run's own steps.                                                      *)
(***************************************************************************)

(* What recording a result does to the run that records it.                *)
LEMMA RecordFields ==
  ASSUME TypeOK, NEW r \in Runs, NEW a \in Actions, NEW st \in Statuses, Record(r, a, st)
  PROVE  /\ results'[r] = results[r] \cup {[action |-> a, status |-> st]}
         /\ failedTopics'[r] =
              IF st = "Failed" /\ a \in Creates THEN failedTopics[r] \cup {Name} ELSE failedTopics[r]
         /\ ops'[r] = ops[r] \ {a}
         /\ results' \in [Runs -> SUBSET [action : Actions, status : Statuses]]
         /\ failedTopics' \in [Runs -> SUBSET {Name}]
         /\ ops' \in [Runs -> SUBSET Actions]
<1>1. /\ results'[r] = results[r] \cup {[action |-> a, status |-> st]}
      /\ failedTopics'[r] =
           IF st = "Failed" /\ a \in Creates THEN failedTopics[r] \cup {Name} ELSE failedTopics[r]
      /\ ops'[r] = ops[r] \ {a}
  BY DEF TypeOK, Record
<1>2. [action |-> a, status |-> st] \in [action : Actions, status : Statuses]
  OBVIOUS
<1>3. results' \in [Runs -> SUBSET [action : Actions, status : Statuses]]
  BY <1>2 DEF TypeOK, Record
<1>4. failedTopics' \in [Runs -> SUBSET {Name}]
  BY DEF TypeOK, Record
<1>5. ops' \in [Runs -> SUBSET Actions]
  BY DEF TypeOK, Record
<1> QED
  BY <1>1, <1>3, <1>4, <1>5

(* The writer works on the action whose turn it is, which is a POST.       *)
LEMMA WriterHasPost ==
  ASSUME NEW r \in Runs, RunInv(r), AtWriter(r), NEW a, IsNext(a, ops[r])
  PROVE  a \in Posts /\ a \in ops[r]
<1>1. PICK b \in Posts : IsNext(b, ops[r])
  BY DEF RunInv, PlaceInv
<1>2. a = b
  BY <1>1, OneIsNext
<1> QED
  BY <1>1, <1>2 DEF IsNext

(* The executor is done with an action, whichever way: the run stays in    *)
(* order, and on course if it was and the action did what it is for.       *)
Recorded(r, a, st) ==
  /\ Executing(r) /\ IsNext(a, ops[r]) /\ Record(r, a, st)
  /\ pc'[r] = "exec" /\ decl' = decl /\ cmd' = cmd /\ exit' = exit /\ rest' = rest
  /\ changed'[r] = changed[r]
  /\ ~got'[r].complete

(* Recording a result keeps the invariant of the run: only CreateAcl can   *)
(* wait for a topic, and only success has to bring what is wanted.         *)
LEMMA RecordKeeps ==
  ASSUME TypeOK, NEW r \in Runs, RunInv(r), NEW a \in Actions, NEW st \in Statuses,
         Recorded(r, a, st),
         a = "CreateAcl" /\ st \in {"Succeeded", "Failed"} => Name \notin failedTopics[r],
         /\ decl[r].mode = "Enforce" /\ "run" \notin changed[r] /\ st \in OKStatuses
         /\ OnCourse(r, ops[r])
         => OnCourse(r, ops[r] \ {a})'
  PROVE  PlaceInv(r)' /\ DependInv(r)' /\ ViewInv(r)' /\ CheckInv(r)' /\ TruthInv(r)'
<1> DEFINE res == [action |-> a, status |-> st]
<1>1. /\ results'[r] = results[r] \cup {res}
      /\ failedTopics'[r] =
           IF st = "Failed" /\ a \in Creates THEN failedTopics[r] \cup {Name} ELSE failedTopics[r]
      /\ ops'[r] = ops[r] \ {a}
  BY RecordFields DEF Recorded
<1>2. res.action = a /\ res.status = st
  OBVIOUS
<1> HIDE DEF res
<1>3. /\ Executing(r)' /\ ~Planning(r)' /\ ~AtWriter(r)' /\ pc'[r] = "exec"
  BY DEF Recorded, Executing, Planning, AtWriter, Reading, SnapshotReads
<1>4. pc[r] # "done" /\ exit'[r] = -1 /\ exit[r] = -1
  BY DEF Recorded, RunInv, PlaceInv, Executing, AtWriter, Reading, SnapshotReads
<1>5. PlaceInv(r)'
  <2>1. cmd'[r] = "apply"
    BY DEF Recorded, RunInv, PlaceInv
  <2>2. ~got'[r].complete
    BY DEF Recorded
  <2> QED
    BY <1>3, <1>4, <2>1, <2>2 DEF PlaceInv
<1>6. DependInv(r)'
  <2>1. CreateFailed(r)' => CreateFailed(r) \/ (a \in Creates /\ st = "Failed")
    BY <1>1, <1>2 DEF CreateFailed
  <2>2. AclTried(r)' => AclTried(r) \/ (a = "CreateAcl" /\ st \in {"Succeeded", "Failed"})
    BY <1>1, <1>2 DEF AclTried
  <2>3. a = "CreateAcl" => Creates \cap ops[r] = {}
    BY GrantsComeLast DEF Recorded
  <2>4. a \in ops[r] /\ "CreateAcl" \notin Creates
    BY DEF Recorded, IsNext, Creates
  <2> QED
    BY <1>1, <2>1, <2>2, <2>3, <2>4 DEF RunInv, DependInv
<1>7. ViewInv(r)'
  BY <1>3 DEF Recorded, RunInv, ViewInv
<1>8. CheckInv(r)'
  BY <1>3 DEF CheckInv
<1>9. TruthInv(r)'
  <2>1. ResultOK(results'[r]) => ResultOK(results[r]) /\ st \in OKStatuses
    BY <1>1, <1>2 DEF ResultOK
  <2>2. ASSUME decl'[r].mode = "Enforce", "run" \notin changed'[r], ResultOK(results'[r])
        PROVE  OnCourse(r, ops[r] \ {a})'
    <3>1. OnCourse(r, ops[r])
      BY <2>1, <2>2 DEF Recorded, RunInv, TruthInv
    <3> QED
      BY <2>1, <2>2, <3>1 DEF Recorded
  <2>3. OnCourse(r, ops[r] \ {a})' => OnCourse(r, ops[r])'
    BY <1>1 DEF OnCourse, Wanted
  <2> QED
    BY <1>4, <2>2, <2>3 DEF TruthInv
<1> QED
  BY <1>5, <1>6, <1>7, <1>8, <1>9

(* The POST is accounted for, when it is the action done with.             *)
LEMMA RecordKeepsPost ==
  ASSUME TypeOK, NEW r \in Runs, RunInv(r), NEW a \in Actions, NEW st \in Statuses,
         Recorded(r, a, st),
         \/ landed'[r] = landed[r] /\ late' = late
         \/ a \in Posts /\ landed'[r] = landed[r] + 1 /\ late' = late
         \/ a \in Posts /\ landed'[r] = landed[r] /\ late' = late \cup {<<r, a>>}
  PROVE  PostInv(r)'
<1>1. ops'[r] = ops[r] \ {a} /\ a \in ops[r] /\ decl' = decl
  BY RecordFields DEF Recorded, IsNext
<1>2. ~Planning(r)'
  BY DEF Recorded, Planning, Reading, SnapshotReads
<1>3. PostInv(r)
  BY DEF RunInv
<1>4. CASE landed'[r] = landed[r] /\ late' = late
  BY <1>1, <1>2, <1>3, <1>4 DEF PostInv, Unsent
<1>5. CASE a \in Posts
  <2>1. Unsent(r) /\ decl[r].kind = "mirror"
    BY <1>1, <1>3, <1>5 DEF PostInv
  <2>2. \A b \in Posts : b \notin ops'[r]
    BY <1>1, <1>3, <1>5 DEF PostInv, Posts
  <2>3. CASE landed'[r] = landed[r] + 1 /\ late' = late
    BY <1>1, <1>2, <2>1, <2>2, <2>3 DEF PostInv, Unsent, Posts
  <2>4. CASE landed'[r] = landed[r] /\ late' = late \cup {<<r, a>>}
    BY <1>1, <1>2, <2>1, <2>2, <2>4 DEF PostInv, Unsent, Posts
  <2> QED
    BY <1>4, <1>5, <2>3, <2>4
<1> QED
  BY <1>4, <1>5

(* What this run's actions can meet before they are dispatched.            *)
LEMMA VerdictFacts ==
  ASSUME NEW r \in Runs, NEW a \in Actions
  PROVE  /\ VerdictOn(r, a) \in Statuses \cup {"Dispatch"}
         /\ a = "CreateAcl" /\ VerdictOn(r, a) \in {"Dispatch", "Succeeded", "Failed"} =>
              Name \notin failedTopics[r]
         /\ /\ decl[r].mode = "Enforce" /\ VerdictOn(r, a) \in OKStatuses
            => /\ a \notin Stuck
               /\ a \notin {"CreateTopic", "UpdateTopicConfig", "CreateAcl", "CreateMirrorTopic",
                            "UpdateMirrorTopicConfig"}
<1> DEFINE op == Op(r, a)
<1>1. op.action = a /\ op.mode = decl[r].mode /\ op.target = Name
  BY DEF Op
<1> HIDE DEF op
<1>2. VerdictOn(r, a) = Verdict(op, {}, failedTopics[r])
  BY DEF VerdictOn, op
<1>3. VerdictOn(r, a) \in Statuses \cup {"Dispatch"}
  BY <1>2 DEF Verdict, Statuses
<1>4. ASSUME a = "CreateAcl", VerdictOn(r, a) \in {"Dispatch", "Succeeded", "Failed"}
      PROVE  Name \notin failedTopics[r]
  BY <1>1, <1>2, <1>4 DEF Verdict, Informational, TerminalFindings, OperationalError, GateOf,
       Destructive, PruneGated
<1>5. ASSUME decl[r].mode = "Enforce", VerdictOn(r, a) \in OKStatuses, a \in Stuck
      PROVE  FALSE
  BY <1>1, <1>2, <1>5 DEF Verdict, Stuck, TerminalFindings, OperationalError, Informational,
       OKStatuses, ReportOnlyModes
<1>6. ASSUME decl[r].mode = "Enforce", VerdictOn(r, a) \in OKStatuses,
             a \in {"CreateTopic", "UpdateTopicConfig", "CreateAcl", "CreateMirrorTopic",
                    "UpdateMirrorTopicConfig"}
      PROVE  FALSE
  BY <1>1, <1>2, <1>6 DEF Verdict, TerminalFindings, OperationalError, Informational,
       OKStatuses, ReportOnlyModes, GateOf, Destructive, PruneGated
<1> QED
  BY <1>3, <1>4, <1>5, <1>6

(* An action that is not dispatched is reported.                           *)
LEMMA NotDispatchedKeeps ==
  ASSUME TypeOK, NEW r \in Runs, RunInv(r), NotDispatched(r) PROVE TypeOK' /\ RunInv(r)'
<1>1. PICK a \in ops[r] :
        /\ IsNext(a, ops[r]) /\ VerdictOn(r, a) # "Dispatch" /\ Record(r, a, VerdictOn(r, a))
  BY DEF NotDispatched
<1> DEFINE st == VerdictOn(r, a)
<1>2. a \in Actions
  BY DEF TypeOK
<1>3. st \in Statuses
  BY <1>1, <1>2, VerdictFacts
<1>4. /\ a = "CreateAcl" /\ st \in {"Succeeded", "Failed"} => Name \notin failedTopics[r]
      /\ decl[r].mode = "Enforce" /\ st \in OKStatuses =>
           /\ a \notin Stuck
           /\ a \notin {"CreateTopic", "UpdateTopicConfig", "CreateAcl", "CreateMirrorTopic",
                        "UpdateMirrorTopicConfig"}
  BY <1>2, VerdictFacts
<1> HIDE DEF st
<1>5. Record(r, a, st)
  BY <1>1 DEF st
<1>6. Recorded(r, a, st)
  <2>1. ~got[r].complete
    BY DEF NotDispatched, RunInv, PlaceInv
  <2> QED
    BY <1>1, <1>5, <2>1 DEF NotDispatched, Recorded, Executing, cluster
<1>7. topic' = topic /\ entry' = entry /\ acl' = acl /\ rest' = rest /\ decl' = decl
  BY DEF NotDispatched, cluster
<1>8. ops'[r] = ops[r] \ {a}
  BY <1>2, <1>3, <1>5, RecordFields
<1>9. /\ decl[r].mode = "Enforce" /\ "run" \notin changed[r] /\ st \in OKStatuses
      /\ OnCourse(r, ops[r])
      => OnCourse(r, ops[r] \ {a})'
  BY <1>4, <1>7, <1>8 DEF OnCourse, Wanted
<1>10. PlaceInv(r)' /\ DependInv(r)' /\ ViewInv(r)' /\ CheckInv(r)' /\ TruthInv(r)'
  BY <1>2, <1>3, <1>4, <1>6, <1>9, RecordKeeps
<1>11. PostInv(r)'
  BY <1>2, <1>3, <1>6, RecordKeepsPost DEF NotDispatched
<1>12. TypeOK'
  <2>1. /\ results' \in [Runs -> SUBSET [action : Actions, status : Statuses]]
        /\ failedTopics' \in [Runs -> SUBSET {Name}]
        /\ ops' \in [Runs -> SUBSET Actions]
    BY <1>2, <1>3, <1>5, RecordFields
  <2> QED
    BY <2>1 DEF NotDispatched, TypeOK, cluster
<1> QED
  BY <1>10, <1>11, <1>12 DEF RunInv

(* A Kafka Admin call that succeeded did what it is for.                   *)
Admin == {"CreateTopic", "UpdateTopicConfig", "CreateAcl"}

Did(r, a) ==
  /\ a = "CreateTopic" =>
       ~topic.exists /\ topic'.exists /\ topic'.cfg = decl[r].cfg /\ acl' = acl
  /\ a = "UpdateTopicConfig" =>
       /\ topic.exists /\ topic'.exists /\ topic'.cfg = decl[r].cfg /\ topic'.rf = topic.rf
       /\ acl' = acl
  /\ a = "CreateAcl" => topic' = topic /\ acl' = TRUE

(* So an executed topic, config or ACL operation keeps it, and so does one *)
(* that fails, whether or not it took effect.                              *)
LEMMA AdminKeeps ==
  ASSUME TypeOK, EntryInv, NEW r \in Runs, RunInv(r), NEW a \in Admin,
         NEW st \in {"Succeeded", "Failed"}, Dispatching(r, a), Record(r, a, st),
         UNCHANGED <<rest, entry, link, pc, decl, cmd, got, exit, late, landed>>,
         topic' \in Topic, acl' \in BOOLEAN, changed'[r] = changed[r],
         changed' \in [Runs -> SUBSET {"run", "write"}], faults' \in Nat, envOps' \in Nat,
         st = "Succeeded" => Did(r, a)
  PROVE  TypeOK' /\ EntryInv' /\ RunInv(r)'
<1>1. a \in Actions /\ st \in Statuses
  BY ActionNames DEF Admin, Statuses
<1>2. Recorded(r, a, st)
  <2>1. pc[r] = "exec" /\ ~got[r].complete
    BY DEF Dispatching, RunInv, PlaceInv
  <2> QED
    BY <2>1 DEF Dispatching, Recorded, Executing
<1>3. a = "CreateAcl" => Name \notin failedTopics[r]
  BY <1>1, VerdictFacts DEF Dispatching
<1>4. ops'[r] = ops[r] \ {a}
  BY <1>1, RecordFields
<1>5. /\ decl[r].mode = "Enforce" /\ "run" \notin changed[r] /\ st \in OKStatuses
      /\ OnCourse(r, ops[r])
      => OnCourse(r, ops[r] \ {a})'
  <2> SUFFICES ASSUME Did(r, a), OnCourse(r, ops[r])
               PROVE  OnCourse(r, ops[r] \ {a})'
    BY DEF OKStatuses
  <2>1. a \notin Stuck
    BY DEF Admin, Stuck, TerminalFindings
  <2>2. CASE \E b \in ops[r] : b \in Stuck
    BY <1>4, <2>1, <2>2 DEF OnCourse
  <2>3. CASE Wanted(r, ops[r])
    <3>1. CASE a = "CreateTopic"
      BY <1>4, <2>3, <3>1 DEF Wanted, OnCourse, Did
    <3>2. CASE a = "UpdateTopicConfig"
      BY <1>4, <2>3, <3>2 DEF Wanted, OnCourse, Did
    <3>3. CASE a = "CreateAcl"
      BY <1>4, <2>3, <3>3 DEF Wanted, OnCourse, Did
    <3> QED
      BY <3>1, <3>2, <3>3 DEF Admin
  <2> QED
    BY <2>2, <2>3 DEF OnCourse
<1>6. PlaceInv(r)' /\ DependInv(r)' /\ ViewInv(r)' /\ CheckInv(r)' /\ TruthInv(r)'
  BY <1>1, <1>2, <1>3, <1>5, RecordKeeps
<1>7. PostInv(r)'
  BY <1>1, <1>2, RecordKeepsPost
<1>8. TypeOK' /\ EntryInv'
  <2>1. /\ results' \in [Runs -> SUBSET [action : Actions, status : Statuses]]
        /\ failedTopics' \in [Runs -> SUBSET {Name}]
        /\ ops' \in [Runs -> SUBSET Actions]
    BY <1>1, RecordFields
  <2> QED
    BY <2>1 DEF TypeOK, EntryInv
<1> QED
  BY <1>6, <1>7, <1>8 DEF RunInv

(* However the call ends: an answered one that succeeds took effect, and   *)
(* one that fails may have.                                                *)
LEMMA AdminCallKeeps ==
  ASSUME TypeOK, EntryInv, NEW r \in Runs, RunInv(r), NEW a \in Admin,
         NEW allowed \in BOOLEAN, NEW topicAfter, NEW aclAfter,
         AdminCall(r, a, allowed, topicAfter, aclAfter),
         allowed => topicAfter \in Topic /\ aclAfter \in BOOLEAN,
         allowed /\ topic' = topicAfter /\ acl' = aclAfter => Did(r, a)
  PROVE  TypeOK' /\ EntryInv' /\ RunInv(r)'
<1> DEFINE Effect  == allowed /\ topic' = topicAfter /\ acl' = aclAfter /\ Disturb(r)
           Nothing == UNCHANGED <<topic, acl, changed>>
<1>1. PICK st \in {"Succeeded", "Failed"} :
        Record(r, a, st) /\ (Effect \/ Nothing) /\ (st = "Succeeded" => Effect)
  BY Zenon DEF AdminCall
<1>2. Effect => topic' \in Topic /\ acl' \in BOOLEAN
  OBVIOUS
<1>3. Nothing => topic' \in Topic /\ acl' \in BOOLEAN
  BY DEF TypeOK
<1>4. changed'[r] = changed[r] /\ changed' \in [Runs -> SUBSET {"run", "write"}]
  <2>1. changed \in [Runs -> SUBSET {"run", "write"}]
    BY DEF TypeOK
  <2>2. CASE Effect
    BY <2>1, <2>2 DEF Disturb
  <2>3. CASE Nothing
    BY <2>1, <2>3
  <2> QED
    BY <1>1, <2>2, <2>3
<1>5. /\ Dispatching(r, a)
      /\ UNCHANGED <<rest, entry, link, pc, decl, cmd, got, exit, late, landed, envOps>>
  BY DEF AdminCall
<1>6. envOps' \in Nat /\ faults' \in Nat
  <2>1. faults' \in {faults, faults + 1}
    BY Zenon DEF AdminCall
  <2> QED
    BY <1>5, <2>1 DEF TypeOK
<1>7. st = "Succeeded" => Did(r, a)
  BY <1>1
<1>8. topic' \in Topic /\ acl' \in BOOLEAN
  BY <1>1, <1>2, <1>3
<1> QED
  BY <1>1, <1>4, <1>5, <1>6, <1>7, <1>8, AdminKeeps

(* The three calls there are.                                              *)
LEMMA AdminStepsKeep ==
  ASSUME TypeOK, EntryInv, NEW r \in Runs, RunInv(r),
         CreateTopic(r) \/ UpdateTopicConfig(r) \/ CreateACLs(r)
  PROVE  TypeOK' /\ EntryInv' /\ RunInv(r)'
<1>0. decl[r].cfg \in Values /\ topic \in Topic /\ acl \in BOOLEAN
  BY CliAssumption DEF TypeOK
<1>1. {"CreateTopic", "UpdateTopicConfig", "CreateAcl"} \subseteq Admin /\ topic.exists \in BOOLEAN
  BY <1>0 DEF Admin, Topic
<1>2. CASE CreateTopic(r)
  <2> DEFINE new == [exists |-> TRUE, cfg |-> decl[r].cfg, rf |-> 1]
  <2>1. AdminCall(r, "CreateTopic", ~topic.exists, new, acl)
    BY <1>2 DEF CreateTopic
  <2>2. new \in Topic
    BY <1>0 DEF Topic
  <2>3. ~topic.exists /\ topic' = new /\ acl' = acl => Did(r, "CreateTopic")
    BY DEF Did
  <2> QED
    BY <1>0, <1>1, <2>1, <2>2, <2>3, AdminCallKeeps
<1>3. CASE UpdateTopicConfig(r)
  <2> DEFINE new == [topic EXCEPT !.cfg = decl[r].cfg]
  <2>1. AdminCall(r, "UpdateTopicConfig", topic.exists, new, acl)
    BY <1>3 DEF UpdateTopicConfig
  <2>2. new \in Topic
    BY <1>0 DEF Topic
  <2>3. topic.exists /\ topic' = new /\ acl' = acl => Did(r, "UpdateTopicConfig")
    BY <1>0 DEF Did, Topic
  <2> QED
    BY <1>0, <1>1, <2>1, <2>2, <2>3, AdminCallKeeps
<1>4. CASE CreateACLs(r)
  <2>1. AdminCall(r, "CreateAcl", TRUE, topic, TRUE)
    BY <1>4 DEF CreateACLs
  <2>2. topic' = topic /\ acl' = TRUE => Did(r, "CreateAcl")
    BY DEF Did
  <2> QED
    BY <1>0, <1>1, <2>1, <2>2, AdminCallKeeps
<1> QED
  BY <1>2, <1>3, <1>4

(* The writer starts to read: nobody has interfered since.                 *)
LEMMA WriterReadsKeeps ==
  ASSUME TypeOK, EntryInv, NEW r \in Runs, RunInv(r), WriterReads(r)
  PROVE  TypeOK' /\ EntryInv' /\ RunInv(r)'
<1>1. PICK a \in Posts : Dispatching(r, a)
  BY DEF WriterReads
<1>2. pc[r] = "exec" /\ IsNext(a, ops[r]) /\ ops[r] # {}
  BY <1>1 DEF Dispatching, IsNext
<1>3. /\ UNCHANGED <<cluster, local, late, landed, envOps, faults>>
      /\ pc'[r] = "ids" /\ changed'[r] = changed[r] \ {"write"}
  BY DEF WriterReads, Goto, TypeOK
<1>4. /\ TypeOK' /\ EntryInv'
  BY DEF WriterReads, Goto, TypeOK, EntryInv, cluster, local, Reading, SnapshotReads
<1>5. "ids" \in Reading
  BY DEF Reading, SnapshotReads
<1>6. ~Planning(r)' /\ AtWriter(r)' /\ Executing(r)' /\ Executing(r)
  BY <1>2, <1>3, <1>5 DEF Planning, AtWriter, Executing, local
<1>7. PlaceInv(r)'
  BY <1>2, <1>3, <1>6 DEF RunInv, PlaceInv, local
<1>8. PostInv(r)'
  BY <1>3, <1>6 DEF RunInv, PostInv, Unsent, local
<1>9. DependInv(r)'
  BY <1>3 DEF RunInv, DependInv, CreateFailed, AclTried, local
<1>10. ViewInv(r)'
  BY <1>3, <1>6 DEF ViewInv
<1>11. CheckInv(r)'
  BY <1>3 DEF CheckInv
<1>12. TruthInv(r)'
  BY <1>3, <1>6 DEF RunInv, TruthInv, OnCourse, Wanted, InSync, cluster, local
<1> QED
  BY <1>4, <1>7, <1>8, <1>9, <1>10, <1>11, <1>12 DEF RunInv

(* What the check asks of an undisturbed snapshot holds of the cluster.    *)
LEMMA CheckedIsPermitted ==
  ASSUME TypeOK, EntryInv, NEW r \in Runs, NEW a \in Posts, PreWrite(r, a),
         got[r].complete => got[r].topic = topic /\ got[r].entry = entry /\ got[r].link = link
  PROVE  Permitted(r, a)
<1>1. CASE a = "CreateMirrorTopic"
  <2>1. MayCreate(decl[r], got[r])
    BY <1>1 DEF PreWrite
  <2>2. got[r].topic = topic /\ got[r].entry = entry /\ got[r].link = link /\ got[r].complete
    BY <2>1 DEF MayCreate, freshLink
  <2>3. entry.status = "none" /\ ~topic.exists
    BY <2>1, <2>2 DEF MayCreate, Classify
  <2> QED
    BY <1>1, <2>1, <2>2, <2>3 DEF MayCreate, freshLink, Permitted, EntryInv
<1>2. CASE a # "CreateMirrorTopic"
  <2>1. MayAlter(decl[r], got[r])
    BY <1>2 DEF PreWrite
  <2>2. got[r].topic = topic /\ got[r].entry = entry /\ got[r].link = link /\ got[r].complete
    BY <2>1 DEF MayAlter, freshLink
  <2>3. entry.status \in Healthy \cup Unhealthy \cup Progressing
    BY <2>1, <2>2 DEF MayAlter, Classify
  <2>4. entry.status \notin Stopping \cup Stopped
    BY <2>3 DEF Healthy, Unhealthy, Progressing, Stopping, Stopped
  <2> QED
    BY <1>2, <2>1, <2>2, <2>4 DEF MayAlter, freshLink, Permitted
<1> QED
  BY <1>1, <1>2

(* The snapshot a run starts from, and is left with after it was used.     *)
LEMMA UnreadIsView == Unread \in View /\ ~Unread.complete
<1>1. NoTopic \in Topic /\ NoEntry \in Entry /\ NoLink \in Link
  BY DEF NoTopic, Topic, Values, NoEntry, Entry, NoLink, Link
<1> QED
  BY <1>1 DEF Unread, View

(* The writer posts only what its fresh snapshot permits.                  *)
LEMMA WriterChecksKeeps ==
  ASSUME TypeOK, EntryInv, NEW r \in Runs, RunInv(r), WriterChecks(r)
  PROVE  TypeOK' /\ EntryInv' /\ RunInv(r)'
<1>1. PICK a \in ops[r] :
        /\ IsNext(a, ops[r])
        /\ \/ /\ PreWrite(r, a)
              /\ Goto(r, "post")
              /\ UNCHANGED <<ops, results, failedTopics>>
           \/ /\ ~PreWrite(r, a)
              /\ Goto(r, "exec")
              /\ Record(r, a, "Failed")
  BY DEF WriterChecks
<1>2. /\ pc[r] = "check" /\ AtWriter(r) /\ Executing(r)
      /\ UNCHANGED <<cluster, decl, cmd, exit, late, changed, landed, envOps, faults>>
      /\ got' \in [Runs -> View] /\ ~got'[r].complete
  BY UnreadIsView DEF WriterChecks, AtWriter, Executing, TypeOK
<1>3. a \in Posts /\ a \in Actions
  BY <1>1, <1>2, WriterHasPost DEF TypeOK
<1>4. CASE PreWrite(r, a) /\ Goto(r, "post") /\ UNCHANGED <<ops, results, failedTopics>>
  <2>1. pc'[r] = "post" /\ pc' = [pc EXCEPT ![r] = "post"]
    BY <1>4 DEF Goto, TypeOK
  <2>2. TypeOK' /\ EntryInv'
    BY <1>2, <1>4, <2>1 DEF TypeOK, EntryInv, cluster
  <2>3. ~Planning(r)' /\ AtWriter(r)' /\ Executing(r)'
    BY <2>1 DEF Planning, AtWriter, Executing, Reading, SnapshotReads
  <2>4. PlaceInv(r)'
    BY <1>2, <1>4, <2>1, <2>3 DEF RunInv, PlaceInv
  <2>5. PostInv(r)'
    BY <1>2, <1>4, <2>3 DEF RunInv, PostInv, Unsent
  <2>6. DependInv(r)'
    BY <1>2, <1>4 DEF RunInv, DependInv, CreateFailed, AclTried
  <2>7. ViewInv(r)'
    BY <1>2, <2>1, <2>3 DEF RunInv, ViewInv
  <2>8. CheckInv(r)'
    <3>1. SUFFICES ASSUME "write" \notin changed[r], NEW b \in Posts, IsNext(b, ops[r])
                   PROVE  Permitted(r, b)
      BY <1>2, <1>4, <3>1 DEF CheckInv, Permitted, cluster
    <3>2. b = a
      BY <1>1, <3>1, OneIsNext
    <3>3. got[r].complete => got[r].topic = topic /\ got[r].entry = entry /\ got[r].link = link
      BY <1>2, <3>1 DEF RunInv, ViewInv
    <3> QED
      BY <1>3, <1>4, <3>2, <3>3, CheckedIsPermitted
  <2>9. TruthInv(r)'
    BY <1>2, <1>4, <2>3 DEF RunInv, TruthInv, OnCourse, Wanted, InSync, cluster
  <2> QED
    BY <2>2, <2>4, <2>5, <2>6, <2>7, <2>8, <2>9 DEF RunInv
<1>5. CASE ~PreWrite(r, a) /\ Goto(r, "exec") /\ Record(r, a, "Failed")
  <2>1. pc'[r] = "exec" /\ pc' = [pc EXCEPT ![r] = "exec"]
    BY <1>5 DEF Goto, TypeOK
  <2>2. Recorded(r, a, "Failed")
    BY <1>1, <1>2, <1>5, <2>1 DEF Recorded, cluster
  <2>3. /\ "Failed" \in Statuses /\ "Failed" \notin OKStatuses /\ a # "CreateAcl"
    BY <1>3 DEF Statuses, OKStatuses, Posts
  <2>4. PlaceInv(r)' /\ DependInv(r)' /\ ViewInv(r)' /\ CheckInv(r)' /\ TruthInv(r)'
    BY <1>3, <2>2, <2>3, RecordKeeps
  <2>5. PostInv(r)'
    BY <1>2, <1>3, <2>2, <2>3, RecordKeepsPost
  <2>6. /\ results' \in [Runs -> SUBSET [action : Actions, status : Statuses]]
        /\ failedTopics' \in [Runs -> SUBSET {Name}]
        /\ ops' \in [Runs -> SUBSET Actions]
    BY <1>3, <1>5, <2>3, RecordFields
  <2>7. TypeOK' /\ EntryInv'
    BY <1>2, <2>1, <2>6 DEF TypeOK, EntryInv, cluster
  <2> QED
    BY <2>4, <2>5, <2>7 DEF RunInv
<1> QED
  BY <1>1, <1>4, <1>5

(* A POST that took effect brings what was wanted of it.                   *)
LEMMA LandBringsWhatWasWanted ==
  ASSUME TypeOK, NEW r \in Runs, NEW a \in Posts, Land(r, a), decl[r].kind = "mirror",
         decl' = decl, Wanted(r, ops[r]), ops'[r] = ops[r] \ {a}
  PROVE  Wanted(r, ops[r] \ {a})'
<1>0. decl[r].rf \in 0..3 /\ topic \in Topic
  BY CliAssumption DEF TypeOK
<1>1. "CreateAcl" # a /\ acl' = acl
  BY DEF Posts, Land
<1>2. CASE a = "CreateMirrorTopic"
  <2>1. /\ topic' = [exists |-> TRUE, cfg |-> decl[r].cfg,
                     rf |-> IF decl[r].rf > 0 THEN decl[r].rf ELSE 1]
        /\ entry' = [status |-> "PENDING_MIRROR", link |-> decl[r].link, source |-> decl[r].source]
    BY <1>2 DEF Land, Serve
  <2>2. /\ topic'.exists /\ topic'.cfg = decl[r].cfg /\ (decl[r].rf > 0 => topic'.rf = decl[r].rf)
        /\ entry'.status \in Progressing /\ entry'.link = decl[r].link
        /\ entry'.source = decl[r].source
    BY <2>1 DEF Progressing
  <2> QED
    BY <1>1, <2>2 DEF Wanted, SameMirror
<1>3. CASE a = "UpdateMirrorTopicConfig"
  <2>1. /\ topic' = [topic EXCEPT !.cfg = decl[r].cfg] /\ entry' = entry
    BY <1>3 DEF Land, Serve
  <2>2. topic'.exists = topic.exists /\ topic'.cfg = decl[r].cfg /\ topic'.rf = topic.rf
    BY <1>0, <2>1 DEF Topic
  <2> QED
    BY <1>1, <1>3, <2>1, <2>2 DEF Wanted
<1> QED
  BY <1>2, <1>3 DEF Posts

(* The POST is sent once, and every way it can end is recorded.            *)
LEMMA PostKeeps ==
  ASSUME TypeOK, EntryInv, NEW r \in Runs, RunInv(r), Post(r)
  PROVE  TypeOK' /\ EntryInv' /\ RunInv(r)'
<1>1. PICK a \in ops[r] :
        /\ IsNext(a, ops[r])
        /\ \/ Answered(r, a) /\ UNCHANGED <<late, faults>>
           \/ Unanswered(r, a) /\ Record(r, a, "Failed")
  BY DEF Post
<1>2. /\ pc[r] = "post" /\ AtWriter(r) /\ Executing(r)
      /\ pc'[r] = "exec" /\ pc' = [pc EXCEPT ![r] = "exec"]
      /\ UNCHANGED <<decl, cmd, got, exit, envOps>>
      /\ ~got[r].complete
  BY DEF Post, AtWriter, Executing, Goto, TypeOK, RunInv, PlaceInv
<1>3. a \in Posts /\ a \in Actions
  BY <1>1, <1>2, WriterHasPost DEF TypeOK
<1>4. decl[r].kind = "mirror" /\ landed[r] = 0 /\ faults \in Nat
  BY <1>1, <1>3 DEF TypeOK, RunInv, PostInv, Unsent
<1>5. PICK st \in {"Succeeded", "Failed"} :
        /\ Record(r, a, st)
        /\ \/ Land(r, a) /\ Disturb(r) /\ late' = late
           \/ /\ st = "Failed" /\ UNCHANGED <<cluster, changed, landed>>
              /\ late' = late \/ late' = late \cup {<<r, a>>}
        /\ faults' = faults \/ faults' = faults + 1
  <2>1. CASE Answered(r, a) /\ UNCHANGED <<late, faults>>
    BY <2>1 DEF Answered
  <2>2. CASE Unanswered(r, a) /\ Record(r, a, "Failed")
    BY <2>2 DEF Unanswered
  <2> QED
    BY <1>1, <2>1, <2>2
<1>6. st \in Statuses /\ (st \in OKStatuses => st = "Succeeded") /\ a # "CreateAcl"
  BY <1>3 DEF Statuses, OKStatuses, Posts
<1>7. /\ topic' \in Topic /\ entry' \in Entry /\ EntryInv'
      /\ rest' = rest /\ link' = link /\ acl' = acl
      /\ \/ landed' = [landed EXCEPT ![r] = landed[r] + 1] /\ late' = late
         \/ landed' = landed
  <2>1. CASE Land(r, a) /\ late' = late
    BY <1>3, <1>4, <2>1, LandKeepsTypes
  <2>2. CASE UNCHANGED <<cluster, changed, landed>>
    BY <2>2 DEF TypeOK, EntryInv, cluster
  <2> QED
    BY <1>5, <2>1, <2>2
<1>8. changed' \in [Runs -> SUBSET {"run", "write"}] /\ changed'[r] = changed[r]
  BY <1>5 DEF TypeOK, Disturb
<1>9. /\ results' \in [Runs -> SUBSET [action : Actions, status : Statuses]]
      /\ failedTopics' \in [Runs -> SUBSET {Name}]
      /\ ops' \in [Runs -> SUBSET Actions] /\ ops'[r] = ops[r] \ {a}
  BY <1>3, <1>5, <1>6, RecordFields
<1>10. TypeOK'
  <2>1. late' \subseteq Runs \X Posts /\ faults' \in Nat /\ landed' \in [Runs -> Nat]
    BY <1>3, <1>4, <1>5, <1>7 DEF TypeOK
  <2> QED
    BY <1>2, <1>7, <1>8, <1>9, <2>1 DEF TypeOK
<1>11. Recorded(r, a, st)
  BY <1>1, <1>2, <1>5, <1>7, <1>8 DEF Recorded
<1>12. /\ decl[r].mode = "Enforce" /\ "run" \notin changed[r] /\ st \in OKStatuses
       /\ OnCourse(r, ops[r])
       => OnCourse(r, ops[r] \ {a})'
  <2> SUFFICES ASSUME st = "Succeeded", OnCourse(r, ops[r]) PROVE OnCourse(r, ops[r] \ {a})'
    BY <1>6
  <2>1. Land(r, a) /\ decl' = decl
    BY <1>2, <1>5
  <2>2. a \notin Stuck
    BY <1>3 DEF Posts, Stuck, TerminalFindings
  <2>3. CASE Wanted(r, ops[r])
    BY <1>3, <1>4, <1>9, <2>1, <2>3, LandBringsWhatWasWanted DEF OnCourse
  <2>4. CASE \E b \in ops[r] : b \in Stuck
    BY <1>9, <2>2, <2>4 DEF OnCourse
  <2> QED
    BY <2>3, <2>4 DEF OnCourse
<1>13. PlaceInv(r)' /\ DependInv(r)' /\ ViewInv(r)' /\ CheckInv(r)' /\ TruthInv(r)'
  BY <1>3, <1>6, <1>11, <1>12, RecordKeeps
<1>14. PostInv(r)'
  <2>1. \/ landed'[r] = landed[r] /\ late' = late
        \/ landed'[r] = landed[r] + 1 /\ late' = late
        \/ landed'[r] = landed[r] /\ late' = late \cup {<<r, a>>}
    BY <1>5, <1>7 DEF TypeOK
  <2> QED
    BY <1>3, <1>6, <1>11, <2>1, RecordKeepsPost
<1> QED
  BY <1>7, <1>10, <1>13, <1>14 DEF RunInv

(* An apply that has nothing left to do and nothing to complain of has     *)
(* brought the cluster to the declaration.                                 *)
LEMMA NothingWanted ==
  ASSUME TypeOK, NEW r \in Runs, Wanted(r, {}) PROVE InSync(decl[r])
<1>1. decl[r].kind \in {"mirror", "topic"}
  BY CliAssumption DEF TypeOK
<1> QED
  BY <1>1 DEF Wanted, InSync

(* A run that ends with exit code 0 has nothing left to do and nothing     *)
(* failed.                                                                 *)
LEMMA FinishKeeps ==
  ASSUME TypeOK, EntryInv, NEW r \in Runs, RunInv(r), Finish(r)
  PROVE  TypeOK' /\ EntryInv' /\ RunInv(r)'
<1>1. /\ pc[r] = "exec" /\ ops[r] = {} /\ pc'[r] = "done" /\ pc' = [pc EXCEPT ![r] = "done"]
      /\ exit' = [exit EXCEPT ![r] = ApplyExit(results[r])] /\ exit'[r] = ApplyExit(results[r])
      /\ UNCHANGED <<cluster, decl, cmd, got, ops, results, failedTopics, late, changed,
                     landed, envOps, faults>>
  BY DEF Finish, Goto, TypeOK
<1>2. ApplyExit(results[r]) \in {0, 2, 3} /\ (ApplyExit(results[r]) = 0 => ResultOK(results[r]))
  BY DEF ApplyExit, applyExitCode
<1>3. TypeOK' /\ EntryInv'
  BY <1>1, <1>2 DEF TypeOK, EntryInv, cluster
<1>4. ~Planning(r)' /\ ~AtWriter(r)' /\ ~Executing(r)' /\ Executing(r)
  BY <1>1 DEF Planning, AtWriter, Executing, Reading, SnapshotReads
<1>5. PlaceInv(r)'
  BY <1>1, <1>4 DEF PlaceInv
<1>6. PostInv(r)'
  BY <1>1, <1>4 DEF RunInv, PostInv, Unsent
<1>7. DependInv(r)'
  BY <1>1 DEF RunInv, DependInv, CreateFailed, AclTried
<1>8. ViewInv(r)' /\ CheckInv(r)'
  BY <1>1, <1>4 DEF RunInv, ViewInv, CheckInv
<1>9. TruthInv(r)'
  <2>1. cmd[r] = "apply"
    BY <1>4 DEF RunInv, PlaceInv
  <2>2. ASSUME ResultOK(results[r]), "run" \notin changed[r], decl[r].mode = "Enforce"
        PROVE  InSync(decl[r])
    BY <1>1, <1>4, <2>2, NothingWanted DEF RunInv, TruthInv, OnCourse
  <2>3. InSync(decl[r])' = InSync(decl[r])
    BY <1>1 DEF InSync, cluster
  <2> QED
    BY <1>1, <1>2, <1>4, <2>1, <2>2, <2>3 DEF TruthInv
<1> QED
  BY <1>3, <1>5, <1>6, <1>7, <1>8, <1>9 DEF RunInv

(***************************************************************************)
(* The plan.                                                               *)
(***************************************************************************)

(* mirrorOpsFor, of any declaration and snapshot: it plans one POST at     *)
(* most, and where it neither reports a finding nor creates the mirror,    *)
(* the snapshot shows the declared mirror.                                 *)
LEMMA MirrorPlan ==
  ASSUME NEW d, NEW s
  PROVE  /\ mirrorOpsFor(d, s) \subseteq Actions
         /\ ~(Posts \subseteq mirrorOpsFor(d, s))
         /\ \/ \E b \in mirrorOpsFor(d, s) : b \in Stuck
            \/ "CreateMirrorTopic" \in mirrorOpsFor(d, s)
            \/ /\ s.complete /\ s.topic.exists
               /\ s.entry.status \in Healthy \cup Progressing
               /\ SameMirror(s.entry, d)
               /\ d.rf > 0 => s.topic.rf = d.rf
               /\ \/ d.cfg \in {"unset", s.topic.cfg}
                  \/ "UpdateMirrorTopicConfig" \in mirrorOpsFor(d, s)
<1> DEFINE class == Classify(s.complete, s.topic.exists, s.entry)
           finding == IF s.entry.status \in Unhealthy THEN {"MirrorTopicUnhealthy"}
                      ELSE IF s.entry.status \in Progressing THEN {"MirrorTopicProgressing"}
                      ELSE {}
           factor == IF d.rf > 0 /\ d.rf # s.topic.rf
                       THEN {"UnsupportedReplicationFactorChange"} ELSE {}
           config == IF d.cfg = "unset" THEN {}
                     ELSE IF ~KeyIsFree(s.link, d) THEN {"Rejected"}
                     ELSE IF s.topic.cfg = d.cfg THEN {} ELSE {"UpdateMirrorTopicConfig"}
           M == mirrorOpsFor(d, s)
           found == finding \cup factor \cup config
<1>1. /\ "Rejected" \in Stuck /\ "StateReadError" \in Stuck /\ "MirrorTopicStopping" \in Stuck
      /\ "MirrorTopicUnhealthy" \in Stuck /\ "UnsupportedReplicationFactorChange" \in Stuck
  BY DEF Stuck, TerminalFindings
<1>2. \/ M \in {{"StateReadError"}, {"Rejected"}, {"CreateMirrorTopic"},
                {"Rejected", "MirrorTopicPromoted"}, {"MirrorTopicStopping"}}
      \/ /\ M = found /\ s.complete /\ SameMirror(s.entry, d)
         /\ class \notin {"Absent", "Normal", "StoppedFormerMirror", "Unknown", "StoppingMirror"}
  BY DEF mirrorOpsFor
<1>3. CASE M \in {{"StateReadError"}, {"Rejected"}, {"CreateMirrorTopic"},
                  {"Rejected", "MirrorTopicPromoted"}, {"MirrorTopicStopping"}}
  <2>1. M \subseteq Actions
    BY <1>3, ActionNames
  <2>2. "UpdateMirrorTopicConfig" \notin M
    BY <1>3
  <2>3. (\E b \in M : b \in Stuck) \/ "CreateMirrorTopic" \in M
    BY <1>1, <1>3
  <2> QED
    BY <2>1, <2>2, <2>3 DEF Posts
<1>4. CASE /\ M = found /\ s.complete /\ SameMirror(s.entry, d)
           /\ class \notin {"Absent", "Normal", "StoppedFormerMirror", "Unknown", "StoppingMirror"}
  <2>1. s.topic.exists /\ s.entry.status \in Healthy \cup Unhealthy \cup Progressing
    BY <1>4 DEF Classify
  <2>2. M \subseteq Actions
    BY <1>4, ActionNames
  <2>3. "CreateMirrorTopic" \notin M
    BY <1>4
  <2>4. CASE \E b \in M : b \in Stuck
    BY <2>2, <2>3, <2>4 DEF Posts
  <2>5. CASE \A b \in M : b \notin Stuck
    <3>1. s.entry.status \notin Unhealthy
      BY <1>1, <1>4, <2>5
    <3>2. d.rf > 0 => s.topic.rf = d.rf
      BY <1>1, <1>4, <2>5
    <3>3. d.cfg \in {"unset", s.topic.cfg} \/ "UpdateMirrorTopicConfig" \in M
      BY <1>1, <1>4, <2>5
    <3> QED
      BY <1>4, <2>1, <2>2, <2>3, <3>1, <3>2, <3>3 DEF Posts
  <2> QED
    BY <2>4, <2>5
<1> QED
  BY <1>2, <1>3, <1>4

(* A plan made of what there is leads to what is declared.                 *)
LEMMA PlanIsOnCourse ==
  ASSUME TypeOK, NEW r \in Runs, RunInv(r), pc[r] = "plan"
  PROVE  /\ Planned(r) \subseteq Actions
         /\ ~(Posts \subseteq Planned(r))
         /\ \A a \in Posts : a \in Planned(r) => decl[r].kind = "mirror"
         /\ "run" \notin changed[r] => OnCourse(r, Planned(r))
<1> DEFINE M == mirrorOpsFor(decl[r], got[r])
<1>0. decl[r].kind \in {"mirror", "topic"} /\ decl[r].cfg \in Values
  BY CliAssumption DEF TypeOK
<1>1. /\ AclActions(r) \subseteq {"CreateAcl"} /\ AclActions(r) \subseteq Actions
      /\ got[r].acl \/ "CreateAcl" \in AclActions(r)
  BY ActionNames DEF AclActions
<1>2. /\ TopicActions(r) \subseteq {"CreateTopic", "UpdateTopicConfig"}
      /\ TopicActions(r) \subseteq Actions
  BY ActionNames DEF TopicActions
<1>3. Guard(got[r]) \in {"Rejected", "StateReadError", "none"}
  BY DEF Guard
<1>4. "run" \notin changed[r] =>
        /\ decl[r].kind = "topic" => got[r].live = topic
        /\ got[r].acl = acl
        /\ got[r].complete => got[r].topic = topic /\ got[r].entry = entry /\ got[r].link = link
  BY DEF RunInv, ViewInv, Planning
<1>5. CASE decl[r].kind = "mirror"
  <2>1. Planned(r) = M \cup AclActions(r)
    BY <1>5 DEF Planned
  <2>2. /\ M \subseteq Actions /\ ~(Posts \subseteq M)
        /\ \/ \E b \in M : b \in Stuck
           \/ "CreateMirrorTopic" \in M
           \/ /\ got[r].complete /\ got[r].topic.exists
              /\ got[r].entry.status \in Healthy \cup Progressing
              /\ SameMirror(got[r].entry, decl[r])
              /\ decl[r].rf > 0 => got[r].topic.rf = decl[r].rf
              /\ \/ decl[r].cfg \in {"unset", got[r].topic.cfg}
                 \/ "UpdateMirrorTopicConfig" \in M
    BY MirrorPlan
  <2> HIDE DEF M
  <2>3. Planned(r) \subseteq Actions /\ ~(Posts \subseteq Planned(r))
    BY <1>1, <2>1, <2>2 DEF Posts
  <2>4. ASSUME "run" \notin changed[r] PROVE OnCourse(r, Planned(r))
    <3>1. CASE \E b \in M : b \in Stuck
      BY <2>1, <3>1 DEF OnCourse
    <3>2. CASE "CreateMirrorTopic" \in M
      BY <1>1, <1>4, <1>5, <2>1, <2>4, <3>2 DEF OnCourse, Wanted
    <3>3. CASE /\ got[r].complete /\ got[r].topic.exists
               /\ got[r].entry.status \in Healthy \cup Progressing
               /\ SameMirror(got[r].entry, decl[r])
               /\ decl[r].rf > 0 => got[r].topic.rf = decl[r].rf
               /\ \/ decl[r].cfg \in {"unset", got[r].topic.cfg}
                  \/ "UpdateMirrorTopicConfig" \in M
      BY <1>1, <1>4, <1>5, <2>1, <2>4, <3>3 DEF OnCourse, Wanted
    <3> QED
      BY <2>2, <3>1, <3>2, <3>3
  <2> QED
    BY <1>5, <2>3, <2>4
<1>6. CASE decl[r].kind = "topic" /\ rest /\ Guard(got[r]) # "none"
  <2>1. Planned(r) = {Guard(got[r])}
    BY <1>6 DEF Planned
  <2>2. Planned(r) \subseteq Actions /\ \A a \in Posts : a \notin Planned(r)
    BY <1>3, <1>6, <2>1, ActionNames DEF Posts
  <2>3. OnCourse(r, Planned(r))
    BY <1>3, <1>6, <2>1 DEF OnCourse, Stuck
  <2> QED
    BY <2>2, <2>3 DEF Posts
<1>7. CASE decl[r].kind = "topic" /\ ~(rest /\ Guard(got[r]) # "none")
  <2>1. Planned(r) = TopicActions(r) \cup AclActions(r)
    BY <1>7 DEF Planned
  <2>2. Planned(r) \subseteq Actions /\ \A a \in Posts : a \notin Planned(r)
    BY <1>1, <1>2, <2>1 DEF Posts
  <2>3. ASSUME "run" \notin changed[r] PROVE Wanted(r, Planned(r))
    <3>1. rest => entry.status \in {"none"} \cup Stopped
      <4>1. SUFFICES ASSUME rest PROVE entry.status \in {"none"} \cup Stopped
        OBVIOUS
      <4>2. Classify(got[r].complete, got[r].topic.exists, got[r].entry)
              \notin {"Mirror", "StoppingMirror", "Unknown"}
        BY <1>7, <4>1 DEF Guard
      <4>3. got[r].complete /\ got[r].entry = entry
        BY <1>4, <2>3, <4>2 DEF Classify
      <4> QED
        BY <4>2, <4>3 DEF Classify
    <3>2. \/ "CreateTopic" \in TopicActions(r)
          \/ /\ topic.exists
             /\ decl[r].cfg \in {"unset", topic.cfg} \/ "UpdateTopicConfig" \in TopicActions(r)
      BY <1>4, <1>7, <2>3 DEF TopicActions
    <3> QED
      BY <1>1, <1>4, <1>7, <2>1, <2>3, <3>1, <3>2 DEF Wanted
  <2> QED
    BY <2>2, <2>3 DEF Posts, OnCourse
<1> QED
  BY <1>0, <1>5, <1>6, <1>7

(* Nothing left out of a plan, and nothing reported in it.                 *)
LEMMA ComputeKeeps ==
  ASSUME TypeOK, EntryInv, NEW r \in Runs, RunInv(r), Compute(r)
  PROVE  TypeOK' /\ EntryInv' /\ RunInv(r)'
<1>1. /\ Planned(r) \subseteq Actions
      /\ ~(Posts \subseteq Planned(r))
      /\ \A a \in Posts : a \in Planned(r) => decl[r].kind = "mirror"
      /\ "run" \notin changed[r] => OnCourse(r, Planned(r))
  BY PlanIsOnCourse DEF Compute
<1>2. /\ pc[r] = "plan" /\ got' = [got EXCEPT ![r] = Unread] /\ got'[r] = Unread
      /\ UNCHANGED <<cluster, decl, cmd, results, failedTopics, late, changed, landed, envOps,
                     faults>>
      /\ EntryInv'
  BY DEF Compute, TypeOK, EntryInv, cluster
<1>3. /\ Planning(r) /\ ops[r] = {} /\ results[r] = {} /\ failedTopics[r] = {} /\ Unsent(r)
      /\ exit[r] = -1
  BY <1>2 DEF Planning, RunInv, PlaceInv, PostInv
<1>4. DependInv(r)'
  BY <1>2, <1>3 DEF DependInv, CreateFailed, AclTried
<1>5. InSync(decl[r])' = InSync(decl[r]) /\ \A l : OnCourse(r, l)' = OnCourse(r, l)
  BY <1>2 DEF InSync, OnCourse, Wanted, cluster
<1>6. CASE cmd[r] = "apply" /\ ops' = [ops EXCEPT ![r] = Planned(r)] /\ Goto(r, "exec") /\ exit' = exit
  <2>1. /\ ops'[r] = Planned(r) /\ pc'[r] = "exec" /\ pc' = [pc EXCEPT ![r] = "exec"]
    BY <1>6 DEF Goto, TypeOK
  <2>2. TypeOK'
    BY <1>1, <1>2, <1>6, <2>1, UnreadIsView DEF TypeOK, cluster
  <2>3. ~Planning(r)' /\ ~AtWriter(r)' /\ Executing(r)'
    BY <2>1 DEF Planning, AtWriter, Executing, Reading, SnapshotReads
  <2>4. PlaceInv(r)'
    BY <1>2, <1>3, <1>6, <2>1, <2>3, UnreadIsView DEF PlaceInv
  <2>5. PostInv(r)'
    BY <1>1, <1>2, <1>3, <2>1, <2>3 DEF RunInv, PostInv, Unsent
  <2>6. ViewInv(r)' /\ CheckInv(r)'
    BY <1>2, <2>1, <2>3 DEF RunInv, ViewInv, CheckInv
  <2>7. TruthInv(r)'
    <3>1. "run" \notin changed'[r] => OnCourse(r, ops[r])'
      BY <1>1, <1>2, <2>1 DEF OnCourse, Wanted, cluster
    <3> QED
      BY <1>2, <1>3, <1>6, <3>1 DEF TruthInv
  <2> QED
    BY <1>2, <1>4, <2>2, <2>4, <2>5, <2>6, <2>7 DEF RunInv
<1>7. CASE /\ cmd[r] = "verify" /\ ops' = ops /\ Goto(r, "done")
           /\ exit' = [exit EXCEPT ![r] = VerifyExit({Op(r, a) : a \in Planned(r)})]
  <2> DEFINE code == VerifyExit({Op(r, a) : a \in Planned(r)})
  <2>1. /\ exit'[r] = code /\ pc'[r] = "done" /\ pc' = [pc EXCEPT ![r] = "done"]
    BY <1>7 DEF Goto, TypeOK
  <2>2. code \in {0, 1, 2}
    BY DEF VerifyExit
  <2>3. TypeOK'
    BY <1>2, <1>7, <2>1, <2>2, UnreadIsView DEF TypeOK, cluster
  <2>4. ~Planning(r)' /\ ~AtWriter(r)' /\ ~Executing(r)'
    BY <2>1 DEF Planning, AtWriter, Executing, Reading, SnapshotReads
  <2>5. PlaceInv(r)'
    BY <2>1, <2>4 DEF PlaceInv
  <2>6. PostInv(r)'
    BY <1>2, <1>7, <2>4 DEF RunInv, PostInv, Unsent
  <2>7. ViewInv(r)' /\ CheckInv(r)'
    BY <1>2, <2>1, <2>4 DEF RunInv, ViewInv, CheckInv
  <2>8. ASSUME code = 0, decl[r].mode # "ObserveOnly", "run" \notin changed[r]
        PROVE  InSync(decl[r])
    <3>1. \A a : Op(r, a).action = a /\ Op(r, a).mode = decl[r].mode
      BY DEF Op
    <3>2. \A a \in Planned(r) : a = "MirrorTopicProgressing"
      <4>1. SUFFICES ASSUME NEW a \in Planned(r) PROVE Informational(a)
        BY DEF Informational
      <4>2. Op(r, a) \in {Op(r, b) : b \in Planned(r)}
        OBVIOUS
      <4>3. ~OperationalError(Op(r, a).action)
            /\ (Informational(Op(r, a).action) \/ Op(r, a).mode = "ObserveOnly")
        BY <2>8, <4>2 DEF VerifyExit
      <4> QED
        BY <2>8, <3>1, <4>3
    <3>3. Wanted(r, Planned(r))
      BY <1>1, <2>8, <3>2 DEF OnCourse, Stuck, TerminalFindings
    <3>4. Wanted(r, {})
      BY <3>2, <3>3 DEF Wanted
    <3> QED
      BY <3>4, NothingWanted
  <2>9. TruthInv(r)'
    BY <1>2, <1>5, <1>7, <2>1, <2>4, <2>8 DEF TruthInv
  <2> QED
    BY <1>2, <1>4, <2>3, <2>5, <2>6, <2>7, <2>9 DEF RunInv
<1> QED
  BY <1>6, <1>7 DEF Compute

(***************************************************************************)
(* Reading.                                                                *)
(***************************************************************************)

(* A run begins: nobody has interfered yet.                                *)
LEMMA StartKeeps ==
  ASSUME TypeOK, EntryInv, NEW r \in Runs, RunInv(r), Start(r)
  PROVE  TypeOK' /\ EntryInv' /\ RunInv(r)'
<1>1. PICK p \in {"topics", "acls"} :
        p = (IF decl[r].kind = "topic" THEN "topics" ELSE "acls") /\ Goto(r, p)
  BY DEF Start
<1>2. /\ pc[r] = "idle" /\ pc'[r] = p /\ pc' = [pc EXCEPT ![r] = p] /\ changed'[r] = {}
      /\ changed' = [changed EXCEPT ![r] = {}]
      /\ UNCHANGED <<cluster, local, late, landed, envOps, faults>>
  BY <1>1 DEF Start, Goto, TypeOK
<1>3. p \in Reading
  BY DEF Reading
<1>4. TypeOK' /\ EntryInv'
  BY <1>2, <1>3 DEF TypeOK, EntryInv, cluster, local
<1>5. ops[r] = {} /\ Planning(r) /\ Planning(r)' /\ ~AtWriter(r)' /\ ~Executing(r)'
  BY <1>2, <1>3 DEF Planning, AtWriter, Executing, RunInv, PlaceInv, local
<1>6. PlaceInv(r)'
  BY <1>2, <1>5 DEF RunInv, PlaceInv, local
<1>7. PostInv(r)'
  BY <1>2, <1>5 DEF RunInv, PostInv, Unsent, local
<1>8. DependInv(r)'
  BY <1>2 DEF RunInv, DependInv, CreateFailed, AclTried, local
<1>9. ViewInv(r)' /\ CheckInv(r)'
  BY <1>1, <1>2 DEF ViewInv, CheckInv, local
<1>10. TruthInv(r)'
  BY <1>2, <1>5 DEF RunInv, PlaceInv, TruthInv, local
<1> QED
  BY <1>4, <1>6, <1>7, <1>8, <1>9, <1>10 DEF RunInv

(* A read moves nothing but the run's place and its view.                  *)
LEMMA ReadKeeps ==
  ASSUME TypeOK, EntryInv, NEW r \in Runs, RunInv(r), pc[r] \in Reading,
         NEW p \in Reading \cup {"plan", "check"}, pc' = [pc EXCEPT ![r] = p],
         p \in {"acls", "plan"} => ops[r] = {}, p = "check" => ops[r] # {}, p # "topics",
         UNCHANGED <<cluster, decl, cmd, ops, results, failedTopics, exit, late, changed, landed,
                     envOps>>,
         faults' \in Nat, NEW g \in View, got' = [got EXCEPT ![r] = g],
         p \in Reading => ~g.complete, ViewInv(r)'
  PROVE  TypeOK' /\ EntryInv' /\ RunInv(r)'
<1>1. pc'[r] = p /\ got'[r] = g /\ p \notin {"idle", "exec", "post", "done"}
      /\ "plan" \notin Reading /\ "check" \notin Reading
  BY DEF TypeOK, Reading, SnapshotReads
<1>2. TypeOK' /\ EntryInv'
  BY DEF TypeOK, EntryInv, cluster
<1>3. /\ Planning(r)' <=> Planning(r)
      /\ AtWriter(r)' <=> AtWriter(r)
      /\ Executing(r)' <=> Executing(r)
  <2>1. pc[r] \notin {"idle", "plan", "exec", "check", "post", "done"}
    BY DEF Reading, SnapshotReads
  <2>2. CASE ops[r] = {}
    <3>1. Planning(r) /\ ~AtWriter(r) /\ ~Executing(r)
      BY <2>1, <2>2 DEF Planning, AtWriter, Executing
    <3>2. Planning(r)' /\ ~AtWriter(r)' /\ ~Executing(r)'
      BY <1>1, <2>2 DEF Planning, AtWriter, Executing
    <3> QED
      BY <3>1, <3>2
  <2>3. CASE ops[r] # {}
    <3>1. ~Planning(r) /\ AtWriter(r) /\ Executing(r)
      BY <2>1, <2>3 DEF Planning, AtWriter, Executing
    <3>2. ~Planning(r)' /\ AtWriter(r)' /\ Executing(r)'
      BY <1>1, <2>3 DEF Planning, AtWriter, Executing
    <3> QED
      BY <3>1, <3>2
  <2> QED
    BY <2>2, <2>3
<1>4. PlaceInv(r)'
  <2>1. exit[r] = -1
    BY DEF RunInv, PlaceInv, Reading, SnapshotReads
  <2> QED
    BY <1>1, <1>3, <2>1 DEF RunInv, PlaceInv
<1>5. PostInv(r)'
  BY <1>3 DEF RunInv, PostInv, Unsent
<1>6. DependInv(r)'
  BY DEF RunInv, DependInv, CreateFailed, AclTried
<1>7. CheckInv(r)'
  BY <1>1 DEF CheckInv
<1>8. TruthInv(r)'
  BY <1>3 DEF RunInv, TruthInv, OnCourse, Wanted, InSync, cluster
<1> QED
  BY <1>2, <1>4, <1>5, <1>6, <1>7, <1>8 DEF RunInv

(* Where an answered read leads.                                           *)
LEMMA NextReadFacts ==
  ASSUME NEW r \in Runs, pc[r] \in Reading, RunInv(r)
  PROVE  /\ NextRead(r) \in Reading \cup {"plan", "check"}
         /\ NextRead(r) \in {"acls", "plan"} => ops[r] = {}
         /\ NextRead(r) = "check" => ops[r] # {}
         /\ NextRead(r) # "topics"
<1>1. pc[r] \in {"topics", "acls"} => ops[r] = {}
  BY DEF RunInv, PlaceInv
<1>2. /\ AfterSnapshot(r) \in {"plan", "check"}
      /\ AfterSnapshot(r) = "plan" => ops[r] = {}
      /\ AfterSnapshot(r) = "check" => ops[r] # {}
  BY DEF AfterSnapshot, Writing
<1>3. Reading = {"topics", "acls", "ids", "snapTopics", "mirrors", "links", "configs"}
  BY DEF Reading, SnapshotReads
<1> QED
  BY <1>1, <1>2, <1>3 DEF NextRead

(* The link's configs leave the rest of the snapshot alone, and complete   *)
(* the link to what it is unless it has moved since it was listed.         *)
LEMMA ConfigsFacts ==
  ASSUME NEW s \in View, link \in Link
  PROVE  /\ WithConfigs(s) \in View
         /\ s.link = link => WithConfigs(s).link = link
         /\ WithConfigs(s).live = s.live /\ WithConfigs(s).acl = s.acl
         /\ WithConfigs(s).topic = s.topic /\ WithConfigs(s).entry = s.entry
<1>1. CASE link.exists
  <2> DEFINE l == [s.link EXCEPT !.prefixed = link.prefixed, !.sync = link.sync]
  <2>1. WithConfigs(s) = [s EXCEPT !.link = l, !.complete = TRUE]
    BY <1>1 DEF WithConfigs, View
  <2>2. l \in Link /\ (s.link = link => l = link)
    BY DEF View, Link
  <2> HIDE DEF l
  <2> QED
    BY <2>1, <2>2 DEF View
<1>2. CASE ~link.exists
  BY <1>2 DEF WithConfigs, View
<1> QED
  BY <1>1, <1>2

(* A read that returns what is there.                                      *)
LEMMA GetKeeps ==
  ASSUME TypeOK, EntryInv, NEW r \in Runs, RunInv(r), Get(r)
  PROVE  TypeOK' /\ EntryInv' /\ RunInv(r)'
<1> DEFINE p == NextRead(r)
           g == Seen(r)
<1>1. /\ pc[r] \in Reading /\ pc' = [pc EXCEPT ![r] = p] /\ got' = [got EXCEPT ![r] = g]
      /\ UNCHANGED <<cluster, decl, cmd, ops, results, failedTopics, exit, late, changed, landed,
                     envOps, faults>>
  BY DEF Get, Goto
<1>2. /\ p \in Reading \cup {"plan", "check"} /\ p # "topics"
      /\ p \in {"acls", "plan"} => ops[r] = {}
      /\ p = "check" => ops[r] # {}
  BY <1>1, NextReadFacts
<1>3. Reading = {"topics", "acls", "ids", "snapTopics", "mirrors", "links", "configs"}
  BY DEF Reading, SnapshotReads
<1>4. /\ got[r] \in View /\ ~got[r].complete /\ topic \in Topic /\ entry \in Entry /\ link \in Links
      /\ acl \in BOOLEAN
  BY <1>1, <1>3 DEF TypeOK, RunInv, PlaceInv
<1>5. /\ pc[r] = "topics" => p = "acls" /\ g = [got[r] EXCEPT !.live = topic]
      /\ pc[r] = "acls" => p \in {"ids", "plan"} /\ g = [got[r] EXCEPT !.acl = acl]
      /\ pc[r] = "ids" =>
           p = "snapTopics" /\ g = [got[r] EXCEPT !.complete = FALSE, !.configErr = FALSE]
      /\ pc[r] = "snapTopics" => p = "mirrors" /\ g = [got[r] EXCEPT !.topic = topic]
      /\ pc[r] = "mirrors" => p = "links" /\ g = [got[r] EXCEPT !.entry = entry]
      /\ pc[r] = "links" =>
           /\ p \in {"configs", "plan", "check"}
           /\ g = [got[r] EXCEPT !.link = link, !.complete = p # "configs"]
      /\ pc[r] = "configs" => p \in {"plan", "check"} /\ g = WithConfigs(got[r])
  BY DEF NextRead, Seen, AfterSnapshot
<1>6. link \in Link
  BY <1>4, CliAssumption
<1>7. /\ WithConfigs(got[r]) \in View
      /\ got[r].link = link => WithConfigs(got[r]).link = link
      /\ WithConfigs(got[r]).live = got[r].live /\ WithConfigs(got[r]).acl = got[r].acl
      /\ WithConfigs(got[r]).topic = got[r].topic /\ WithConfigs(got[r]).entry = got[r].entry
  BY <1>4, <1>6, ConfigsFacts
<1> HIDE DEF p, g
<1>8. g \in View /\ (p \in Reading => ~g.complete)
  BY <1>1, <1>2, <1>3, <1>4, <1>5, <1>6, <1>7 DEF View
<1>9. ViewInv(r)'
  <2>1. pc'[r] = p /\ got'[r] = g /\ changed' = changed /\ ops' = ops /\ decl' = decl
    BY <1>1 DEF TypeOK
  <2>2. topic' = topic /\ entry' = entry /\ link' = link /\ acl' = acl
    BY <1>1 DEF cluster
  <2>3. Planning(r)' => Planning(r)
    BY <1>1, <1>2, <1>3, <2>1 DEF Planning
  <2>4. ViewInv(r)
    BY DEF RunInv
  <2>5. CASE pc[r] = "topics"
    BY <1>3, <1>4, <1>5, <2>1, <2>2, <2>3, <2>4, <2>5 DEF ViewInv, View
  <2>6. CASE pc[r] = "acls"
    BY <1>3, <1>4, <1>5, <2>1, <2>2, <2>3, <2>4, <2>6 DEF ViewInv, View
  <2>7. CASE pc[r] = "ids"
    BY <1>3, <1>4, <1>5, <2>1, <2>2, <2>3, <2>4, <2>7 DEF ViewInv, View
  <2>8. CASE pc[r] = "snapTopics"
    BY <1>3, <1>4, <1>5, <2>1, <2>2, <2>3, <2>4, <2>8 DEF ViewInv, View
  <2>9. CASE pc[r] = "mirrors"
    BY <1>3, <1>4, <1>5, <2>1, <2>2, <2>3, <2>4, <2>9 DEF ViewInv, View
  <2>10. CASE pc[r] = "links"
    BY <1>3, <1>4, <1>5, <2>1, <2>2, <2>3, <2>4, <2>10 DEF ViewInv, View
  <2>11. CASE pc[r] = "configs"
    BY <1>3, <1>4, <1>5, <2>1, <2>2, <2>3, <2>4, <2>11, <1>7 DEF ViewInv
  <2> QED
    BY <1>1, <1>3, <2>5, <2>6, <2>7, <2>8, <2>9, <2>10, <2>11
<1>10. faults' \in Nat
  BY <1>1 DEF TypeOK
<1> QED
  BY <1>1, <1>2, <1>8, <1>9, <1>10, ReadKeeps

(* A read that does not: the run ends, or goes on without an answer it can *)
(* do without.                                                             *)
LEMMA GetFailsKeeps ==
  ASSUME TypeOK, EntryInv, NEW r \in Runs, RunInv(r), GetFails(r)
  PROVE  TypeOK' /\ EntryInv' /\ RunInv(r)'
<1>0. Reading = {"topics", "acls", "ids", "snapTopics", "mirrors", "links", "configs"}
  BY DEF Reading, SnapshotReads
<1>1. /\ faults' \in Nat
      /\ UNCHANGED <<cluster, decl, cmd, ops, results, failedTopics, late, changed, landed, envOps>>
  BY DEF GetFails, TypeOK
<1>2. CASE pc[r] \in {"topics", "acls"} /\ Goto(r, "done") /\ exit' = [exit EXCEPT ![r] = 2]
           /\ got' = got
  <2>1. pc'[r] = "done" /\ exit'[r] = 2 /\ pc' = [pc EXCEPT ![r] = "done"]
    BY <1>2 DEF Goto, TypeOK
  <2>2. TypeOK' /\ EntryInv'
    BY <1>1, <1>2, <2>1 DEF TypeOK, EntryInv, cluster
  <2>3. ~Planning(r)' /\ ~AtWriter(r)' /\ ~Executing(r)'
    BY <1>0, <2>1 DEF Planning, AtWriter, Executing
  <2>4. PlaceInv(r)' /\ ViewInv(r)' /\ CheckInv(r)' /\ TruthInv(r)'
    BY <1>1, <2>1, <2>3 DEF RunInv, PlaceInv, ViewInv, CheckInv, TruthInv
  <2>5. PostInv(r)'
    BY <1>1, <2>3 DEF RunInv, PostInv, Unsent
  <2>6. DependInv(r)'
    BY <1>1 DEF RunInv, DependInv, CreateFailed, AclTried
  <2> QED
    BY <2>2, <2>4, <2>5, <2>6 DEF RunInv
<1>3. CASE /\ pc[r] \in Reading \ {"topics", "acls"} /\ Goto(r, AfterSnapshot(r)) /\ exit' = exit
           /\ \/ /\ pc[r] # "configs"
                 /\ got' = [got EXCEPT ![r] = [got[r] EXCEPT !.complete = FALSE]]
              \/ /\ pc[r] = "configs"
                 /\ got' = [got EXCEPT ![r] = [got[r] EXCEPT !.complete = TRUE, !.configErr = TRUE]]
  <2> DEFINE p == AfterSnapshot(r)
  <2>1. /\ p \in {"plan", "check"} /\ pc' = [pc EXCEPT ![r] = p]
        /\ p = "plan" => ops[r] = {}
        /\ p = "check" => ops[r] # {}
    BY <1>3 DEF AfterSnapshot, Writing, Goto
  <2> HIDE DEF p
  <2>2. got[r] \in View
    BY DEF TypeOK
  <2>3. PICK g : /\ got' = [got EXCEPT ![r] = g]
                 /\ \/ pc[r] # "configs" /\ g = [got[r] EXCEPT !.complete = FALSE]
                    \/ /\ pc[r] = "configs"
                       /\ g = [got[r] EXCEPT !.complete = TRUE, !.configErr = TRUE]
    BY <1>3
  <2>4. /\ g \in View /\ (g.complete => pc[r] = "configs")
        /\ g.live = got[r].live /\ g.acl = got[r].acl /\ g.topic = got[r].topic
        /\ g.entry = got[r].entry /\ g.link = got[r].link
    BY <2>2, <2>3 DEF View
  <2>5. ViewInv(r)'
    <3>1. pc'[r] = p /\ got'[r] = g /\ changed' = changed /\ ops' = ops /\ decl' = decl
      BY <1>1, <2>1, <2>3 DEF TypeOK
    <3>2. topic' = topic /\ entry' = entry /\ link' = link /\ acl' = acl
      BY <1>1 DEF cluster
    <3>3. Planning(r)' => Planning(r)
      BY <1>3, <2>1, <3>1 DEF Planning
    <3> QED
      BY <1>0, <1>3, <2>1, <2>4, <3>1, <3>2, <3>3 DEF RunInv, ViewInv
  <2>6. p \notin Reading /\ p \in Reading \cup {"plan", "check"} /\ p # "topics"
        /\ (p \in {"acls", "plan"} => ops[r] = {}) /\ pc[r] \in Reading
    BY <1>0, <1>3, <2>1
  <2> QED
    BY <1>1, <1>3, <2>1, <2>3, <2>4, <2>5, <2>6, ReadKeeps
<1> QED
  BY <1>0, <1>2, <1>3 DEF GetFails

(***************************************************************************)
(* The theorems.                                                           *)
(***************************************************************************)

(* A run keeps its own invariant, whatever its step.                       *)
LEMMA StepKeeps ==
  ASSUME TypeOK, EntryInv, NEW r \in Runs, RunInv(r), Step(r)
  PROVE  TypeOK' /\ EntryInv' /\ RunInv(r)'
<1>1. CASE NotDispatched(r)
  <2>1. EntryInv'
    BY <1>1 DEF NotDispatched, cluster, EntryInv
  <2> QED
    BY <1>1, <2>1, NotDispatchedKeeps
<1> QED
  BY <1>1, StartKeeps, GetKeeps, GetFailsKeeps, ComputeKeeps, AdminStepsKeep, WriterReadsKeeps,
     WriterChecksKeeps, PostKeeps, FinishKeeps DEF Step

(* At first no run has started.                                            *)
LEMMA InitEstablishes == Init => CliInv
<1> SUFFICES ASSUME Init PROVE CliInv
  OBVIOUS
<1>1. PICK c \in Clusters : topic = c.topic /\ entry = c.entry /\ link = c.link
  BY DEF Init
<1>2. PICK i \in Invocations :
        decl = [r \in Runs |-> i[r].decl] /\ cmd = [r \in Runs |-> i[r].cmd]
  BY DEF Init
<1>3. /\ topic \in Topic /\ entry \in Entry /\ link \in Links /\ EntryInv
  BY <1>1, CliAssumption DEF EntryInv
<1>4. decl \in [Runs -> Declared] /\ cmd \in [Runs -> {"apply", "verify"}]
  BY <1>2, CliAssumption DEF Declared
<1>5. TypeOK
  BY <1>3, <1>4, UnreadIsView DEF Init, TypeOK
<1>6. ASSUME NEW r \in Runs PROVE RunInv(r)
  <2>1. /\ pc[r] = "idle" /\ ops[r] = {} /\ results[r] = {} /\ failedTopics[r] = {}
        /\ exit[r] = -1 /\ late = {} /\ landed[r] = 0 /\ changed[r] = {} /\ ~got[r].complete
    BY UnreadIsView DEF Init
  <2>2. Planning(r) /\ ~AtWriter(r) /\ ~Executing(r)
    BY <2>1 DEF Planning, AtWriter, Executing, Reading, SnapshotReads
  <2>3. PlaceInv(r)
    BY <2>1, <2>2 DEF PlaceInv
  <2>4. PostInv(r)
    BY <2>1 DEF PostInv, Unsent, Posts
  <2>5. DependInv(r)
    BY <2>1 DEF DependInv, CreateFailed, AclTried
  <2>6. ViewInv(r) /\ CheckInv(r)
    BY <2>1 DEF ViewInv, CheckInv
  <2>7. TruthInv(r)
    BY <2>1, <2>2 DEF TruthInv
  <2> QED
    BY <2>3, <2>4, <2>5, <2>6, <2>7 DEF RunInv
<1> QED
  BY <1>3, <1>5, <1>6 DEF CliInv

(* Every step, of a run, of another one or of anybody else, keeps the      *)
(* invariant.                                                              *)
LEMMA NextPreserves == CliInv /\ [Next]_vars => CliInv'
<1> SUFFICES ASSUME CliInv, [Next]_vars PROVE CliInv'
  OBVIOUS
<1>1. CASE \E s \in Runs : Step(s)
  <2>1. PICK s \in Runs : Step(s)
    BY <1>1
  <2>2. TypeOK' /\ EntryInv' /\ RunInv(s)'
    BY <2>1, StepKeeps DEF CliInv
  <2>3. ASSUME NEW r \in Runs, r # s PROVE RunInv(r)'
    BY <2>1, <2>3, OthersAreApart, ApartKeeps DEF CliInv
  <2> QED
    BY <2>2, <2>3 DEF CliInv
<1>2. CASE DeliverLate
  BY <1>2, LateKeeps
<1>3. CASE Environment
  <2>1. TypeOK' /\ EntryInv'
    BY <1>3, EnvironmentKeepsTypes DEF CliInv
  <2>2. ASSUME NEW r \in Runs PROVE RunInv(r)'
    BY <1>3, EnvironmentIsApart, ApartKeeps DEF CliInv
  <2> QED
    BY <2>1, <2>2 DEF CliInv
<1>4. CASE UNCHANGED vars
  <2>1. TypeOK' /\ EntryInv'
    BY <1>4 DEF vars, CliInv, TypeOK, EntryInv
  <2>2. ASSUME NEW r \in Runs PROVE RunInv(r)'
    <3>1. Untouched(r) /\ Noted(r)
      BY <1>4 DEF vars, Untouched, Noted
    <3> QED
      BY <3>1, ApartKeeps DEF CliInv
  <2> QED
    BY <2>1, <2>2 DEF CliInv
<1> QED
  BY <1>1, <1>2, <1>3, <1>4 DEF Next, Environment

(* The invariant, of every run and every interference.                     *)
THEOREM CliInvariant == Spec => []CliInv
  BY InitEstablishes, NextPreserves, PTL DEF Spec

(* The state has its declared shape: no answer, finding or declaration     *)
(* puts anything into a view, a plan or the cluster that is not one.       *)
THEOREM TypeCorrect == Spec => []TypeOK
<1>1. CliInv => TypeOK
  BY DEF CliInv
<1> QED
  BY <1>1, CliInvariant, PTL

(***************************************************************************)
(* Exit 0 of apply and of verify can be believed, for any number of runs,  *)
(* faults and changes: cli/apply.go, cli/verify.go and executor.Result.OK  *)
(* pass over nothing.                                                      *)
(***************************************************************************)
THEOREM ExitZeroIsBelievable == Spec => []ExitZeroIsTruthful
<1>1. CliInv => ExitZeroIsTruthful
  BY DEF CliInv, RunInv, TruthInv, ExitZeroIsTruthful
<1> QED
  BY <1>1, CliInvariant, PTL

(***************************************************************************)
(* One run's POST takes effect at most once, however late it is applied:   *)
(* mirror.Writer sends it once (httpretry.Do with idempotent = false).     *)
(***************************************************************************)
THEOREM OnePostPerRun == Spec => []PostsLandOnce
<1>1. CliInv => PostsLandOnce
  BY DEF CliInv, RunInv, PostInv, PostsLandOnce
<1> QED
  BY <1>1, CliInvariant, PTL

(***************************************************************************)
(* No run tries to grant on a topic whose creation failed before: the      *)
(* executor's order and its prerequisite skip together.                    *)
(***************************************************************************)
THEOREM NoGrantOnFailedTopic == Spec => []FailedTopicHasNoDependents
<1>1. CliInv => FailedTopicHasNoDependents
  BY DEF CliInv, RunInv, DependInv, CreateFailed, AclTried, FailedTopicHasNoDependents
<1> QED
  BY <1>1, CliInvariant, PTL

(***************************************************************************)
(* A mirror write that lands while nobody interfered with its writer meets *)
(* the rules on the live cluster, however old the plan (mirror.Writer's    *)
(* fresh snapshot and pre-write check).                                    *)
(***************************************************************************)
THEOREM WritesAreChecked == Spec => WritesMeetTheRules
<1> DEFINE Meets(r) ==
      landed'[r] # landed[r] /\ "write" \notin changed[r] /\ pc[r] = "post" =>
        /\ link.exists /\ KeyIsFree(link, decl[r])
        /\ IF IsNext("CreateMirrorTopic", ops[r])
             THEN /\ ~topic.exists /\ entry = NoEntry
                  /\ LinkActive(link) /\ CheckPrefix(link, decl[r])
             ELSE /\ SameMirror(entry, decl[r])
                  /\ entry.status \notin Stopping \cup Stopped
<1>1. CliInv => [\A r \in Runs : Meets(r)]_vars
  <2> SUFFICES ASSUME CliInv, NEW r \in Runs, "write" \notin changed[r], pc[r] = "post"
               PROVE  /\ link.exists /\ KeyIsFree(link, decl[r])
                      /\ IF IsNext("CreateMirrorTopic", ops[r])
                           THEN /\ ~topic.exists /\ entry = NoEntry
                                /\ LinkActive(link) /\ CheckPrefix(link, decl[r])
                           ELSE /\ SameMirror(entry, decl[r])
                                /\ entry.status \notin Stopping \cup Stopped
    OBVIOUS
  <2>1. PICK a \in Posts : IsNext(a, ops[r])
    BY DEF CliInv, RunInv, PlaceInv, AtWriter
  <2>2. Permitted(r, a)
    BY <2>1 DEF CliInv, RunInv, CheckInv
  <2>3. IsNext("CreateMirrorTopic", ops[r]) <=> a = "CreateMirrorTopic"
    BY <2>1, OneIsNext
  <2> QED
    BY <2>2, <2>3 DEF Permitted
<1> QED
  BY <1>1, CliInvariant, PTL DEF WritesMeetTheRules
=============================================================================
