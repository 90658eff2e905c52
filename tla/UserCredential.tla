--------------------------- MODULE UserCredential ---------------------------
(***************************************************************************)
(* One KafkaUser: the password it takes from a Secret, the SCRAM           *)
(* credentials the broker holds for it, and the reconcile that carries the *)
(* one to the other.  Kafka never shows a password, so a changed password  *)
(* is not drift: the reconcile must know that it has to rotate, from the   *)
(* resourceVersion recorded in status (a referenced Secret) or from having *)
(* just minted the password (a generated one).                             *)
(*                                                                         *)
(* Passwords are numbered in the order they come into being.  Deletion of  *)
(* the CR and rival CRs are IdentityGate's subject.                        *)
(***************************************************************************)
EXTENDS Integers, FiniteSets

CONSTANTS
  Sources,        \* of {"generate", "valueFrom"}, those the user's spec may choose
  SourceFlips,    \* whether an edit may go from one of them to the other
  Mechanisms,     \* SCRAM mechanisms
  Iterations,     \* iteration counts a spec may pin; 0 pins none
  BrokerDefault,  \* the count the broker uses when none is pinned
  NoMechanism,
  MaxUserOps,     \* bound: changes to the CR and to Secrets by users
  MaxFaults       \* bound: failing calls, restarts, credentials lost on the broker

ASSUME ConstantsAssumption ==
  /\ Sources \subseteq {"generate", "valueFrom"} /\ Sources # {}
  /\ SourceFlips \in BOOLEAN
  /\ Mechanisms # {} /\ NoMechanism \notin Mechanisms
  /\ Iterations \subseteq Nat /\ Iterations # {}
  /\ BrokerDefault \in Nat \ {0}
  /\ MaxUserOps \in Nat /\ MaxFaults \in Nat

VARIABLES
  user,        \* API server: the KafkaUser's spec and status
  cached,      \* the informer cache's copy of it
  refSecret,   \* the Secret valueFrom.secretKeyRef names
  genSecret,   \* the Secret "<name>-kafka-credentials"
  broker,      \* the user's SCRAM credential per mechanism
  pc, copy, live, source, result,   \* a reconcile's place and locals
  minted,      \* passwords that have come into being so far
  stored,      \* passwords some Secret has held
  lost,        \* credentials removed behind the operator's back, not restored
  userOps, faults

locals  == <<copy, live, source, result>>
secrets == <<refSecret, genSecret, minted, stored>>
kafka   == <<broker, lost>>
budgets == <<userOps, faults>>
vars == <<user, cached, refSecret, genSecret, broker, pc, copy, live, source, result,
          minted, stored, lost, userOps, faults>>

(* Password 0 is no password; resourceVersion 0 is no recorded reference.  *)
User ==
  [gen : Nat, source : Sources, mechanism : Mechanisms, iterations : Iterations,
   ready : BOOLEAN, observed : Nat, applied : Nat]

Credential == [password : Nat, iterations : Nat]

NoCredential == [password |-> 0, iterations |-> 0]

RefSecret == [exists : BOOLEAN, password : Nat, rv : Nat]

GenSecret ==
  [state : {"absent", "owned", "foreign"}, password : Nat,
   mechanism : Mechanisms \cup {NoMechanism}]

NoSecret == [state |-> "absent", password |-> 0, mechanism |-> NoMechanism]

PasswordSource == [password : Nat, rotate : BOOLEAN, rv : Nat]

NoSource == [password |-> 0, rotate |-> FALSE, rv |-> 0]

TypeOK ==
  /\ user \in User
  /\ cached \in User
  /\ refSecret \in RefSecret
  /\ genSecret \in GenSecret
  /\ broker \in [Mechanisms -> Credential]
  /\ pc \in {"idle", "list", "source", "upsert", "deleteOld", "status"}
  /\ copy \in User
  /\ live \in [Mechanisms -> Credential]
  /\ source \in PasswordSource
  /\ result \in BOOLEAN
  /\ minted \in Nat
  /\ stored \subseteq 1..minted
  /\ lost \subseteq Mechanisms
  /\ userOps \in Nat
  /\ faults \in Nat

(* The CR has just been created; its referenced Secret exists, and the     *)
(* broker may hold a credential with a password of unknown origin.         *)
Init ==
  /\ user \in {[gen |-> 1, source |-> s, mechanism |-> m, iterations |-> i,
                ready |-> FALSE, observed |-> 0, applied |-> 0] :
                 s \in Sources, m \in Mechanisms, i \in Iterations}
  /\ cached = user
  /\ refSecret = [exists |-> TRUE, password |-> 1, rv |-> 1]
  /\ genSecret = NoSecret
  /\ \/ broker = [m \in Mechanisms |-> NoCredential]
     \/ \E m \in Mechanisms :
          broker = [[n \in Mechanisms |-> NoCredential] EXCEPT
                      ![m] = [password |-> 2, iterations |-> BrokerDefault]]
  /\ pc = "idle"
  /\ copy = user
  /\ live = [m \in Mechanisms |-> NoCredential]
  /\ source = NoSource
  /\ result = FALSE
  /\ minted = 2
  /\ stored = {1, 2}
  /\ lost = {}
  /\ userOps = 0
  /\ faults = 0

Fault ==
  /\ faults < MaxFaults
  /\ faults' = faults + 1
  /\ UNCHANGED userOps

-----------------------------------------------------------------------------
(* The diff.                                                               *)

Present(creds, m) == creds[m] # NoCredential

(* Mutant: the iteration counts are compared although none is pinned.      *)
InSyncUnpinned(creds) ==
  /\ Present(creds, copy.mechanism)
  /\ creds[copy.mechanism].iterations = copy.iterations

InSync(creds) ==
  /\ Present(creds, copy.mechanism)
  /\ copy.iterations \in {0, creds[copy.mechanism].iterations}

(* computeUserOps: an upsert unless the credential is in sync and no       *)
(* rotation is asked for.                                                  *)
NeedsUpsert(rotate) == ~InSync(live) \/ rotate

(* The mechanism a mechanism change drops once the new one is in place.    *)
ScramDeleteMechanism ==
  IF Present(live, copy.mechanism) \/ \A m \in Mechanisms : ~Present(live, m)
    THEN NoMechanism
    ELSE CHOOSE m \in Mechanisms : Present(live, m)

-----------------------------------------------------------------------------
(* ReconcileUser.                                                          *)

Begin ==
  /\ pc = "idle"
  /\ copy' = cached
  /\ pc' = "list"
  /\ UNCHANGED <<user, cached, secrets, kafka, live, source, result, budgets>>

ListScramCredentials ==
  /\ pc = "list"
  /\ live' = broker
  /\ pc' = "source"
  /\ UNCHANGED <<user, cached, secrets, kafka, copy, source, result, budgets>>

(* The source yields a password: diff, then upsert or report.              *)
Sourced(password, rotate, rv) ==
  /\ source' = [password |-> password, rotate |-> rotate, rv |-> rv]
  /\ result' = TRUE
  /\ pc' = IF NeedsUpsert(rotate) THEN "upsert" ELSE "status"

(* The source yields none: Ready becomes False.                            *)
Unsourced ==
  /\ source' = NoSource
  /\ result' = FALSE
  /\ pc' = "status"

(* Mutant: the Secret's version is looked at only once, for the first apply. *)
sourceReferencedPasswordOnce ==
  /\ pc = "source"
  /\ copy.source = "valueFrom"
  /\ IF refSecret.exists
       THEN Sourced(refSecret.password, copy.applied = 0,
                    IF copy.applied = 0 THEN refSecret.rv ELSE copy.applied)
       ELSE Unsourced
  /\ UNCHANGED <<user, cached, secrets, kafka, copy, live, budgets>>

sourceReferencedPassword ==
  /\ pc = "source"
  /\ copy.source = "valueFrom"
  /\ IF refSecret.exists
       THEN Sourced(refSecret.password, copy.applied # refSecret.rv, refSecret.rv)
       ELSE Unsourced
  /\ UNCHANGED <<user, cached, secrets, kafka, copy, live, budgets>>

(* An owned Secret with a password is reused, without a rotation; its      *)
(* mechanism key is refreshed.  A foreign one is never adopted.            *)
ReuseGenerated ==
  /\ pc = "source"
  /\ copy.source = "generate"
  /\ \/ genSecret.state = "foreign" /\ Unsourced /\ UNCHANGED genSecret
     \/ /\ genSecret.state = "owned"
        /\ genSecret.password # 0
        /\ genSecret' = [genSecret EXCEPT !.mechanism = copy.mechanism]
        /\ Sourced(genSecret.password, FALSE, 0)
  /\ UNCHANGED <<user, cached, refSecret, minted, stored, kafka, copy, live, budgets>>

(* Mutant: the upsert goes ahead although the Secret was not persisted.    *)
MintGeneratedUnstored ==
  /\ pc = "source"
  /\ copy.source = "generate"
  /\ genSecret.state # "foreign" /\ genSecret.password = 0
  /\ minted' = minted + 1
  /\ Sourced(minted', TRUE, 0)
  /\ UNCHANGED <<user, cached, refSecret, genSecret, stored, kafka, copy, live, budgets>>

(* No Secret, or an owned one without a password: a fresh password is      *)
(* minted and persisted before the broker sees it, and rotated in.         *)
MintGenerated ==
  /\ pc = "source"
  /\ copy.source = "generate"
  /\ genSecret.state # "foreign" /\ genSecret.password = 0
  /\ minted' = minted + 1
  /\ genSecret' = [state |-> "owned", password |-> minted', mechanism |-> copy.mechanism]
  /\ stored' = stored \cup {minted'}
  /\ Sourced(minted', TRUE, 0)
  /\ UNCHANGED <<user, cached, refSecret, kafka, copy, live, budgets>>

(* Listing the credentials, reading a Secret or writing one fails; a       *)
(* failing write may still have landed.                                    *)
ReadOrWriteFails ==
  /\ pc \in {"list", "source"}
  /\ \/ UNCHANGED <<genSecret, minted, stored>>
     \/ /\ pc = "source" /\ copy.source = "generate"
        /\ genSecret.state # "foreign" /\ genSecret.password = 0
        /\ minted' = minted + 1
        /\ genSecret' = [state |-> "owned", password |-> minted', mechanism |-> copy.mechanism]
        /\ stored' = stored \cup {minted'}
  /\ Unsourced
  /\ Fault
  /\ UNCHANGED <<user, cached, refSecret, kafka, copy, live>>

Upserted ==
  [password   |-> source.password,
   iterations |-> IF copy.iterations = 0 THEN BrokerDefault ELSE copy.iterations]

(* Mutant: the old mechanism goes first.                                   *)
upsertScramDeletesFirst ==
  /\ pc = "upsert"
  /\ broker' = IF ScramDeleteMechanism = NoMechanism
                 THEN [broker EXCEPT ![copy.mechanism] = Upserted]
                 ELSE [broker EXCEPT ![ScramDeleteMechanism] = NoCredential]
  /\ lost' = lost \ {copy.mechanism}
  /\ pc' = "status"
  /\ UNCHANGED <<user, cached, secrets, locals, budgets>>

upsertScram ==
  /\ pc = "upsert"
  /\ broker' = [broker EXCEPT ![copy.mechanism] = Upserted]
  /\ lost' = lost \ {copy.mechanism}
  /\ pc' = IF ScramDeleteMechanism = NoMechanism THEN "status" ELSE "deleteOld"
  /\ UNCHANGED <<user, cached, secrets, locals, budgets>>

(* The old mechanism is dropped only after the upsert.                     *)
DeleteOldMechanism ==
  /\ pc = "deleteOld"
  /\ broker' = [broker EXCEPT ![ScramDeleteMechanism] = NoCredential]
  /\ UNCHANGED lost
  /\ pc' = "status"
  /\ UNCHANGED <<user, cached, secrets, locals, budgets>>

(* Mutant: a failed upsert is taken for a success.                         *)
ApplyFailsSwallowed ==
  /\ pc \in {"upsert", "deleteOld"}
  /\ UNCHANGED <<kafka, result>>
  /\ pc' = "status"
  /\ Fault
  /\ UNCHANGED <<user, cached, secrets, copy, live, source>>

(* A broker call fails, having taken effect or not.                        *)
ApplyFails ==
  /\ pc \in {"upsert", "deleteOld"}
  /\ \/ UNCHANGED broker
     \/ pc = "upsert" /\ broker' = [broker EXCEPT ![copy.mechanism] = Upserted]
     \/ pc = "deleteOld" /\ broker' = [broker EXCEPT ![ScramDeleteMechanism] = NoCredential]
  /\ lost' = {m \in lost : ~Present(broker', m)}
  /\ result' = FALSE
  /\ pc' = "status"
  /\ Fault
  /\ UNCHANGED <<user, cached, secrets, copy, live, source>>

(* Mutant: a failed apply steps the watermark back, to force a rotation.    *)
AppliedPasswordRefStepsBack ==
  IF copy.source = "generate" /\ source.password # 0 THEN 0
  ELSE IF result /\ source.rv # 0 THEN source.rv
  ELSE copy.applied - 1

(* What the reconcile reports: the watermark moves only with a successful  *)
(* apply, is cleared by a sourced generate spec and otherwise carried on.  *)
AppliedPasswordRef ==
  IF copy.source = "generate" /\ source.password # 0 THEN 0
  ELSE IF result /\ source.rv # 0 THEN source.rv
  ELSE copy.applied

(* updateStatus: re-read through the cache, written with that version.     *)
UpdateStatus ==
  /\ pc = "status"
  /\ cached = user
  /\ user' = [user EXCEPT !.ready = result, !.observed = copy.gen, !.applied = AppliedPasswordRef]
  /\ pc' = "idle"
  /\ live' = [m \in Mechanisms |-> NoCredential]
  /\ source' = NoSource
  /\ result' = FALSE
  /\ UNCHANGED <<cached, secrets, kafka, copy, budgets>>

UpdateStatusFails ==
  /\ pc = "status"
  /\ \/ cached # user /\ UNCHANGED budgets
     \/ cached = user /\ Fault
  /\ pc' = "idle"
  /\ live' = [m \in Mechanisms |-> NoCredential]
  /\ source' = NoSource
  /\ result' = FALSE
  /\ UNCHANGED <<user, cached, secrets, kafka, copy>>

-----------------------------------------------------------------------------
(* The environment.                                                        *)

UserStep ==
  /\ userOps < MaxUserOps
  /\ userOps' = userOps + 1
  /\ UNCHANGED <<cached, kafka, pc, locals, faults>>

EditSpec(s, m, i) ==
  /\ s # user.source => SourceFlips
  /\ <<s, m, i>> # <<user.source, user.mechanism, user.iterations>>
  /\ user' = [user EXCEPT !.gen = @ + 1, !.source = s, !.mechanism = m, !.iterations = i]
  /\ UNCHANGED secrets
  /\ UserStep

(* The owner of the referenced Secret changes its password, changes        *)
(* something else about it, deletes it or creates it again.                *)
ChangeRefSecret ==
  /\ "valueFrom" \in Sources
  /\ \/ /\ minted' = minted + 1
        /\ stored' = stored \cup {minted'}
        /\ refSecret' = [exists |-> TRUE, password |-> minted', rv |-> refSecret.rv + 1]
     \/ /\ refSecret.exists
        /\ refSecret' = [refSecret EXCEPT !.rv = @ + 1]
        /\ UNCHANGED <<minted, stored>>
     \/ /\ refSecret.exists
        /\ refSecret' = [refSecret EXCEPT !.exists = FALSE]
        /\ UNCHANGED <<minted, stored>>
  /\ UNCHANGED <<user, genSecret>>
  /\ UserStep

(* Deleting the generated Secret, or emptying it, asks for a rotation; a   *)
(* foreign Secret may take its name.                                       *)
ChangeGenSecret ==
  /\ "generate" \in Sources
  /\ \/ genSecret.state # "absent" /\ genSecret' = NoSecret
     \/ genSecret.state = "owned" /\ genSecret.password # 0
          /\ genSecret' = [genSecret EXCEPT !.password = 0]
     \/ genSecret.state = "absent"
          /\ genSecret' = [state |-> "foreign", password |-> 0, mechanism |-> NoMechanism]
  /\ UNCHANGED <<user, refSecret, minted, stored>>
  /\ UserStep

CacheSync ==
  /\ cached # user
  /\ cached' = user
  /\ UNCHANGED <<user, secrets, kafka, pc, locals, budgets>>

(* Somebody removes the credential from the broker.                        *)
LoseCredential(m) ==
  /\ Present(broker, m)
  /\ broker' = [broker EXCEPT ![m] = NoCredential]
  /\ lost' = lost \cup {m}
  /\ Fault
  /\ UNCHANGED <<user, cached, secrets, pc, locals>>

Crash ==
  /\ pc # "idle"
  /\ Fault
  /\ pc' = "idle"
  /\ cached' = user
  /\ live' = [m \in Mechanisms |-> NoCredential]
  /\ source' = NoSource
  /\ result' = FALSE
  /\ UNCHANGED <<user, secrets, kafka, copy>>

-----------------------------------------------------------------------------

(* The steps of the reconcile that succeed or need no fault.               *)
ReconcileUser ==
  \/ Begin \/ ListScramCredentials \/ sourceReferencedPassword \/ ReuseGenerated
  \/ MintGenerated \/ upsertScram \/ DeleteOldMechanism \/ UpdateStatus \/ UpdateStatusFails

Next ==
  \/ ReconcileUser \/ ReadOrWriteFails \/ ApplyFails \/ CacheSync \/ Crash
  \/ \E s \in Sources, m \in Mechanisms, i \in Iterations : EditSpec(s, m, i)
  \/ ChangeRefSecret \/ ChangeGenSecret
  \/ \E m \in Mechanisms : LoseCredential(m)

Spec == Init /\ [][Next]_vars

(* The resync interval and the error backoff bring the reconcile back, its *)
(* calls end, and the watch delivers.                                      *)
FairSpec == Spec /\ WF_vars(ReconcileUser) /\ WF_vars(CacheSync) /\ SF_vars(UpdateStatus)

-----------------------------------------------------------------------------
(* Properties.                                                             *)

(* The broker never holds a password that no Secret has held: nobody could *)
(* read it back (Secret-first ordering in generate mode).                  *)
BrokerPasswordWasStored ==
  \A m \in Mechanisms : Present(broker, m) => broker[m].password \in stored

(* No step of the operator takes the user's last credential away: a        *)
(* mechanism change keeps the principal able to authenticate throughout.   *)
NeverLockedOut ==
  [][pc' # pc /\ (\E m \in Mechanisms : Present(broker, m))
       => \E m \in Mechanisms : Present(broker', m) \/ m \in lost]_vars

(* The broker holds, and has lost, no credential of another mechanism.  A  *)
(* leftover one keeps its password when the Secret changes, and counts as  *)
(* in sync when the spec goes back to its mechanism.                       *)
NoLeftover ==
  \A m \in Mechanisms \ {user.mechanism} : ~Present(broker, m) /\ m \notin lost

(* The recorded watermark is truthful: if status says that the Secret's    *)
(* current version was applied, the declared credential has its password,  *)
(* unless it was lost.                                                     *)
WatermarkTruthful ==
  user.source = "valueFrom" /\ refSecret.exists /\ user.applied = refSecret.rv /\ NoLeftover
    => \/ ~Present(broker, user.mechanism)
       \/ broker[user.mechanism].password = refSecret.password

(* Once users and faults stop, the broker accepts the password that the    *)
(* referenced Secret holds, and keeps accepting it: every rotation is      *)
(* applied in the end, whatever was interrupted before.                    *)
ReferencedPasswordConverges ==
  <>[](user.source = "valueFrom" /\ refSecret.exists /\ NoLeftover
         => broker[user.mechanism].password = refSecret.password)

(* The same of a generated password: the next reconcile applies a password *)
(* that was stored but not yet applied (ReconcileUser's crash ordering).   *)
StoredPasswordIsApplied ==
  <>[](user.source = "generate" /\ genSecret.state = "owned" /\ genSecret.password # 0
         => broker[user.mechanism].password = genSecret.password)

(* Steady state performs no upserts: once everything stopped changing, the *)
(* reconciles stop writing to the broker.                                  *)
SteadyStateIsQuiet == <>[](pc # "upsert")

=============================================================================
