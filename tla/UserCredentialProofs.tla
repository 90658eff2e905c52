------------------------ MODULE UserCredentialProofs ------------------------
(***************************************************************************)
(* Proofs about one KafkaUser: the type invariant, the Secret-first        *)
(* ordering, that the operator never locks the user out, and that the      *)
(* recorded watermark is truthful as long as the password's source stays   *)
(* the same.                                                               *)
(***************************************************************************)
EXTENDS UserCredential, TLAPS

-----------------------------------------------------------------------------
(* Inductive invariants.                                                   *)

(* A password in a Secret, or on its way from one to the broker, is one    *)
(* that a Secret has held.                                                 *)
PasswordInv ==
  /\ refSecret.password \in stored
  /\ genSecret.password # 0 => genSecret.password \in stored
  /\ pc \in {"upsert", "deleteOld"} => source.password \in stored
  /\ BrokerPasswordWasStored

(* m is a mechanism for which the broker holds a credential, or would hold *)
(* one had nobody removed it.                                              *)
Held(m) == Present(broker, m) \/ m \in lost

(* Between the upsert and the deletion of the old mechanism, the new       *)
(* mechanism's credential is in place and the two are not the same.        *)
ReplacedInv ==
  pc = "deleteOld" => /\ Held(copy.mechanism)
                      /\ ScramDeleteMechanism \in Mechanisms \ {copy.mechanism}

(* If only one credential is left, it has the referenced Secret's password.*)
SoleIsCurrent ==
  \A m \in Mechanisms :
    Present(broker, m) /\ (\A n \in Mechanisms \ {m} : ~Held(n))
      => broker[m].password = refSecret.password

(* What the watermark needs: every copy of it is at most the version read  *)
(* by the reconcile that is applying a password, which is at most the      *)
(* Secret's; equal versions mean equal passwords; and a watermark that     *)
(* equals the Secret's version means that the last credential is current.  *)
SameSource == cached.source = user.source /\ copy.source = user.source

VersionInv ==
  /\ refSecret.rv # 0
  /\ \A a \in {user.applied, cached.applied, copy.applied} :
       /\ a <= refSecret.rv
       /\ pc \in {"upsert", "deleteOld"} => a <= source.rv
  /\ source.rv <= refSecret.rv
  /\ source.rv = refSecret.rv => source.password = refSecret.password
  /\ pc \in {"upsert", "deleteOld"} => source.rv # 0 /\ result

WatermarkInv ==
  /\ refSecret.rv \in {user.applied, cached.applied, copy.applied} => SoleIsCurrent
  /\ pc = "deleteOld" /\ Present(broker, copy.mechanism)
       => broker[copy.mechanism].password = source.password
  /\ pc = "status" /\ result /\ source.rv = refSecret.rv => SoleIsCurrent

ReferenceInv ==
  /\ SameSource
  /\ user.source = "valueFrom" => VersionInv /\ WatermarkInv

-----------------------------------------------------------------------------
(* Types.                                                                  *)

(* What an upsert writes is a credential, never the absence of one.        *)
LEMMA UpsertedType ==
  ASSUME TypeOK
  PROVE  /\ Upserted \in Credential /\ Upserted # NoCredential
         /\ Upserted.password = source.password
<1>1. copy.iterations \in Nat /\ source.password \in Nat
  BY ConstantsAssumption DEF TypeOK, User, PasswordSource
<1>. QED  BY <1>1, ConstantsAssumption DEF Upserted, Credential, NoCredential

(* The mechanism a change drops was on the broker and is not the new one.  *)
LEMMA ScramDeleteType ==
  ASSUME TypeOK
  PROVE  \/ ScramDeleteMechanism = NoMechanism
         \/ ScramDeleteMechanism \in Mechanisms \ {copy.mechanism}
<1>1. CASE Present(live, copy.mechanism) \/ \A m \in Mechanisms : ~Present(live, m)
  BY <1>1 DEF ScramDeleteMechanism
<1>2. CASE ~(Present(live, copy.mechanism) \/ \A m \in Mechanisms : ~Present(live, m))
  <2>. DEFINE d == CHOOSE m \in Mechanisms : Present(live, m)
  <2>1. ScramDeleteMechanism = d
    BY <1>2 DEF ScramDeleteMechanism
  <2>2. d \in Mechanisms /\ Present(live, d)
    BY <1>2
  <2>. HIDE DEF d
  <2>. QED  BY <1>2, <2>1, <2>2
<1>. QED  BY <1>1, <1>2

(* The empty credential map and the empty source have their types.         *)
LEMMA EmptyTypes ==
  /\ [m \in Mechanisms |-> NoCredential] \in [Mechanisms -> Credential]
  /\ NoCredential \in Credential /\ NoSource \in PasswordSource /\ NoSecret \in GenSecret
BY DEF NoCredential, Credential, NoSource, PasswordSource, NoSecret, GenSecret

(* The initial states are well typed.                                      *)
LEMMA TypeInit == Init => TypeOK
<1>. SUFFICES ASSUME Init PROVE TypeOK
  OBVIOUS
<1>1. user \in User
  <2>1. PICK s \in Sources, m \in Mechanisms, i \in Iterations :
          user = [gen |-> 1, source |-> s, mechanism |-> m, iterations |-> i,
                  ready |-> FALSE, observed |-> 0, applied |-> 0]
    BY DEF Init
  <2>. QED  BY <2>1 DEF User
<1>2. refSecret \in RefSecret
  BY DEF Init, RefSecret
<1>3. broker \in [Mechanisms -> Credential]
  BY ConstantsAssumption DEF Init, Credential, NoCredential
<1>4. /\ cached = user /\ copy = user /\ pc = "idle" /\ genSecret = NoSecret /\ source = NoSource
      /\ live = [m \in Mechanisms |-> NoCredential] /\ result = FALSE /\ minted = 2
      /\ stored = {1, 2} /\ lost = {} /\ userOps = 0 /\ faults = 0
  BY DEF Init
<1>5. stored \subseteq 1..minted /\ minted \in Nat /\ userOps \in Nat /\ faults \in Nat
  BY <1>4
<1>6. result \in BOOLEAN
  BY <1>4
<1>. QED  BY <1>1, <1>2, <1>3, <1>4, <1>5, <1>6, EmptyTypes DEF TypeOK

(* A sourced reconcile goes on with a typed source; an unsourced one too.  *)
LEMMA SourcedType ==
  ASSUME NEW p \in Nat, NEW r \in BOOLEAN, NEW v \in Nat, Sourced(p, r, v) \/ Unsourced
  PROVE  /\ source' \in PasswordSource /\ result' \in BOOLEAN
         /\ pc' \in {"idle", "list", "source", "upsert", "deleteOld", "status"}
<1>1. CASE Sourced(p, r, v)
  <2>1. source' \in PasswordSource
    BY <1>1 DEF Sourced, PasswordSource
  <2>2. result' \in BOOLEAN
    BY <1>1 DEF Sourced
  <2>. QED  BY <1>1, <2>1, <2>2 DEF Sourced
<1>2. CASE Unsourced
  <2>1. result' \in BOOLEAN
    BY <1>2 DEF Unsourced
  <2>. QED  BY <1>2, <2>1, EmptyTypes DEF Unsourced
<1>. QED  BY <1>1, <1>2

(* Every step keeps the types.                                             *)
LEMMA TypeStep == TypeOK /\ [Next]_vars => TypeOK'
<1>. SUFFICES ASSUME TypeOK, [Next]_vars PROVE TypeOK'
  OBVIOUS
<1>. USE DEF secrets, kafka, locals, budgets
<1>0. /\ user \in User /\ copy \in User /\ copy.mechanism \in Mechanisms /\ copy.applied \in Nat
      /\ copy.gen \in Nat /\ source.rv \in Nat
      /\ refSecret.password \in Nat /\ refSecret.rv \in Nat /\ refSecret.exists \in BOOLEAN
      /\ genSecret.password \in Nat
      /\ genSecret.state \in {"absent", "owned", "foreign"}
      /\ genSecret.mechanism \in Mechanisms \cup {NoMechanism}
  BY DEF TypeOK, User, RefSecret, GenSecret, PasswordSource
<1>1. CASE Begin
  BY <1>1 DEF Begin, TypeOK
<1>2. CASE ListScramCredentials
  BY <1>2 DEF ListScramCredentials, TypeOK
<1>3. CASE sourceReferencedPassword
  <2>1. Sourced(refSecret.password, copy.applied # refSecret.rv, refSecret.rv) \/ Unsourced
    BY <1>3 DEF sourceReferencedPassword
  <2>2. (copy.applied # refSecret.rv) \in BOOLEAN
    OBVIOUS
  <2>3. /\ source' \in PasswordSource /\ result' \in BOOLEAN
        /\ pc' \in {"idle", "list", "source", "upsert", "deleteOld", "status"}
    BY <1>0, <2>1, <2>2, SourcedType
  <2>. QED  BY <1>3, <2>3 DEF sourceReferencedPassword, TypeOK
<1>4. CASE ReuseGenerated
  <2>1. Sourced(genSecret.password, FALSE, 0) \/ Unsourced
    BY <1>4 DEF ReuseGenerated
  <2>2. /\ source' \in PasswordSource /\ result' \in BOOLEAN
        /\ pc' \in {"idle", "list", "source", "upsert", "deleteOld", "status"}
    BY <1>0, <2>1, SourcedType
  <2>3. genSecret' \in GenSecret
    BY <1>0, <1>4 DEF ReuseGenerated, TypeOK, GenSecret
  <2>. QED  BY <1>4, <2>2, <2>3 DEF ReuseGenerated, TypeOK
<1>5. CASE MintGenerated
  <2>1. minted' \in Nat /\ stored' \subseteq 1..minted'
    BY <1>5 DEF MintGenerated, TypeOK
  <2>2. /\ source' \in PasswordSource /\ result' \in BOOLEAN
        /\ pc' \in {"idle", "list", "source", "upsert", "deleteOld", "status"}
    <3>1. Sourced(minted', TRUE, 0)
      BY <1>5 DEF MintGenerated
    <3>. QED  BY <2>1, <3>1, SourcedType
  <2>3. genSecret' \in GenSecret
    BY <1>0, <1>5, <2>1 DEF MintGenerated, GenSecret
  <2>. QED  BY <1>5, <2>1, <2>2, <2>3 DEF MintGenerated, TypeOK
<1>6. CASE upsertScram
  <2>1. broker' \in [Mechanisms -> Credential]
    BY <1>0, <1>6, UpsertedType DEF upsertScram, TypeOK
  <2>. QED  BY <1>6, <2>1 DEF upsertScram, TypeOK
<1>7. CASE DeleteOldMechanism
  <2>1. broker' \in [Mechanisms -> Credential]
    BY <1>7, EmptyTypes DEF DeleteOldMechanism, TypeOK
  <2>. QED  BY <1>7, <2>1 DEF DeleteOldMechanism, TypeOK
<1>8. CASE UpdateStatus
  <2>1. AppliedPasswordRef \in Nat
    BY <1>0 DEF AppliedPasswordRef
  <2>2. user' \in User
    BY <1>0, <1>8, <2>1 DEF UpdateStatus, TypeOK, User
  <2>. QED  BY <1>8, <2>2, EmptyTypes DEF UpdateStatus, TypeOK
<1>9. CASE UpdateStatusFails
  <2>1. userOps' \in Nat /\ faults' \in Nat
    BY <1>9 DEF UpdateStatusFails, Fault, TypeOK
  <2>. QED  BY <1>9, <2>1, EmptyTypes DEF UpdateStatusFails, TypeOK
<1>10. CASE ReadOrWriteFails
  <2>1. minted' \in Nat /\ stored' \subseteq 1..minted'
    <3>1. \/ minted' = minted /\ stored' = stored
          \/ minted' = minted + 1 /\ stored' = stored \cup {minted'}
      BY <1>10 DEF ReadOrWriteFails
    <3>2. minted \in Nat /\ stored \subseteq 1..minted
      BY DEF TypeOK
    <3>3. CASE minted' = minted /\ stored' = stored
      BY <3>2, <3>3
    <3>4. CASE minted' = minted + 1 /\ stored' = stored \cup {minted'}
      BY <3>2, <3>4
    <3>. QED  BY <3>1, <3>3, <3>4
  <2>4. userOps' \in Nat /\ faults' \in Nat
    BY <1>10 DEF ReadOrWriteFails, Fault, TypeOK
  <2>2. /\ source' \in PasswordSource /\ result' \in BOOLEAN
        /\ pc' \in {"idle", "list", "source", "upsert", "deleteOld", "status"}
    BY <1>10, SourcedType DEF ReadOrWriteFails
  <2>3. genSecret' \in GenSecret
    BY <1>0, <1>10, <2>1 DEF ReadOrWriteFails, GenSecret, TypeOK
  <2>. QED  BY <1>10, <2>1, <2>2, <2>3, <2>4 DEF ReadOrWriteFails, TypeOK
<1>11. CASE ApplyFails
  <2>1. broker' \in [Mechanisms -> Credential]
    BY <1>0, <1>11, UpsertedType, EmptyTypes DEF ApplyFails, TypeOK
  <2>2. userOps' \in Nat /\ faults' \in Nat /\ lost' \subseteq Mechanisms
    BY <1>11 DEF ApplyFails, Fault, TypeOK
  <2>. QED  BY <1>11, <2>1, <2>2 DEF ApplyFails, TypeOK
<1>12. CASE CacheSync
  BY <1>12 DEF CacheSync, TypeOK
<1>13. CASE Crash
  <2>1. userOps' \in Nat /\ faults' \in Nat
    BY <1>13 DEF Crash, Fault, TypeOK
  <2>. QED  BY <1>13, <2>1, EmptyTypes DEF Crash, TypeOK
<1>14. ASSUME NEW s \in Sources, NEW m \in Mechanisms, NEW i \in Iterations, EditSpec(s, m, i)
       PROVE  TypeOK'
  <2>1. user' \in User
    <3>1. user' = [user EXCEPT !.gen = user.gen + 1, !.source = s, !.mechanism = m, !.iterations = i]
      BY <1>14 DEF EditSpec
    <3>2. user.gen + 1 \in Nat
      BY <1>0 DEF User
    <3>. QED  BY <1>0, <1>14, <3>1, <3>2 DEF User
  <2>2. userOps' \in Nat
    BY <1>14 DEF EditSpec, UserStep, TypeOK
  <2>. QED  BY <1>14, <2>1, <2>2 DEF EditSpec, UserStep, TypeOK
<1>15. CASE ChangeRefSecret
  <2>1. minted' \in Nat /\ stored' \subseteq 1..minted' /\ userOps' \in Nat
    BY <1>15 DEF ChangeRefSecret, UserStep, TypeOK
  <2>2. refSecret' \in RefSecret
    <3>1. \/ refSecret' = [exists |-> TRUE, password |-> minted', rv |-> refSecret.rv + 1]
          \/ refSecret' = [refSecret EXCEPT !.rv = refSecret.rv + 1]
          \/ refSecret' = [refSecret EXCEPT !.exists = FALSE]
      BY <1>15 DEF ChangeRefSecret
    <3>2. refSecret.rv + 1 \in Nat /\ refSecret \in RefSecret
      BY <1>0 DEF TypeOK
    <3>3. CASE refSecret' = [exists |-> TRUE, password |-> minted', rv |-> refSecret.rv + 1]
      BY <2>1, <3>2, <3>3 DEF RefSecret
    <3>4. CASE refSecret' = [refSecret EXCEPT !.rv = refSecret.rv + 1]
      BY <3>2, <3>4 DEF RefSecret
    <3>5. CASE refSecret' = [refSecret EXCEPT !.exists = FALSE]
      BY <3>2, <3>5 DEF RefSecret
    <3>. QED  BY <3>1, <3>3, <3>4, <3>5
  <2>. QED  BY <1>15, <2>1, <2>2 DEF ChangeRefSecret, UserStep, TypeOK
<1>16. CASE ChangeGenSecret
  <2>1. userOps' \in Nat
    BY <1>16 DEF ChangeGenSecret, UserStep, TypeOK
  <2>2. genSecret' \in GenSecret
    BY <1>0, <1>16, EmptyTypes DEF ChangeGenSecret, GenSecret, TypeOK
  <2>. QED  BY <1>16, <2>1, <2>2 DEF ChangeGenSecret, UserStep, TypeOK
<1>17. ASSUME NEW m \in Mechanisms, LoseCredential(m) PROVE TypeOK'
  <2>1. userOps' \in Nat /\ faults' \in Nat /\ lost' \subseteq Mechanisms
    BY <1>17 DEF LoseCredential, Fault, TypeOK
  <2>2. broker' \in [Mechanisms -> Credential]
    BY <1>17, EmptyTypes DEF LoseCredential, TypeOK
  <2>. QED  BY <1>17, <2>1, <2>2 DEF LoseCredential, TypeOK
<1>18. CASE UNCHANGED vars
  BY <1>18 DEF vars, TypeOK
<1>. QED  BY <1>1, <1>2, <1>3, <1>4, <1>5, <1>6, <1>7, <1>8, <1>9, <1>10, <1>11, <1>12, <1>13,
             <1>14, <1>15, <1>16, <1>17, <1>18 DEF Next, ReconcileUser

(* Every variable of the KafkaUser model keeps its type.                   *)
THEOREM TypeCorrect == Spec => []TypeOK
<1>. QED  BY TypeInit, TypeStep, PTL DEF Spec

-----------------------------------------------------------------------------
(* The Secret comes first.                                                 *)

(* A sourced password that a Secret has held stays one.                    *)
LEMMA SourcedPassword ==
  ASSUME NEW p, NEW r, NEW v, Sourced(p, r, v)
  PROVE  source'.password = p /\ source'.rv = v /\ source'.rotate = r
BY DEF Sourced

(* Every step keeps passwords traceable to a Secret.                       *)
LEMMA PasswordStep == TypeOK /\ PasswordInv /\ [Next]_vars => PasswordInv'
<1>. SUFFICES ASSUME TypeOK, PasswordInv, [Next]_vars PROVE PasswordInv'
  OBVIOUS
<1>. USE DEF secrets, kafka, locals, budgets
(* A step that leaves the broker and the Secrets alone and does not reach  *)
(* the upsert.                                                             *)
<1>0. ASSUME UNCHANGED <<refSecret, genSecret, stored, broker>>,
             pc' \notin {"upsert", "deleteOld"} \/ UNCHANGED <<pc, source>>
      PROVE  PasswordInv'
  BY <1>0 DEF PasswordInv, BrokerPasswordWasStored, Present
<1>1. CASE Begin \/ ListScramCredentials \/ UpdateStatus \/ UpdateStatusFails \/ CacheSync \/ Crash
  BY <1>0, <1>1 DEF Begin, ListScramCredentials, UpdateStatus, UpdateStatusFails, CacheSync, Crash
<1>2. CASE sourceReferencedPassword
  <2>1. CASE refSecret.exists
    <3>1. Sourced(refSecret.password, copy.applied # refSecret.rv, refSecret.rv)
      BY <1>2, <2>1 DEF sourceReferencedPassword
    <3>2. source'.password = refSecret.password
      BY <3>1, SourcedPassword
    <3>. QED  BY <1>2, <3>2 DEF sourceReferencedPassword, PasswordInv, BrokerPasswordWasStored, Present
  <2>2. CASE ~refSecret.exists
    BY <1>0, <1>2, <2>2 DEF sourceReferencedPassword, Unsourced
  <2>. QED  BY <2>1, <2>2
<1>3. CASE ReuseGenerated
  <2>1. CASE Unsourced /\ UNCHANGED genSecret
    BY <1>0, <1>3, <2>1 DEF ReuseGenerated, Unsourced
  <2>2. CASE /\ genSecret.password # 0
             /\ genSecret' = [genSecret EXCEPT !.mechanism = copy.mechanism]
             /\ Sourced(genSecret.password, FALSE, 0)
    <3>1. source'.password = genSecret.password
      BY <2>2, SourcedPassword
    <3>2. genSecret'.password = genSecret.password
      BY <2>2 DEF TypeOK, GenSecret
    <3>. QED  BY <1>3, <2>2, <3>1, <3>2 DEF ReuseGenerated, PasswordInv, BrokerPasswordWasStored, Present
  <2>. QED  BY <1>3, <2>1, <2>2 DEF ReuseGenerated
<1>4. CASE MintGenerated
  <2>1. Sourced(minted', TRUE, 0)
    BY <1>4 DEF MintGenerated
  <2>2. source'.password = minted'
    BY <2>1, SourcedPassword
  <2>3. genSecret'.password = minted' /\ stored' = stored \cup {minted'}
    BY <1>4 DEF MintGenerated
  <2>. QED  BY <1>4, <2>2, <2>3 DEF MintGenerated, PasswordInv, BrokerPasswordWasStored, Present
<1>5. CASE ReadOrWriteFails
  <2>1. \/ UNCHANGED <<genSecret, stored>>
        \/ genSecret'.password = minted' /\ stored' = stored \cup {minted'}
    BY <1>5 DEF ReadOrWriteFails
  <2>. QED
    BY <1>5, <2>1 DEF ReadOrWriteFails, Unsourced, PasswordInv, BrokerPasswordWasStored, Present
<1>6. CASE upsertScram \/ DeleteOldMechanism \/ ApplyFails
  <2>1. \/ broker' = broker
        \/ pc = "upsert" /\ broker' = [broker EXCEPT ![copy.mechanism] = Upserted]
        \/ broker' = [broker EXCEPT ![ScramDeleteMechanism] = NoCredential]
    BY <1>6 DEF upsertScram, DeleteOldMechanism, ApplyFails
  <2>2. /\ UNCHANGED <<refSecret, genSecret, stored, source>>
        /\ pc' \in {"upsert", "deleteOld"} => pc = "upsert"
    BY <1>6 DEF upsertScram, DeleteOldMechanism, ApplyFails
  <2>3. BrokerPasswordWasStored'
    <3>. SUFFICES ASSUME NEW m \in Mechanisms, Present(broker', m) PROVE broker'[m].password \in stored
      BY <2>2 DEF BrokerPasswordWasStored, Present
    <3>1. broker'[m] = broker[m] \/ (pc = "upsert" /\ broker'[m] = Upserted) \/ broker'[m] = NoCredential
      BY <2>1 DEF TypeOK
    <3>. QED  BY <3>1, UpsertedType DEF Present, PasswordInv, BrokerPasswordWasStored
  <2>. QED  BY <2>2, <2>3 DEF PasswordInv
<1>7. ASSUME NEW s \in Sources, NEW m \in Mechanisms, NEW i \in Iterations, EditSpec(s, m, i)
      PROVE  PasswordInv'
  BY <1>0, <1>7 DEF EditSpec, UserStep
<1>8. CASE ChangeRefSecret
  <2>1. \/ refSecret'.password = minted' /\ stored' = stored \cup {minted'}
        \/ refSecret'.password = refSecret.password /\ stored' = stored
    BY <1>8 DEF ChangeRefSecret, TypeOK, RefSecret
  <2>. QED  BY <1>8, <2>1 DEF ChangeRefSecret, UserStep, PasswordInv, BrokerPasswordWasStored, Present
<1>9. CASE ChangeGenSecret
  <2>1. genSecret'.password = 0
    BY <1>9 DEF ChangeGenSecret, NoSecret, TypeOK, GenSecret
  <2>. QED  BY <1>9, <2>1 DEF ChangeGenSecret, UserStep, PasswordInv, BrokerPasswordWasStored, Present
<1>10. ASSUME NEW m \in Mechanisms, LoseCredential(m) PROVE PasswordInv'
  BY <1>10 DEF LoseCredential, PasswordInv, BrokerPasswordWasStored, Present, TypeOK
<1>11. CASE UNCHANGED vars
  BY <1>0, <1>11 DEF vars
<1>. QED  BY <1>1, <1>2, <1>3, <1>4, <1>5, <1>6, <1>7, <1>8, <1>9, <1>10, <1>11
          DEF Next, ReconcileUser

(* The broker never holds a password that no Secret has held: generate     *)
(* persists the Secret before the upsert, whichever of the two fails.      *)
THEOREM SecretComesFirst == Spec => []BrokerPasswordWasStored
<1>1. Init => PasswordInv
  BY DEF Init, PasswordInv, BrokerPasswordWasStored, Present, NoCredential, NoSecret
<1>2. PasswordInv => BrokerPasswordWasStored
  BY DEF PasswordInv
<1>. QED  BY <1>1, <1>2, PasswordStep, TypeCorrect, PTL DEF Spec

-----------------------------------------------------------------------------
(* Nobody is locked out.                                                   *)

(* Only the upsert leads to the deletion of the old mechanism.             *)
LEMMA ReplacedStep == TypeOK /\ ReplacedInv /\ [Next]_vars => ReplacedInv'
<1>. SUFFICES ASSUME TypeOK, ReplacedInv, [Next]_vars, pc' = "deleteOld" PROVE ReplacedInv'
  BY DEF ReplacedInv
<1>. USE DEF secrets, kafka, locals, budgets
<1>1. CASE upsertScram
  <2>1. ScramDeleteMechanism # NoMechanism /\ UNCHANGED <<copy, live>>
    BY <1>1 DEF upsertScram
  <2>2. ScramDeleteMechanism' = ScramDeleteMechanism
    BY <2>1 DEF ScramDeleteMechanism, Present
  <2>3. copy.mechanism \in Mechanisms
    BY DEF TypeOK, User
  <2>4. Present(broker', copy.mechanism)
    BY <1>1, <2>3, UpsertedType DEF upsertScram, Present, TypeOK
  <2>. QED  BY <2>1, <2>2, <2>4, ScramDeleteType DEF ReplacedInv, Held, Present
<1>2. CASE UNCHANGED <<pc, copy, live>> /\ \A m \in Mechanisms : Held(m) => Held(m)'
  <2>1. ScramDeleteMechanism' = ScramDeleteMechanism
    BY <1>2 DEF ScramDeleteMechanism, Present
  <2>2. copy.mechanism \in Mechanisms
    BY DEF TypeOK, User
  <2>. QED  BY <1>2, <2>1, <2>2 DEF ReplacedInv, Held, Present
<1>3. ASSUME NEW m \in Mechanisms, LoseCredential(m) PROVE ReplacedInv'
  BY <1>2, <1>3 DEF LoseCredential, Held, Present, TypeOK
<1>4. CASE UNCHANGED <<pc, copy, live, broker, lost>>
  BY <1>2, <1>4 DEF Held, Present
<1>. QED  BY <1>1, <1>3, <1>4 DEF Next, ReconcileUser, Begin, ListScramCredentials,
       sourceReferencedPassword, ReuseGenerated, MintGenerated, Sourced, Unsourced,
       DeleteOldMechanism, UpdateStatus, UpdateStatusFails, ReadOrWriteFails, ApplyFails,
       CacheSync, Crash, EditSpec, UserStep, ChangeRefSecret, ChangeGenSecret, vars

(* The upsert precedes the deletion of the old mechanism, and the two are  *)
(* different mechanisms: a mechanism change, interrupted or not, never     *)
(* takes away the last credential.                                         *)
THEOREM MechanismChangeIsSafe == Spec => NeverLockedOut
<1>1. Init => ReplacedInv
  BY DEF Init, ReplacedInv
<1>2. TypeOK /\ ReplacedInv /\ [Next]_vars =>
        [pc' # pc /\ (\E m \in Mechanisms : Present(broker, m))
           => \E m \in Mechanisms : Present(broker', m) \/ m \in lost]_vars
  <2>. SUFFICES ASSUME TypeOK, ReplacedInv, [Next]_vars, pc' # pc,
                       NEW n \in Mechanisms, Present(broker, n)
                PROVE  \E m \in Mechanisms : Present(broker', m) \/ m \in lost
    OBVIOUS
  <2>. USE DEF secrets, kafka, locals, budgets
  <2>0. copy.mechanism \in Mechanisms
    BY DEF TypeOK, User
  <2>1. CASE broker' = broker
    BY <2>1
  <2>2. CASE broker' = [broker EXCEPT ![copy.mechanism] = Upserted]
    BY <2>0, <2>2, UpsertedType DEF Present, TypeOK
  <2>3. CASE pc = "deleteOld" /\ broker' = [broker EXCEPT ![ScramDeleteMechanism] = NoCredential]
    <3>1. broker'[copy.mechanism] = broker[copy.mechanism]
      BY <2>0, <2>3 DEF ReplacedInv, TypeOK
    <3>. QED  BY <2>0, <2>3, <3>1 DEF ReplacedInv, Held, Present
  <2>. QED  BY <2>1, <2>2, <2>3 DEF Next, ReconcileUser, Begin, ListScramCredentials,
       sourceReferencedPassword, ReuseGenerated, MintGenerated,
       upsertScram, DeleteOldMechanism, UpdateStatus, UpdateStatusFails, ReadOrWriteFails, ApplyFails,
       CacheSync, Crash, EditSpec, UserStep, ChangeRefSecret, ChangeGenSecret, LoseCredential, vars
<1>. QED  BY <1>1, <1>2, ReplacedStep, TypeCorrect, PTL DEF Spec, NeverLockedOut

-----------------------------------------------------------------------------
(* The watermark.                                                          *)

(* Removing credentials by hand leaves a sole credential what it was.      *)
LEMMA SoleStays ==
  ASSUME SoleIsCurrent, refSecret'.password = refSecret.password,
         \A m \in Mechanisms : Held(m) => Held(m)',
         \A m \in Mechanisms : Present(broker', m) => broker'[m] = broker[m]
  PROVE  SoleIsCurrent'
BY DEF SoleIsCurrent, Held, Present

(* Without flips, the copies of the KafkaUser agree on the source.          *)
LEMMA SameSourceStep ==
  ASSUME ~SourceFlips, SameSource, TypeOK, [Next]_vars
  PROVE  SameSource' /\ user'.source = user.source
<1>. USE DEF secrets, kafka, locals, budgets
<1>1. user'.source = user.source
  <2>1. CASE UpdateStatus
    BY <2>1 DEF UpdateStatus, TypeOK, User
  <2>2. ASSUME NEW s \in Sources, NEW m \in Mechanisms, NEW i \in Iterations, EditSpec(s, m, i)
        PROVE  user'.source = user.source
    BY <2>2 DEF EditSpec, TypeOK, User
  <2>. QED  BY <2>1, <2>2 DEF Next, ReconcileUser, Begin, ListScramCredentials,
       sourceReferencedPassword, ReuseGenerated, MintGenerated, upsertScram, DeleteOldMechanism,
       UpdateStatusFails, ReadOrWriteFails, ApplyFails, CacheSync, Crash, ChangeRefSecret,
       ChangeGenSecret, LoseCredential, vars
<1>2. cached'.source = user.source /\ copy'.source = user.source
  BY DEF SameSource, Next, ReconcileUser, Begin, ListScramCredentials,
       sourceReferencedPassword, ReuseGenerated, MintGenerated, upsertScram, DeleteOldMechanism,
       UpdateStatus, UpdateStatusFails, ReadOrWriteFails, ApplyFails, CacheSync, Crash, EditSpec,
       UserStep, ChangeRefSecret, ChangeGenSecret, LoseCredential, vars
<1>. QED  BY <1>1, <1>2 DEF SameSource

(* Every step keeps the versions ordered and the watermark right.          *)
LEMMA WatermarkStep ==
  ASSUME SameSource, user.source = "valueFrom", VersionInv, WatermarkInv, ReplacedInv, TypeOK,
         [Next]_vars
  PROVE  VersionInv' /\ WatermarkInv'
<1>. USE DEF secrets, kafka, locals, budgets
<1>0. /\ copy.source = "valueFrom" /\ copy.mechanism \in Mechanisms
      /\ user.applied \in Nat /\ cached.applied \in Nat /\ copy.applied \in Nat
      /\ source.rv \in Nat /\ refSecret.rv \in Nat
  BY DEF SameSource, TypeOK, User, PasswordSource, RefSecret
(* The reconcile ends, or has not yet a source.                            *)
<1>1. ASSUME UNCHANGED <<refSecret, broker, lost>>,
             {user'.applied, cached'.applied, copy'.applied}
               \subseteq {user.applied, cached.applied, copy.applied},
             \/ UNCHANGED <<pc, source, result, copy>>
             \/ pc' \in {"idle", "list", "source"} /\ source' \in {source, NoSource}
             \/ pc' = "status" /\ source' = NoSource
      PROVE  VersionInv' /\ WatermarkInv'
  <2>1. SoleIsCurrent' <=> SoleIsCurrent
    BY <1>1 DEF SoleIsCurrent, Held, Present
  <2>2. VersionInv'
    BY <1>0, <1>1 DEF VersionInv, NoSource
  <2>. QED  BY <1>0, <1>1, <2>1, <2>2 DEF VersionInv, WatermarkInv, NoSource, Present
<1>2. CASE Begin \/ ListScramCredentials \/ UpdateStatusFails \/ CacheSync \/ Crash
  BY <1>1, <1>2 DEF Begin, ListScramCredentials, UpdateStatusFails, CacheSync, Crash
<1>3. CASE sourceReferencedPassword
  <2>1. CASE refSecret.exists
    <3>1. Sourced(refSecret.password, copy.applied # refSecret.rv, refSecret.rv)
      BY <1>3, <2>1 DEF sourceReferencedPassword
    <3>2. source'.password = refSecret.password /\ source'.rv = refSecret.rv
      BY <3>1, SourcedPassword
    <3>3. result' = TRUE /\ pc' \in {"upsert", "status"} /\ (pc' = "status" => copy.applied = refSecret.rv)
      BY <3>1 DEF Sourced, NeedsUpsert
    <3>4. UNCHANGED <<user, cached, copy, refSecret, broker, lost>>
      BY <1>3 DEF sourceReferencedPassword
    <3>5. SoleIsCurrent' <=> SoleIsCurrent
      BY <3>4 DEF SoleIsCurrent, Held, Present
    <3>6. VersionInv'
      BY <1>0, <3>2, <3>3, <3>4 DEF VersionInv
    <3>. QED  BY <3>2, <3>3, <3>4, <3>5, <3>6 DEF WatermarkInv
  <2>2. CASE ~refSecret.exists
    BY <1>1, <1>3, <2>2 DEF sourceReferencedPassword, Unsourced
  <2>. QED  BY <2>1, <2>2
<1>4. CASE ReuseGenerated \/ MintGenerated
  BY <1>0, <1>4 DEF ReuseGenerated, MintGenerated
<1>5. CASE ReadOrWriteFails
  BY <1>1, <1>5 DEF ReadOrWriteFails, Unsourced
(* Writes to the broker: the credential written is the source's; if any    *)
(* watermark names the Secret's version, the source is that version.       *)
<1>6. CASE upsertScram \/ DeleteOldMechanism \/ ApplyFails
  <2>1. /\ UNCHANGED <<user, cached, copy, live, source, refSecret>>
        /\ pc \in {"upsert", "deleteOld"} /\ pc' \in {"deleteOld", "status"}
        /\ pc' = "deleteOld" => upsertScram
        /\ upsertScram \/ DeleteOldMechanism => UNCHANGED result
        /\ ApplyFails => result' = FALSE
    BY <1>6 DEF upsertScram, DeleteOldMechanism, ApplyFails
  <2>2. VersionInv'
    BY <1>0, <1>6, <2>1 DEF VersionInv, upsertScram
  <2>3. CASE UNCHANGED broker /\ ApplyFails
    <3>1. \A m \in Mechanisms : Held(m) => Held(m)'
      BY <2>3 DEF ApplyFails, Held, Present
    <3>2. SoleIsCurrent => SoleIsCurrent'
      BY <2>1, <2>3, <3>1, SoleStays
    <3>3. pc' = "status" /\ result' = FALSE
      BY <2>3 DEF ApplyFails
    <3>. QED  BY <2>1, <2>2, <3>2, <3>3 DEF WatermarkInv
  <2>4. CASE ~(UNCHANGED broker /\ ApplyFails)
    <3>1. Held(copy.mechanism)'
      <4>1. CASE pc = "upsert"
        <5>1. broker' = [broker EXCEPT ![copy.mechanism] = Upserted]
          BY <1>6, <2>4, <4>1 DEF upsertScram, DeleteOldMechanism, ApplyFails
        <5>. QED  BY <1>0, <2>1, <5>1, UpsertedType DEF Held, Present, TypeOK
      <4>2. CASE pc = "deleteOld"
        <5>1. broker' = [broker EXCEPT ![ScramDeleteMechanism] = NoCredential]
          BY <1>6, <2>4, <4>2 DEF upsertScram, DeleteOldMechanism, ApplyFails
        <5>2. broker'[copy.mechanism] = broker[copy.mechanism]
          BY <1>0, <4>2, <5>1 DEF ReplacedInv, TypeOK
        <5>3. lost' = lost \/ lost' = {m \in lost : ~Present(broker', m)}
          BY <1>6, <4>2 DEF upsertScram, DeleteOldMechanism, ApplyFails
        <5>. QED  BY <1>0, <2>1, <4>2, <5>2, <5>3 DEF ReplacedInv, Held, Present
      <4>. QED  BY <2>1, <4>1, <4>2
    <3>2. Present(broker', copy.mechanism) => broker'[copy.mechanism].password = source.password
      <4>1. CASE pc = "upsert"
        <5>1. broker' = [broker EXCEPT ![copy.mechanism] = Upserted]
          BY <1>6, <2>4, <4>1 DEF upsertScram, DeleteOldMechanism, ApplyFails
        <5>. QED  BY <1>0, <5>1, UpsertedType DEF TypeOK
      <4>2. CASE pc = "deleteOld"
        <5>1. broker' = [broker EXCEPT ![ScramDeleteMechanism] = NoCredential]
          BY <1>6, <2>4, <4>2 DEF upsertScram, DeleteOldMechanism, ApplyFails
        <5>2. broker'[copy.mechanism] = broker[copy.mechanism]
          BY <1>0, <4>2, <5>1 DEF ReplacedInv, TypeOK
        <5>. QED  BY <4>2, <5>2 DEF WatermarkInv, Present
      <4>. QED  BY <2>1, <4>1, <4>2
    <3>3. source.rv = refSecret.rv => SoleIsCurrent'
      <4>. SUFFICES ASSUME source.rv = refSecret.rv PROVE SoleIsCurrent'
        OBVIOUS
      <4>1. Present(broker', copy.mechanism) => broker'[copy.mechanism].password = refSecret'.password
        BY <2>1, <3>2 DEF VersionInv
      <4>. QED  BY <1>0, <2>1, <3>1, <4>1 DEF SoleIsCurrent, Held, Present
    <3>4. refSecret.rv \in {user.applied, cached.applied, copy.applied} => source.rv = refSecret.rv
      BY <1>0, <2>1 DEF VersionInv
    <3>. QED  BY <2>1, <2>2, <3>2, <3>3, <3>4 DEF WatermarkInv, Present
  <2>. QED  BY <2>3, <2>4
<1>7. CASE UpdateStatus
  <2>1. user' = [user EXCEPT !.ready = result, !.observed = copy.gen, !.applied = AppliedPasswordRef]
    BY <1>7 DEF UpdateStatus
  <2>2. user'.applied = AppliedPasswordRef
    BY <2>1 DEF TypeOK, User
  <2>3. \/ user'.applied = copy.applied
        \/ user'.applied = source.rv /\ result
    BY <1>0, <2>2 DEF AppliedPasswordRef
  <2>4. /\ UNCHANGED <<cached, copy, refSecret, broker, lost>>
        /\ pc = "status" /\ pc' = "idle" /\ source' = NoSource
    BY <1>7 DEF UpdateStatus
  <2>5. SoleIsCurrent' <=> SoleIsCurrent
    BY <2>4 DEF SoleIsCurrent, Held, Present
  <2>6. VersionInv'
    BY <1>0, <2>3, <2>4 DEF VersionInv, NoSource
  <2>. QED  BY <2>3, <2>4, <2>5, <2>6 DEF WatermarkInv
<1>8. ASSUME NEW s \in Sources, NEW m \in Mechanisms, NEW i \in Iterations, EditSpec(s, m, i)
      PROVE  VersionInv' /\ WatermarkInv'
  <2>1. user'.applied = user.applied
    BY <1>8 DEF EditSpec, TypeOK, User
  <2>. QED  BY <1>1, <1>8, <2>1 DEF EditSpec, UserStep
<1>9. CASE ChangeRefSecret
  <2>1. UNCHANGED <<user, cached, copy, broker, lost, pc, source, result>>
    BY <1>9 DEF ChangeRefSecret, UserStep
  <2>2. CASE refSecret'.rv = refSecret.rv + 1
    <3>1. VersionInv'
      BY <1>0, <2>1, <2>2 DEF VersionInv
    <3>2. /\ refSecret'.rv \notin {user'.applied, cached'.applied, copy'.applied}
          /\ source'.rv # refSecret'.rv
      BY <1>0, <2>1, <2>2 DEF VersionInv
    <3>. QED  BY <2>1, <3>1, <3>2 DEF WatermarkInv, Present
  <2>3. CASE refSecret' = [refSecret EXCEPT !.exists = FALSE]
    <3>1. refSecret'.rv = refSecret.rv /\ refSecret'.password = refSecret.password
      BY <2>3 DEF TypeOK, RefSecret
    <3>2. SoleIsCurrent' <=> SoleIsCurrent
      BY <2>1, <3>1 DEF SoleIsCurrent, Held, Present
    <3>. QED  BY <2>1, <3>1, <3>2 DEF VersionInv, WatermarkInv, Present
  <2>. QED  BY <1>9, <2>2, <2>3 DEF ChangeRefSecret, TypeOK, RefSecret
<1>10. CASE ChangeGenSecret
  BY <1>1, <1>10 DEF ChangeGenSecret, UserStep
<1>11. ASSUME NEW m \in Mechanisms, LoseCredential(m) PROVE VersionInv' /\ WatermarkInv'
  <2>1. UNCHANGED <<user, cached, copy, refSecret, pc, source, result>>
    BY <1>11 DEF LoseCredential
  <2>2. /\ \A n \in Mechanisms : Held(n) => Held(n)'
        /\ \A n \in Mechanisms : Present(broker', n) => broker'[n] = broker[n]
    BY <1>11 DEF LoseCredential, Held, Present, TypeOK
  <2>3. SoleIsCurrent => SoleIsCurrent'
    BY <2>1, <2>2, SoleStays
  <2>4. VersionInv'
    BY <2>1 DEF VersionInv
  <2>. QED  BY <1>0, <2>1, <2>2, <2>3, <2>4 DEF WatermarkInv, Present
<1>12. CASE UNCHANGED vars
  BY <1>1, <1>12 DEF vars
<1>. QED  BY <1>2, <1>3, <1>4, <1>5, <1>6, <1>7, <1>8, <1>9, <1>10, <1>11, <1>12
          DEF Next, ReconcileUser

(* While the password's source is not changed, a status that names the     *)
(* Secret's current version is right: the declared mechanism's credential, *)
(* if it is there and the only one, has the Secret's password, whatever    *)
(* failed, crashed, was edited or was served from a stale cache before.    *)
THEOREM WatermarkIsTruthful == ~SourceFlips => (Spec => []WatermarkTruthful)
<1>. SUFFICES ASSUME ~SourceFlips PROVE Spec => []WatermarkTruthful
  OBVIOUS
<1>1. Init => ReferenceInv /\ ReplacedInv
  <2>. SUFFICES ASSUME Init PROVE ReferenceInv /\ ReplacedInv
    OBVIOUS
  <2>1. user.applied = 0
    BY DEF Init
  <2>2. VersionInv
    BY <2>1 DEF Init, VersionInv, NoSource
  <2>. QED  BY <2>1, <2>2 DEF Init, ReferenceInv, ReplacedInv, SameSource, WatermarkInv
<1>2. TypeOK /\ ReplacedInv /\ ReferenceInv /\ [Next]_vars => ReferenceInv'
  <2>. SUFFICES ASSUME TypeOK, ReplacedInv, ReferenceInv, [Next]_vars PROVE ReferenceInv'
    OBVIOUS
  <2>1. SameSource' /\ user'.source = user.source
    BY SameSourceStep DEF ReferenceInv
  <2>2. user.source = "valueFrom" => VersionInv' /\ WatermarkInv'
    BY WatermarkStep DEF ReferenceInv
  <2>. QED  BY <2>1, <2>2 DEF ReferenceInv
<1>3. TypeOK /\ ReferenceInv => WatermarkTruthful
  <2>. SUFFICES ASSUME TypeOK, ReferenceInv, user.source = "valueFrom",
                       user.applied = refSecret.rv, NoLeftover, Present(broker, user.mechanism)
                PROVE  broker[user.mechanism].password = refSecret.password
    BY DEF WatermarkTruthful
  <2>1. SoleIsCurrent /\ user.mechanism \in Mechanisms
    BY DEF ReferenceInv, WatermarkInv, TypeOK, User
  <2>. QED  BY <2>1 DEF SoleIsCurrent, NoLeftover, Held
<1>. QED  BY <1>1, <1>2, <1>3, ReplacedStep, TypeCorrect, PTL DEF Spec

=============================================================================
