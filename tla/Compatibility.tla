--------------------------- MODULE Compatibility ---------------------------
(***************************************************************************)
(* Schema Registry compatibility levels: how internal/diff ranks them and  *)
(* classifies a change of a subject's level.  "" is an unset level, or one *)
(* that could not be read.                                                 *)
(***************************************************************************)
EXTENDS Integers

Levels ==
  {"NONE", "BACKWARD", "FORWARD", "BACKWARD_TRANSITIVE", "FORWARD_TRANSITIVE", "FULL",
   "FULL_TRANSITIVE"}

compatRank(level) ==
  CASE level = "NONE"                                              -> 0
    [] level \in {"BACKWARD", "FORWARD"}                           -> 1
    [] level \in {"BACKWARD_TRANSITIVE", "FORWARD_TRANSITIVE"}     -> 2
    [] level = "FULL"                                              -> 3
    [] level = "FULL_TRANSITIVE"                                   -> 4
    [] OTHER                                                       -> -1

(* The level in force for a subject whose own level is own.                *)
Effective(own, global) == IF own = "" THEN global ELSE own

(* A classification that knows only levels that were set on the subject.   *)
compatibilityOpOwnLevel(wanted, own, global) ==
  IF compatRank(wanted) > compatRank(own)
    THEN "RaiseSchemaCompatibility" ELSE "LowerSchemaCompatibility"

(***************************************************************************)
(* A first set is measured against the global default; pinning exactly     *)
(* that default is a Raise, and so is any first set under an unknown one.  *)
(***************************************************************************)
compatibilityOp(wanted, own, global) ==
  LET baseline == Effective(own, global)
  IN IF \/ own = "" /\ baseline # "" /\ wanted = baseline
        \/ compatRank(wanted) > compatRank(baseline)
       THEN "RaiseSchemaCompatibility" ELSE "LowerSchemaCompatibility"
=============================================================================
