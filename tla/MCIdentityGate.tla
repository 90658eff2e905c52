--------------------------- MODULE MCIdentityGate ---------------------------
(* TLC instances of IdentityGate.                                          *)
EXTENDS IdentityGate, TLC

CONSTANTS a, b

(* a precedes b in the order of names.                                     *)
MCNameRank == (a :> 1) @@ (b :> 2)
=============================================================================
