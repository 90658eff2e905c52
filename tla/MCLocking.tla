------------------------------ MODULE MCLocking ------------------------------
(* TLC instance of Locking.                                                *)
EXTENDS Locking

CONSTANTS w1, w2, w3, rbac, i1
=============================================================================
