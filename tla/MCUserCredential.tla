-------------------------- MODULE MCUserCredential --------------------------
(* TLC instances of UserCredential.                                        *)
EXTENDS UserCredential

CONSTANTS sha256, sha512
=============================================================================
