---------------------------- MODULE MCManagedSet ----------------------------
(* TLC instance of ManagedSet: two subjects under one scope key.           *)
EXTENDS ManagedSet

CONSTANTS s1, s2, k1

MCSubjects == {s1, s2}
MCScopeKeys == {k1}
MCScopeKeyOf == [s \in MCSubjects |-> k1]
=============================================================================
