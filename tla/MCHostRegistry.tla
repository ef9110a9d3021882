--------------------------- MODULE MCHostRegistry ---------------------------
(* HostRegistry with one host.  StoreChecks checks the stores' conversions *)
(* and the configuration before it is explored.                            *)
EXTENDS HostRegistry, StoreChecks, TLC

Symmetry == Permutations(Job) \cup Permutations(Address)
=============================================================================
