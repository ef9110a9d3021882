----------------------------- MODULE MCTtlCache -----------------------------
(* TtlCache on two hosts with one listing each.                            *)
EXTENDS TtlCache, TLC

Symmetry == Permutations(Caller)
=============================================================================
