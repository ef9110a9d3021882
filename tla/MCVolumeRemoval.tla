-------------------------- MODULE MCVolumeRemoval ---------------------------
(* VolumeRemoval with a name that is used twice.                           *)
EXTENDS VolumeRemoval, TLC

Symmetry == Permutations(Request)
=============================================================================
