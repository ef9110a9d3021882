---------------------------- MODULE MCTaskQueue -----------------------------
(* TaskQueue with one task more than run and wait together: the fifth can  *)
(* be refused.  No symmetry, since the run has a liveness property.        *)
EXTENDS TaskQueue
=============================================================================
