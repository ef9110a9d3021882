---------------------------- MODULE MCScanQueue -----------------------------
(* ScanQueue and its refinement on two hosts with the same volume names on *)
(* both, one name more than a host's running and waiting places hold.      *)
EXTENDS ScanQueueRefinement
=============================================================================
