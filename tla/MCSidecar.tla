------------------------------ MODULE MCSidecar ------------------------------
(* Two scans on one host, one restart, one forgotten image check.             *)
EXTENDS Sidecar, TLC

CONSTANTS r1, r2

Runs == {r1, r2}
=============================================================================
