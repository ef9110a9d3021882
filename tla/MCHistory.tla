----------------------------- MODULE MCHistory ------------------------------
(* Instances of History for TLC.                                           *)
EXTENDS History

CONSTANTS h1, h2, v1, v2

HostOrder == <<h1, h2>>
Volumes == {<<h1, v1>>, <<h1, v2>>, <<h2, v1>>}
Mounts == {<<h1, v1>>}
=============================================================================
