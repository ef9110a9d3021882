----------------------------- MODULE MCSshAgent -----------------------------
(* SshAgent with two keys the address may present: the one known_hosts has *)
(* for it, and one that is listed only where it must not count.            *)
EXTENDS SshAgent, TLC

CONSTANTS old, new

Line(form, negated, k) == [form |-> form, names |-> TRUE, negated |-> negated, key |-> k]

MCKnownHosts ==
    {{Line("plain", FALSE, old), Line("plain", TRUE, new), Line("marked", FALSE, new)},
     {Line("hashed", FALSE, old), Line("comment", FALSE, new)}}
=============================================================================
