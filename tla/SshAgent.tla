------------------------------ MODULE SshAgent -------------------------------
(***************************************************************************)
(* backend/src/docker/ssh-agent.ts: the HTTP agent of one SSH host, which  *)
(* multiplexes Engine calls over a pooled connection.                      *)
(*                                                                         *)
(* A connection is one ssh2 Client, and with it the promise of             *)
(* _openClient.  Its life is                                               *)
(*   preparing   _buildConnectConfig reads the private key                 *)
(*   dialing     connect() was called                                      *)
(*   checking    the remote has presented its key, known_hosts is read     *)
(*   verified, refused   the verifier has answered                         *)
(*   open        ready                                                     *)
(*   failed, closed                                                        *)
(* verdict is the verifier's own progress, which goes on when the          *)
(* handshake has failed meanwhile.  The promises of one handshake settle   *)
(* in successive microtasks, with nothing in between: one step here.       *)
(***************************************************************************)
EXTENDS Naturals, Sequences, FiniteSets, Functions

CONSTANTS
    Req,          \* Engine calls
    HostKey,      \* keys the address may present, now or after a reinstall
    NoPin,
    KnownHosts,   \* what the file may hold: sets of entries
    MaxConn, MaxDestroy  \* bounds of the model

\* A line of known_hosts, as far as it matters for the one address: whether a
\* pattern (or the hash) names it, and whether a negated pattern does.
Entry == [form : {"comment", "marked", "malformed", "hashed", "plain"},
          names : BOOLEAN, negated : BOOLEAN, key : HostKey]

ASSUME AgentOptions ==
    /\ KnownHosts \subseteq SUBSET Entry /\ NoPin \notin HostKey
    /\ MaxConn \in Nat /\ MaxDestroy \in Nat

VARIABLES
    pin,         \* endpoint.expectedFingerprint, or NoPin: the agent's for life
    client,      \* the pooled connection, or None
    connecting,  \* the handshake callers share, or None
    mode,        \* channelMode
    refusing,    \* Date.now() < refuseUntilMs
    lastError,
    conn,        \* every connection ever begun
    req,
    destroyed    \* how often destroy() was called

vars == <<pin, client, connecting, mode, refusing, lastError, conn, req, destroyed>>
agentVars == <<pin, client, connecting, mode, refusing, lastError>>

None == 0
NoError == "none"
Failure == {"UNVERIFIED_HOST_KEY", "AUTH_REJECTED", "UNREACHABLE", "NO_CHANNEL"}
Pending == {"waiting", "forwarding", "fallback", "proxying"}
Handshake == {"preparing", "dialing", "checking", "verified", "refused"}

Init ==
    /\ pin \in HostKey \cup {NoPin}
    /\ client = None /\ connecting = None
    /\ mode = "unknown"
    /\ refusing = FALSE /\ lastError = NoError
    /\ conn = <<>>
    /\ req = [r \in Req |-> [stage |-> "idle", on |-> None, why |-> NoError]]
    /\ destroyed = 0

Fresh == [stage |-> "preparing", key |-> NoPin, verdict |-> "none"]

Failing(why) == [stage |-> "failed", on |-> None, why |-> why]

\* _openChannel's first step, on connection c.
Opening(c) ==
    [stage |-> IF mode = "stdio" THEN "proxying" ELSE "forwarding", on |-> c, why |-> NoError]

Waiting(c) == {r \in Req : req[r].stage = "waiting" /\ req[r].on = c}

-----------------------------------------------------------------------------
(* createConnection and _ensureClient                                      *)

Refuse(r) ==
    /\ refusing
    /\ req' = [req EXCEPT ![r] = Failing(IF lastError = NoError THEN "UNREACHABLE" ELSE lastError)]
    /\ UNCHANGED <<agentVars, conn, destroyed>>

Reuse(r) ==
    /\ ~ refusing /\ client # None
    /\ req' = [req EXCEPT ![r] = Opening(client)]
    /\ UNCHANGED <<agentVars, conn, destroyed>>

\* Mutant: a handshake of one's own, whatever is under way.
DialAlways(r) ==
    LET c == Len(conn) + 1
    IN  /\ ~ refusing /\ client = None
        /\ c <= MaxConn
        /\ conn' = Append(conn, Fresh) /\ connecting' = c
        /\ req' = [req EXCEPT ![r] = [stage |-> "waiting", on |-> c, why |-> NoError]]
        /\ UNCHANGED <<pin, client, mode, refusing, lastError, destroyed>>

Dial(r) ==
    /\ ~ refusing /\ client = None
    /\ IF connecting # None
       THEN UNCHANGED <<conn, connecting>>
       ELSE Len(conn) < MaxConn /\ conn' = Append(conn, Fresh) /\ connecting' = Len(conn) + 1
    /\ req' = [req EXCEPT ![r] = [stage |-> "waiting", on |-> connecting', why |-> NoError]]
    /\ UNCHANGED <<pin, client, mode, refusing, lastError, destroyed>>

CreateConnection(r) == req[r].stage = "idle" /\ (Refuse(r) \/ Reuse(r) \/ Dial(r))

\* Mutant: only the callers of the handshake that is registered go on.
SettledRegistered(c, outcome) ==
    /\ connecting' = None
    /\ req' = [r \in Req |-> IF r \in Waiting(c) /\ connecting = c THEN outcome ELSE req[r]]

\* Everyone who awaits handshake c goes on.  Each of them runs the
\* finally-block of _ensureClient, which clears connecting, whatever
\* handshake is registered there by now.
Settled(c, outcome) ==
    /\ connecting' = None
    /\ req' = [r \in Req |-> IF r \in Waiting(c) THEN outcome ELSE req[r]]

\* The key path cannot be read, or there is no agent: rejected without a trace
\* in lastError or in the breaker.
PrepareFails(c) ==
    /\ conn[c].stage = "preparing"
    /\ conn' = [conn EXCEPT ![c].stage = "failed"]
    /\ Settled(c, Failing("AUTH_REJECTED"))
    /\ UNCHANGED <<pin, client, mode, refusing, lastError, destroyed>>

Connect(c) ==
    /\ conn[c].stage = "preparing"
    /\ conn' = [conn EXCEPT ![c].stage = "dialing"]
    /\ UNCHANGED <<agentVars, req, destroyed>>

-----------------------------------------------------------------------------
(* _verifyHostKey                                                          *)

\* The verifier answers for key k, to a handshake that may be over.
Verdict(c, k, trusted) ==
    /\ conn' = [conn EXCEPT ![c] =
          [stage |-> IF conn[c].stage = "failed" THEN "failed"
                     ELSE IF trusted THEN "verified" ELSE "refused",
           key |-> k, verdict |-> IF trusted THEN "trusted" ELSE "refused"]]
    /\ lastError' = IF trusted THEN lastError ELSE "UNVERIFIED_HOST_KEY"
    /\ UNCHANGED <<pin, client, connecting, mode, refusing, req, destroyed>>

\* The remote presents key k.  A pin decides at once; else known_hosts has
\* to be read first.
Present(c, k) ==
    /\ conn[c].stage = "dialing"
    /\ IF pin # NoPin
       THEN Verdict(c, k, k = pin)
       ELSE /\ conn' = [conn EXCEPT ![c].stage = "checking", ![c].key = k, ![c].verdict = "reading"]
            /\ UNCHANGED <<agentVars, req, destroyed>>

\* Entries that are comments, carry a marker or cannot be parsed do not count.
Parsed(e) == e.form \in {"hashed", "plain"}

\* Mutant: a negated pattern is no obstacle.
FingerprintsOfNames(file) == {e.key : e \in {x \in file : Parsed(x) /\ x.names}}

\* The keys file vouches for.
FingerprintsFor(file) ==
    {e.key : e \in {x \in file : Parsed(x) /\ x.names /\ (x.form = "plain" => ~ x.negated)}}

\* file is what known_hosts holds now; it counts as empty if it cannot be read.
LookUp(c, file) ==
    /\ conn[c].verdict = "reading"
    /\ Verdict(c, conn[c].key, conn[c].key \in FingerprintsFor(file))

-----------------------------------------------------------------------------
(* The events of the ssh2 Client                                           *)

\* Mutant: the recorded failure survives a success.
ReadyKeepsBreaker(c) ==
    /\ conn[c].stage = "verified"
    /\ conn' = [conn EXCEPT ![c].stage = "open"]
    /\ client' = c
    /\ Settled(c, Opening(c))
    /\ lastError' = NoError
    /\ UNCHANGED <<pin, mode, refusing, destroyed>>

Ready(c) ==
    /\ conn[c].stage = "verified"
    /\ conn' = [conn EXCEPT ![c].stage = "open"]
    /\ client' = c
    /\ lastError' = NoError /\ refusing' = FALSE
    /\ Settled(c, Opening(c))
    /\ UNCHANGED <<pin, mode, destroyed>>

\* Mutants: what the verifier recorded is not asked for; nothing else is.
ClassifyPlain(kind) == kind
ClassifyStale(kind) == lastError

\* A refused key surfaces as a generic handshake error.
Classify(kind) == IF lastError = "UNVERIFIED_HOST_KEY" THEN lastError ELSE kind

\* 'error', for a handshake (refused key, rejected login, readyTimeout) or
\* for an established connection (keepalive): fail().
Error(c, kind) ==
    /\ conn[c].stage \in (Handshake \ {"preparing"}) \cup {"open"}
    /\ conn' = [conn EXCEPT ![c].stage = "failed"]
    /\ lastError' = Classify(kind) /\ refusing' = TRUE
    /\ client' = None /\ mode' = "unknown"
    /\ IF conn[c].stage = "open" THEN UNCHANGED <<connecting, req>>
                                 ELSE Settled(c, Failing(lastError'))
    /\ UNCHANGED <<pin, destroyed>>

\* 'close' of an established connection, by the remote.
Close(c) ==
    /\ conn[c].stage = "open"
    /\ conn' = [conn EXCEPT ![c].stage = "closed"]
    /\ IF client = c THEN client' = None /\ mode' = "unknown" ELSE UNCHANGED <<client, mode>>
    /\ UNCHANGED <<pin, connecting, refusing, lastError, req, destroyed>>

\* refuseUntilMs has passed.
BreakerExpires ==
    /\ refusing
    /\ refusing' = FALSE
    /\ UNCHANGED <<pin, client, connecting, mode, lastError, conn, req, destroyed>>

\* destroy(): ends the pooled connection, not a handshake under way.
Destroy ==
    /\ destroyed < MaxDestroy
    /\ destroyed' = destroyed + 1
    /\ conn' = IF client = None THEN conn ELSE [conn EXCEPT ![client].stage = "closed"]
    /\ client' = None /\ connecting' = None /\ mode' = "unknown"
    /\ UNCHANGED <<pin, refusing, lastError, req>>

-----------------------------------------------------------------------------
(* _openChannel: one channel per request                                   *)

ChannelOpens(r) ==
    /\ req[r].stage \in {"forwarding", "fallback", "proxying"}
    /\ conn[req[r].on].stage = "open"
    /\ req' = [req EXCEPT ![r].stage = "served"]
    /\ mode' = CASE req[r].stage = "forwarding" -> "stream"
                 [] req[r].stage = "fallback" -> "stdio"
                 [] req[r].stage = "proxying" -> mode
    /\ UNCHANGED <<pin, client, connecting, refusing, lastError, conn, destroyed>>

\* The remote declines, or the connection is gone.  Forwarding falls back to
\* the stdio proxy, unless it has worked before.
ChannelFails(r) ==
    /\ req[r].stage \in {"forwarding", "fallback", "proxying"}
    /\ req' = [req EXCEPT ![r] = IF req[r].stage = "forwarding" /\ mode # "stream"
                                 THEN [@ EXCEPT !.stage = "fallback"]
                                 ELSE Failing("NO_CHANNEL")]
    /\ UNCHANGED <<agentVars, conn, destroyed>>

Next ==
    \/ \E r \in Req : CreateConnection(r) \/ ChannelOpens(r) \/ ChannelFails(r)
    \/ \E c \in DOMAIN conn :
          \/ PrepareFails(c) \/ Connect(c) \/ Ready(c) \/ Close(c)
          \/ \E k \in HostKey : Present(c, k)
          \/ \E file \in KnownHosts \cup {{}} : LookUp(c, file)
          \/ \E kind \in {"AUTH_REJECTED", "UNREACHABLE"} : Error(c, kind)
    \/ BreakerExpires
    \/ Destroy

\* The key file is read or not, readyTimeout ends a handshake, and ssh2
\* answers every channel request, if only when the connection ends.
Fairness ==
    /\ \A c \in 1 .. MaxConn :
          /\ WF_vars(c \in DOMAIN conn /\ (PrepareFails(c) \/ Connect(c)))
          /\ WF_vars(c \in DOMAIN conn /\ conn[c].stage # "open" /\ Error(c, "UNREACHABLE"))
    /\ \A r \in Req : WF_vars(ChannelFails(r) \/ ChannelOpens(r))

Spec == Init /\ [][Next]_vars /\ Fairness

-----------------------------------------------------------------------------
(* Type invariant: the agent's fields, its connections and its callers.    *)
TypeOK ==
    /\ client \in 0 .. Len(conn) /\ connecting \in 0 .. Len(conn)
    /\ mode \in {"unknown", "stream", "stdio"}
    /\ refusing \in BOOLEAN
    /\ lastError \in Failure \cup {NoError}
    /\ conn \in Seq([stage : Handshake \cup {"open", "failed", "closed"},
                     key : HostKey \cup {NoPin},
                     verdict : {"none", "reading", "trusted", "refused"}])
    /\ req \in [Req ->
          [stage : Pending \cup {"idle", "served"}, on : 0 .. Len(conn), why : {NoError}]
          \cup [stage : {"failed"}, on : {None}, why : Failure]]
    /\ pin \in HostKey \cup {NoPin}
    /\ destroyed \in 0 .. MaxDestroy

Live == {c \in DOMAIN conn : conn[c].stage \in Handshake \cup {"open"}}

(* "One persistent SSH connection": as long as the agent is not destroyed, *)
(* there is at most one connection or handshake, and the agent knows it    *)
(* under exactly one of its two names.  (After destroy() there may be      *)
(* others, which nobody will end: a handshake that was under way, or what  *)
(* a caller who still holds the agent opens.)                              *)
OnePooledConnection ==
    destroyed = 0 =>
        Live = {c \in {client, connecting} : c # None} /\ Cardinality(Live) <= 1

(* The breaker never refuses a host that has a live pooled connection, and *)
(* always has a reason to give.                                            *)
RefusesOnlyTheUnreachable == refusing => client = None /\ lastError # NoError

(* The agent's state in every order of its events.                         *)
AgentInv == TypeOK /\ OnePooledConnection /\ RefusesOnlyTheUnreachable

(* Trust on first use: whatever the order of handshake, verifier, timeout, *)
(* reconnect and destroy, a call is served by a host whose key was pinned, *)
(* or, when nothing is pinned, is given by some entry that names the host  *)
(* and does not exclude it.                                                *)
ServedByTrustedHost ==
    \A r \in Req : req[r].stage = "served" =>
        LET key == conn[req[r].on].key IN
        \/ key = pin
        \/ /\ pin = NoPin
           /\ \E e \in UNION KnownHosts :
                 /\ e.key = key /\ e.names
                 /\ e.form = "hashed" \/ (e.form = "plain" /\ ~ e.negated)

(* A caller whose handshake failed for a refused key is told so, rather    *)
(* than the generic error ssh2 reports: the trust prompt depends on it.    *)
RefusedKeyIsReported ==
    [][destroyed = 0 =>
        \A r \in Req :
            /\ req[r].stage = "waiting" /\ conn[req[r].on].verdict = "refused"
            /\ req'[r].stage = "failed"
            => req'[r].why = "UNVERIFIED_HOST_KEY"]_vars

(* Every Engine call is answered, whatever becomes of its connection and   *)
(* also when the agent is destroyed meanwhile.                             *)
EveryCallIsAnswered ==
    \A r \in Req : req[r].stage \in Pending ~> req[r].stage \in {"served", "failed"}
=============================================================================
