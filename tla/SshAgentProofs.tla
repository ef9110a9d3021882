--------------------------- MODULE SshAgentProofs ----------------------------
(***************************************************************************)
(* Proofs about SshAgent, for all calls, host keys and known_hosts files,  *)
(* and any number of connections and of destroy() calls.                   *)
(*                                                                         *)
(* The agent's two fields, the stages of the connections, the verifier's   *)
(* verdicts and what the callers wait for are set by different handlers.   *)
(* The invariant says how they go together: the fields name a connection   *)
(* in the right stage, and as long as nobody has called destroy(), every   *)
(* live connection has a name and every waiting caller is on the           *)
(* handshake; and a call goes to a connection whose key has been trusted.  *)
(***************************************************************************)
EXTENDS SshAgent, FiniteSetTheorems, TLAPS

Conn == [stage : Handshake \cup {"open", "failed", "closed"},
         key : HostKey \cup {NoPin},
         verdict : {"none", "reading", "trusted", "refused"}]

Call(n) == [stage : Pending \cup {"idle", "served"}, on : 0 .. n, why : {NoError}]
           \cup [stage : {"failed"}, on : {None}, why : Failure]

Types ==
    /\ pin \in HostKey \cup {NoPin}
    /\ client \in 0 .. Len(conn) /\ connecting \in 0 .. Len(conn)
    /\ mode \in {"unknown", "stream", "stdio"}
    /\ refusing \in BOOLEAN
    /\ lastError \in Failure \cup {NoError}
    /\ conn \in Seq(Conn)
    /\ req \in [Req -> Call(Len(conn))]
    /\ destroyed \in 0 .. MaxDestroy

\* Keys that the pin, or without one some known_hosts file, vouches for.
Trusted(key) ==
    \/ key = pin
    \/ /\ pin = NoPin
       /\ \E e \in UNION KnownHosts :
             /\ e.key = key /\ e.names
             /\ e.form = "hashed" \/ (e.form = "plain" /\ ~ e.negated)

\* How the stage of a connection x and the verifier's progress go together.
Sound(x) ==
    /\ x.stage \in {"preparing", "dialing"} => x.verdict = "none"
    /\ x.verdict = "none" => x.stage \in {"preparing", "dialing", "failed"}
    /\ x.verdict = "reading" => pin = NoPin /\ x.stage \in {"checking", "failed"}
    /\ x.stage \in {"verified", "open", "closed"} => x.verdict = "trusted"
    /\ x.verdict = "trusted" => Trusted(x.key)

AllSound == \A c \in DOMAIN conn : Sound(conn[c])

\* What the agent's fields name.
Named ==
    /\ client # None => conn[client].stage = "open"
    /\ connecting # None => conn[connecting].stage \in Handshake
    /\ client = None \/ connecting = None

\* Nothing is alive that the agent does not know, unless it was destroyed.
Known ==
    destroyed = 0 =>
        \A c \in DOMAIN conn :
            conn[c].stage \in Handshake \cup {"open"} => c = client \/ c = connecting

OnConnection == {"forwarding", "fallback", "proxying", "served"}

CallerOK(x) ==
    /\ x.stage = "waiting" => x.on \in DOMAIN conn
    /\ x.stage \in OnConnection => x.on \in DOMAIN conn /\ conn[x.on].verdict = "trusted"

CallersOK == \A r \in Req : CallerOK(req[r])

\* The callers of the agent's handshake learn what its verifier said.
WaitingOK ==
    destroyed = 0 =>
        /\ \A r \in Req : req[r].stage = "waiting" => req[r].on = connecting
        /\ connecting # None /\ conn[connecting].verdict = "refused"
           => lastError = "UNVERIFIED_HOST_KEY"

IInv ==
    /\ Types /\ AllSound /\ Named /\ Known /\ CallersOK /\ WaitingOK
    /\ RefusesOnlyTheUnreachable

-----------------------------------------------------------------------------
(* The connections: a step changes at most one of them, or begins one.     *)

LEMMA ConnChanges ==
    ASSUME IInv, NEW c \in DOMAIN conn, NEW x \in Conn, conn' = [conn EXCEPT ![c] = x]
    PROVE  /\ conn' \in Seq(Conn) /\ Len(conn') = Len(conn) /\ DOMAIN conn' = DOMAIN conn
           /\ conn'[c] = x
           /\ \A d \in DOMAIN conn : d # c => conn'[d] = conn[d]
BY DEF IInv, Types

LEMMA ConnType ==
    ASSUME IInv, NEW c \in DOMAIN conn
    PROVE  /\ conn[c] \in Conn /\ Sound(conn[c])
           /\ c \in 1 .. Len(conn) /\ c \in 0 .. Len(conn) /\ c # None /\ Len(conn) \in Nat
BY DEF IInv, Types, AllSound, None

LEMMA CallType ==
    ASSUME IInv
    PROVE  /\ \A why \in Failure : Failing(why) \in Call(Len(conn))
           /\ \A c \in DOMAIN conn : Opening(c) \in Call(Len(conn))
           /\ \A why \in Failure : ~ (Failing(why).stage \in OnConnection \cup {"waiting"})
           /\ \A why \in Failure : CallerOK(Failing(why))
           /\ \A c : Opening(c).stage \in OnConnection /\ Opening(c).on = c
           /\ \A r \in Req : CallerOK(req[r]) /\ req[r] \in Call(Len(conn))
<1>1. \A why \in Failure : Failing(why) \in Call(Len(conn)) /\ Failing(why).stage = "failed"
  BY DEF Failing, Call
<1>2. \A c \in DOMAIN conn : Opening(c) \in Call(Len(conn))
  BY ConnType DEF Opening, Call, Pending
<1>3. \A c : Opening(c).stage \in OnConnection /\ Opening(c).on = c
  BY DEF Opening, OnConnection
<1> QED BY <1>1, <1>2, <1>3 DEF IInv, Types, CallersOK, CallerOK, OnConnection

\* One connection changes, and no trusted verdict is taken back.
LEMMA OneChanges ==
    ASSUME IInv, NEW c \in DOMAIN conn, NEW x \in Conn, conn' = [conn EXCEPT ![c] = x],
           UNCHANGED pin, Sound(x), conn[c].verdict = "trusted" => x.verdict = "trusted"
    PROVE  /\ AllSound'
           /\ \A y : CallerOK(y) => CallerOK(y)'
<1>1. AllSound'
  BY ConnChanges DEF IInv, AllSound, Sound, Trusted
<1> QED BY <1>1, ConnChanges DEF CallerOK

-----------------------------------------------------------------------------
(* Steps that leave the connections alone.                                 *)

LEMMA CallerSteps ==
    ASSUME IInv, NEW r \in Req, NEW x \in Call(Len(conn)),
           req' = [req EXCEPT ![r] = x],
           x.stage \notin {"waiting"}, CallerOK(x),
           UNCHANGED <<pin, client, connecting, refusing, lastError, conn, destroyed>>,
           mode' \in {"unknown", "stream", "stdio"}
    PROVE  IInv'
<1>1. req \in [Req -> Call(Len(conn))]
  BY DEF IInv, Types
<1>2. Types'
  BY <1>1 DEF IInv, Types
<1>3. CallersOK'
  BY <1>1 DEF IInv, CallersOK, CallerOK
<1>4. WaitingOK'
  BY <1>1 DEF IInv, WaitingOK
<1>5. AllSound' /\ Named' /\ Known' /\ RefusesOnlyTheUnreachable'
  BY DEF IInv, AllSound, Sound, Trusted, Named, Known, RefusesOnlyTheUnreachable
<1> QED BY <1>2, <1>3, <1>4, <1>5 DEF IInv

LEMMA RefuseInv ==
    ASSUME IInv, NEW r \in Req, Refuse(r)
    PROVE  IInv'
<1> DEFINE why == IF lastError = NoError THEN "UNREACHABLE" ELSE lastError
<1>1. why \in Failure
  BY DEF IInv, Types, Failure
<1>2. req' = [req EXCEPT ![r] = Failing(why)] /\ UNCHANGED <<agentVars, conn, destroyed>>
  BY DEF Refuse
<1> HIDE DEF why
<1>3. Failing(why) \in Call(Len(conn)) /\ Failing(why).stage \notin {"waiting"}
      /\ CallerOK(Failing(why))
  BY <1>1, CallType
<1> QED BY <1>2, <1>3, CallerSteps DEF agentVars, IInv, Types

LEMMA ReuseInv ==
    ASSUME IInv, NEW r \in Req, Reuse(r)
    PROVE  IInv'
<1>1. /\ client # None
      /\ req' = [req EXCEPT ![r] = Opening(client)] /\ UNCHANGED <<agentVars, conn, destroyed>>
  BY DEF Reuse
<1>2. client \in DOMAIN conn
  BY <1>1 DEF IInv, Types, None
<1>3. conn[client].verdict = "trusted"
  BY <1>1, <1>2, ConnType DEF Sound, IInv, Named
<1>4. Opening(client) \in Call(Len(conn)) /\ Opening(client).stage \notin {"waiting"}
      /\ CallerOK(Opening(client))
  BY <1>2, <1>3, CallType DEF CallerOK, OnConnection
<1> QED BY <1>1, <1>4, CallerSteps DEF agentVars, IInv, Types

LEMMA ChannelInv ==
    ASSUME IInv, NEW r \in Req, ChannelOpens(r) \/ ChannelFails(r)
    PROVE  IInv'
<1>1. /\ req[r].stage \in {"forwarding", "fallback", "proxying"}
      /\ req[r] \in Call(Len(conn)) /\ CallerOK(req[r])
      /\ UNCHANGED <<pin, client, connecting, refusing, lastError, conn, destroyed>>
  BY CallType DEF ChannelOpens, ChannelFails, agentVars
<1>2. \A stage \in {"served", "fallback"} :
         LET x == [req[r] EXCEPT !.stage = stage]
         IN  x \in Call(Len(conn)) /\ x.stage = stage /\ CallerOK(x)
  BY <1>1 DEF Call, Pending, CallerOK, OnConnection
<1>3. CASE ChannelOpens(r)
  <2> DEFINE x == [req[r] EXCEPT !.stage = "served"]
  <2>1. req' = [req EXCEPT ![r] = x]
    BY <1>3 DEF ChannelOpens, IInv, Types
  <2>2. mode' \in {"unknown", "stream", "stdio"}
    BY <1>1, <1>3 DEF ChannelOpens, IInv, Types
  <2> QED BY <1>1, <1>2, <2>1, <2>2, CallerSteps
<1>4. CASE ChannelFails(r)
  <2>1. mode' \in {"unknown", "stream", "stdio"}
    BY <1>4 DEF ChannelFails, agentVars, IInv, Types
  <2>2. \/ req' = [req EXCEPT ![r] = [req[r] EXCEPT !.stage = "fallback"]]
        \/ req' = [req EXCEPT ![r] = Failing("NO_CHANNEL")]
    BY <1>4 DEF ChannelFails
  <2>3. CASE req' = [req EXCEPT ![r] = [req[r] EXCEPT !.stage = "fallback"]]
    BY <1>1, <1>2, <2>1, <2>3, CallerSteps
  <2>4. CASE req' = [req EXCEPT ![r] = Failing("NO_CHANNEL")]
    <3>1. "NO_CHANNEL" \in Failure
      BY DEF Failure
    <3> QED BY <1>1, <2>1, <2>4, <3>1, CallType, CallerSteps
  <2> QED BY <2>2, <2>3, <2>4
<1> QED BY <1>3, <1>4

LEMMA BreakerExpiresInv ==
    ASSUME IInv, BreakerExpires
    PROVE  IInv'
BY DEF BreakerExpires, IInv, Types, AllSound, Sound, Trusted, Named, Known, CallersOK, CallerOK,
       WaitingOK, RefusesOnlyTheUnreachable

-----------------------------------------------------------------------------
(* Dialing.                                                                *)

LEMMA DialInv ==
    ASSUME IInv, NEW r \in Req, req[r].stage = "idle", Dial(r)
    PROVE  IInv'
<1> DEFINE Wait(c) == [stage |-> "waiting", on |-> c, why |-> NoError]
<1>1. /\ ~ refusing /\ client = None
      /\ req' = [req EXCEPT ![r] = Wait(connecting')]
      /\ UNCHANGED <<pin, client, mode, refusing, lastError, destroyed>>
  BY DEF Dial
<1>2. req \in [Req -> Call(Len(conn))] /\ conn \in Seq(Conn) /\ Len(conn) \in Nat
      /\ DOMAIN conn = 1 .. Len(conn)
  BY DEF IInv, Types
<1>3. CASE connecting # None /\ UNCHANGED <<conn, connecting>>
  <2>1. connecting \in DOMAIN conn
    BY <1>3 DEF IInv, Types, None
  <2>2. Wait(connecting) \in Call(Len(conn))
    BY <2>1, ConnType DEF Call, Pending
  <2>3. req' \in [Req -> Call(Len(conn))]
    BY <1>1, <1>2, <1>3, <2>2
  <2>4. Types'
    BY <1>1, <1>3, <2>3 DEF IInv, Types
  <2>5. CallersOK' /\ WaitingOK'
    BY <1>1, <1>2, <1>3, <2>1 DEF IInv, CallersOK, CallerOK, OnConnection, WaitingOK
  <2>6. AllSound' /\ Named' /\ Known' /\ RefusesOnlyTheUnreachable'
    BY <1>1, <1>3 DEF IInv, AllSound, Sound, Trusted, Named, Known, RefusesOnlyTheUnreachable
  <2> QED BY <2>4, <2>5, <2>6 DEF IInv
<1>4. CASE connecting = None /\ conn' = Append(conn, Fresh) /\ connecting' = Len(conn) + 1
  <2>1. Fresh \in Conn /\ Fresh.stage = "preparing" /\ Fresh.verdict = "none"
    BY DEF Fresh, Conn, Handshake
  <2>2. /\ conn' \in Seq(Conn) /\ Len(conn') = Len(conn) + 1
        /\ DOMAIN conn' = DOMAIN conn \cup {Len(conn) + 1}
        /\ \A c \in DOMAIN conn : conn'[c] = conn[c]
        /\ conn'[Len(conn) + 1] = Fresh
        /\ Len(conn) + 1 \notin DOMAIN conn /\ Len(conn) + 1 # None
    BY <1>2, <1>4, <2>1 DEF None
  <2>3. Call(Len(conn)) \subseteq Call(Len(conn')) /\ Wait(Len(conn) + 1) \in Call(Len(conn'))
    BY <1>2, <2>2 DEF Call, Pending
  <2>4. req' \in [Req -> Call(Len(conn'))]
    BY <1>1, <1>2, <1>4, <2>3
  <2>5. Types'
    BY <1>1, <1>2, <1>4, <2>2, <2>4 DEF IInv, Types
  <2>6. AllSound'
    BY <1>1, <2>1, <2>2 DEF IInv, AllSound, Sound, Trusted
  <2>7. Named' /\ Known'
    BY <1>1, <1>4, <2>1, <2>2 DEF IInv, Named, Known, Handshake
  <2>8. CallersOK'
    BY <1>1, <1>2, <1>4, <2>2 DEF IInv, CallersOK, CallerOK, OnConnection
  <2>9. destroyed = 0 => \A s \in Req : req[s].stage # "waiting"
    BY <1>2, <1>4 DEF IInv, WaitingOK, CallersOK, CallerOK, None
  <2>10. WaitingOK' /\ RefusesOnlyTheUnreachable'
    BY <1>1, <1>2, <1>4, <2>1, <2>2, <2>9 DEF WaitingOK, RefusesOnlyTheUnreachable
  <2> QED BY <2>5, <2>6, <2>7, <2>8, <2>10 DEF IInv
<1> QED BY <1>3, <1>4 DEF Dial

-----------------------------------------------------------------------------
(* Handshakes.                                                             *)

\* Before destroy() a handshake is the agent's, and all who wait are on it.
LEMMA HandshakeIsConnecting ==
    ASSUME IInv, NEW c \in DOMAIN conn, conn[c].stage \in Handshake, destroyed = 0
    PROVE  c = connecting /\ c # None /\ \A r \in Req : req[r].stage = "waiting" => r \in Waiting(c)
<1>1. "open" \notin Handshake
  BY DEF Handshake
<1>2. c = connecting /\ c # None
  BY <1>1, ConnType DEF IInv, Known, Named
<1> QED BY <1>2 DEF IInv, WaitingOK, Waiting

\* A handshake is over, and its callers go on with out.
LEMMA SettledInv ==
    ASSUME IInv, NEW c \in DOMAIN conn, conn[c].stage \in Handshake,
           NEW x \in Conn, conn' = [conn EXCEPT ![c] = x],
           Sound(x), conn[c].verdict = "trusted" => x.verdict = "trusted",
           NEW out \in Call(Len(conn)), out.stage # "waiting", CallerOK(out)',
           Settled(c, out), UNCHANGED <<pin, destroyed>>,
           \/ x.stage \notin Handshake \cup {"open"} /\ client' \in {client, None}
           \/ x.stage = "open" /\ client' = c,
           mode' \in {"unknown", "stream", "stdio"}, refusing' \in BOOLEAN,
           lastError' \in Failure \cup {NoError}, RefusesOnlyTheUnreachable'
    PROVE  IInv'
<1>1. /\ conn' \in Seq(Conn) /\ Len(conn') = Len(conn) /\ DOMAIN conn' = DOMAIN conn
      /\ conn'[c] = x /\ \A d \in DOMAIN conn : d # c => conn'[d] = conn[d]
  BY ConnChanges
<1>2. /\ connecting' = None
      /\ req' = [r \in Req |-> IF r \in Waiting(c) THEN out ELSE req[r]]
      /\ req \in [Req -> Call(Len(conn))]
  BY DEF Settled, IInv, Types
<1>3. req' \in [Req -> Call(Len(conn'))]
  BY <1>1, <1>2
<1>4. client' \in 0 .. Len(conn)
  BY ConnType DEF IInv, Types, None
<1>5. connecting' \in 0 .. Len(conn)
  BY <1>2, ConnType DEF None
<1>6. Types'
  BY <1>1, <1>3, <1>4, <1>5 DEF IInv, Types
<1>7. AllSound' /\ \A y : CallerOK(y) => CallerOK(y)'
  BY OneChanges
<1>8. CallersOK'
  <2>1. \A r \in Req : CallerOK(req[r])
    BY DEF IInv, CallersOK
  <2>2. \A y : CallerOK(y) => /\ y.stage = "waiting" => y.on \in DOMAIN conn'
                              /\ y.stage \in OnConnection => y.on \in DOMAIN conn'
                                                            /\ conn'[y.on].verdict = "trusted"
    BY <1>7 DEF CallerOK
  <2>3. /\ out.stage = "waiting" => out.on \in DOMAIN conn'
        /\ out.stage \in OnConnection => out.on \in DOMAIN conn'
                                        /\ conn'[out.on].verdict = "trusted"
    BY DEF CallerOK
  <2> QED BY <1>2, <2>1, <2>2, <2>3 DEF CallersOK, CallerOK
<1>9. Named'
  <2>1. client' # None => conn'[client'].stage = "open"
    <3>1. CASE client' = c /\ x.stage = "open"
      BY <1>1, <3>1
    <3>2. CASE client' = client /\ client # None
      <4>1. client \in DOMAIN conn /\ conn[client].stage = "open" /\ client # c
        BY <3>2 DEF IInv, Types, Named, Handshake, None
      <4> QED BY <1>1, <3>2, <4>1
    <3> QED BY <3>1, <3>2
  <2> QED BY <1>2, <2>1 DEF Named
<1>10. Known' /\ WaitingOK'
  <2> SUFFICES ASSUME destroyed = 0 PROVE Known' /\ WaitingOK'
    BY DEF Known, WaitingOK
  <2>1. c = connecting /\ c # None /\ \A r \in Req : req[r].stage = "waiting" => r \in Waiting(c)
    BY HandshakeIsConnecting
  <2>2. \A d \in DOMAIN conn : d # c => conn[d].stage \notin Handshake \cup {"open"}
    BY <2>1, ConnType DEF IInv, Known, Named
  <2>3. Known'
    BY <1>1, <2>2 DEF Known
  <2>4. WaitingOK'
    BY <1>2, <2>1 DEF WaitingOK
  <2> QED BY <2>3, <2>4
<1> QED BY <1>6, <1>7, <1>8, <1>9, <1>10 DEF IInv

LEMMA PrepareFailsInv ==
    ASSUME IInv, NEW c \in DOMAIN conn, PrepareFails(c)
    PROVE  IInv'
<1> DEFINE x == [conn[c] EXCEPT !.stage = "failed"]
<1>1. /\ conn[c].stage = "preparing" /\ conn[c] \in Conn /\ Sound(conn[c])
      /\ conn' = [conn EXCEPT ![c] = x]
      /\ Settled(c, Failing("AUTH_REJECTED"))
      /\ UNCHANGED <<pin, client, mode, refusing, lastError, destroyed>>
  BY ConnType DEF PrepareFails
<1>2. x \in Conn /\ Sound(x) /\ x.stage \notin Handshake \cup {"open"} /\ x.verdict = conn[c].verdict
  BY <1>1 DEF Conn, Sound, Handshake
<1>3. /\ Failing("AUTH_REJECTED") \in Call(Len(conn))
      /\ Failing("AUTH_REJECTED").stage # "waiting" /\ CallerOK(Failing("AUTH_REJECTED"))'
  BY CallType DEF Failure, Failing, CallerOK, OnConnection
<1>4. conn[c].stage \in Handshake
  BY <1>1 DEF Handshake
<1>5. RefusesOnlyTheUnreachable'
  BY <1>1 DEF IInv, RefusesOnlyTheUnreachable
<1> QED BY <1>1, <1>2, <1>3, <1>4, <1>5, SettledInv DEF IInv, Types

LEMMA ReadyInv ==
    ASSUME IInv, NEW c \in DOMAIN conn, Ready(c)
    PROVE  IInv'
<1> DEFINE x == [conn[c] EXCEPT !.stage = "open"]
<1>1. /\ conn[c].stage = "verified" /\ conn[c] \in Conn /\ Sound(conn[c])
      /\ conn' = [conn EXCEPT ![c] = x]
      /\ client' = c /\ lastError' = NoError /\ refusing' = FALSE
      /\ Settled(c, Opening(c))
      /\ UNCHANGED <<pin, mode, destroyed>>
  BY ConnType DEF Ready
<1>2. x \in Conn /\ Sound(x) /\ x.stage = "open" /\ x.verdict = "trusted"
  BY <1>1 DEF Conn, Sound
<1>3. conn'[c] = x /\ DOMAIN conn' = DOMAIN conn
  BY <1>1, <1>2, ConnChanges
<1>4. PICK out \in Call(Len(conn)) :
         out = Opening(c) /\ out.stage \in OnConnection /\ out.on = c
  BY CallType
<1>5. CallerOK(out)' /\ Settled(c, out) /\ out.stage # "waiting"
  BY <1>1, <1>2, <1>3, <1>4 DEF CallerOK, OnConnection
<1>6. conn[c].stage \in Handshake
  BY <1>1 DEF Handshake
<1>7. RefusesOnlyTheUnreachable'
  BY <1>1 DEF RefusesOnlyTheUnreachable
<1>8. mode \in {"unknown", "stream", "stdio"}
  BY DEF IInv, Types
<1> QED BY <1>1, <1>2, <1>5, <1>6, <1>7, <1>8, SettledInv

LEMMA ErrorInv ==
    ASSUME IInv, NEW c \in DOMAIN conn, NEW kind \in {"AUTH_REJECTED", "UNREACHABLE"}, Error(c, kind)
    PROVE  IInv'
<1> DEFINE x == [conn[c] EXCEPT !.stage = "failed"]
<1>1. /\ conn[c].stage \in (Handshake \ {"preparing"}) \cup {"open"}
      /\ conn[c] \in Conn /\ Sound(conn[c])
      /\ conn' = [conn EXCEPT ![c] = x]
      /\ lastError' = Classify(kind) /\ refusing' = TRUE /\ client' = None /\ mode' = "unknown"
      /\ UNCHANGED <<pin, destroyed>>
  BY ConnType DEF Error
<1>2. lastError' \in Failure /\ lastError' # NoError
  BY <1>1 DEF Classify, Failure, NoError
<1>3. RefusesOnlyTheUnreachable'
  BY <1>1, <1>2 DEF RefusesOnlyTheUnreachable
<1>4. /\ x \in Conn /\ Sound(x) /\ x.stage \notin Handshake \cup {"open"}
      /\ x.verdict = conn[c].verdict
  BY <1>1 DEF Conn, Sound, Handshake
<1>5. CASE conn[c].stage = "open"
  <2>1. UNCHANGED <<connecting, req>>
    BY <1>5 DEF Error
  <2>2. /\ conn' \in Seq(Conn) /\ Len(conn') = Len(conn) /\ DOMAIN conn' = DOMAIN conn
        /\ conn'[c] = x /\ \A d \in DOMAIN conn : d # c => conn'[d] = conn[d]
    BY <1>1, <1>4, ConnChanges
  <2>3. AllSound' /\ \A y : CallerOK(y) => CallerOK(y)'
    BY <1>1, <1>4, OneChanges
  <2>4. Types'
    BY <1>1, <1>2, <2>1, <2>2, ConnType DEF IInv, Types, None
  <2>5. CallersOK'
    BY <2>1, <2>3 DEF IInv, CallersOK, CallerOK
  <2>6. connecting # c
    BY <1>5, ConnType DEF IInv, Named, Handshake
  <2>7. connecting # None => connecting \in DOMAIN conn
    BY DEF IInv, Types, None
  <2>8. Named'
    BY <1>1, <2>1, <2>2, <2>6, <2>7 DEF IInv, Named
  <2>9. destroyed = 0 => connecting = None
    BY <1>5, <2>6, ConnType DEF IInv, Known, Named
  <2>10. Known' /\ WaitingOK'
    BY <1>1, <1>4, <1>5, <2>1, <2>2, <2>6, <2>9 DEF IInv, Known, Named, WaitingOK
  <2> QED BY <1>3, <2>3, <2>4, <2>5, <2>8, <2>10 DEF IInv
<1>6. CASE conn[c].stage # "open"
  <2>1. conn[c].stage \in Handshake
    BY <1>1, <1>6
  <2> DEFINE out == Failing(lastError')
  <2>2. Settled(c, out)
    BY <1>6 DEF Error
  <2>3. out \in Call(Len(conn)) /\ out.stage # "waiting" /\ out.stage \notin OnConnection
    BY <1>2, CallType
  <2> HIDE DEF out
  <2>4. PICK answer \in Call(Len(conn)) :
           answer = out /\ answer.stage # "waiting" /\ answer.stage \notin OnConnection
    BY <2>3
  <2>5. CallerOK(answer)' /\ Settled(c, answer)
    BY <2>2, <2>4 DEF CallerOK
  <2> QED BY <1>1, <1>2, <1>3, <1>4, <2>1, <2>4, <2>5, SettledInv
<1> QED BY <1>5, <1>6

-----------------------------------------------------------------------------
(* The verifier.                                                           *)

\* A connection moves on; whether it is alive stays as it was, and a refusal
\* is recorded.
LEMMA HandshakeGoesOn ==
    ASSUME IInv, NEW c \in DOMAIN conn, NEW x \in Conn, conn' = [conn EXCEPT ![c] = x],
           Sound(x), conn[c].verdict # "trusted",
           conn[c].stage \in Handshake <=> x.stage \in Handshake,
           conn[c].stage # "open", x.stage # "open",
           lastError' \in {lastError, "UNVERIFIED_HOST_KEY"},
           x.verdict = "refused" => lastError' = "UNVERIFIED_HOST_KEY",
           UNCHANGED <<pin, client, connecting, mode, refusing, req, destroyed>>
    PROVE  IInv'
<1>1. /\ conn' \in Seq(Conn) /\ Len(conn') = Len(conn) /\ DOMAIN conn' = DOMAIN conn
      /\ conn'[c] = x /\ \A d \in DOMAIN conn : d # c => conn'[d] = conn[d]
  BY ConnChanges
<1>2. AllSound' /\ \A y : CallerOK(y) => CallerOK(y)'
  BY OneChanges
<1>3. Types'
  BY <1>1 DEF IInv, Types, Failure
<1>4. CallersOK'
  BY <1>2 DEF IInv, CallersOK, CallerOK
<1>5. /\ client # None => client \in DOMAIN conn
      /\ connecting # None => connecting \in DOMAIN conn
  BY DEF IInv, Types, None
<1>6. Named' /\ Known'
  BY <1>1, <1>5 DEF IInv, Named, Known
<1>7. WaitingOK'
  BY <1>1, <1>5 DEF IInv, WaitingOK
<1>8. RefusesOnlyTheUnreachable'
  BY DEF IInv, RefusesOnlyTheUnreachable, NoError
<1> QED BY <1>2, <1>3, <1>4, <1>6, <1>7, <1>8 DEF IInv

LEMMA ConnectInv ==
    ASSUME IInv, NEW c \in DOMAIN conn, Connect(c)
    PROVE  IInv'
<1> DEFINE x == [conn[c] EXCEPT !.stage = "dialing"]
<1>1. /\ conn[c].stage = "preparing" /\ conn[c] \in Conn /\ Sound(conn[c])
      /\ conn' = [conn EXCEPT ![c] = x]
      /\ UNCHANGED <<pin, client, connecting, mode, refusing, lastError, req, destroyed>>
  BY ConnType DEF Connect, agentVars
<1>2. /\ x \in Conn /\ Sound(x) /\ x.stage \in Handshake /\ conn[c].stage \in Handshake
      /\ x.verdict = "none" /\ conn[c].verdict = "none"
      /\ x.stage # "open" /\ conn[c].stage # "open"
  BY <1>1 DEF Conn, Sound, Handshake
<1> HIDE DEF x
<1> QED BY <1>1, <1>2, HandshakeGoesOn

\* The verifier's answer, to a handshake that may be over.
LEMMA VerdictInv ==
    ASSUME IInv, NEW c \in DOMAIN conn, NEW k \in HostKey \cup {NoPin}, NEW trusted \in BOOLEAN,
           conn[c].stage \in {"dialing", "checking", "failed"},
           conn[c].verdict \in {"none", "reading"},
           trusted => Trusted(k), Verdict(c, k, trusted)
    PROVE  IInv'
<1> DEFINE verdict == IF trusted THEN "trusted" ELSE "refused"
           x == [stage |-> IF conn[c].stage = "failed" THEN "failed"
                           ELSE IF trusted THEN "verified" ELSE "refused",
                 key |-> k, verdict |-> verdict]
<1>1. /\ lastError' = IF trusted THEN lastError ELSE "UNVERIFIED_HOST_KEY"
      /\ UNCHANGED <<pin, client, connecting, mode, refusing, req, destroyed>>
  BY DEF Verdict
<1>2. conn[c] \in Conn /\ Sound(conn[c])
  BY ConnType
<1>3. conn' = [conn EXCEPT ![c] = x]
  BY DEF Verdict
<1>4. /\ x \in Conn /\ Sound(x)
      /\ x.verdict = "refused" => ~ trusted
      /\ x.stage \in Handshake => conn[c].stage \in Handshake
      /\ conn[c].stage \in Handshake => x.stage \in Handshake
      /\ x.stage # "open" /\ conn[c].stage # "open"
  BY DEF Conn, Sound, Handshake
<1> HIDE DEF x
<1> QED BY <1>1, <1>3, <1>4, HandshakeGoesOn

LEMMA PresentInv ==
    ASSUME IInv, NEW c \in DOMAIN conn, NEW k \in HostKey, Present(c, k)
    PROVE  IInv'
<1>1. conn[c].stage = "dialing" /\ conn[c].verdict = "none" /\ conn[c] \in Conn
  BY ConnType DEF Present, Sound
<1>2. CASE pin # NoPin
  <2>1. PICK trusted \in BOOLEAN : trusted = (k = pin)
    OBVIOUS
  <2>2. Verdict(c, k, trusted) /\ (trusted => Trusted(k))
    BY <1>2, <2>1 DEF Present, Trusted
  <2> QED BY <1>1, <2>2, VerdictInv
<1>3. CASE pin = NoPin
  <2> DEFINE x == [stage |-> "checking", key |-> k, verdict |-> "reading"]
  <2>1. conn' = [conn EXCEPT ![c] = x]
        /\ UNCHANGED <<pin, client, connecting, mode, refusing, lastError, req, destroyed>>
    BY <1>1, <1>3 DEF Present, Conn, agentVars
  <2>2. /\ x \in Conn /\ Sound(x) /\ x.stage \in Handshake /\ conn[c].stage \in Handshake
        /\ x.verdict = "reading" /\ x.stage # "open" /\ conn[c].stage # "open"
    BY <1>1, <1>3 DEF Conn, Sound, Handshake
  <2> HIDE DEF x
  <2> QED BY <1>1, <2>1, <2>2, HandshakeGoesOn
<1> QED BY <1>2, <1>3

LEMMA LookUpInv ==
    ASSUME IInv, NEW c \in DOMAIN conn, NEW file \in KnownHosts \cup {{}}, LookUp(c, file)
    PROVE  IInv'
<1>1. /\ conn[c].verdict = "reading" /\ conn[c].stage \in {"checking", "failed"} /\ pin = NoPin
      /\ conn[c].key \in HostKey \cup {NoPin}
  <2>1. conn[c].verdict = "reading"
    BY DEF LookUp
  <2>2. conn[c] \in Conn /\ Sound(conn[c])
    BY ConnType
  <2> QED BY <2>1, <2>2 DEF Sound, Conn
<1>2. PICK k \in HostKey \cup {NoPin} : k = conn[c].key
  BY <1>1
<1>3. PICK trusted \in BOOLEAN : trusted <=> k \in FingerprintsFor(file)
  <2>1. CASE k \in FingerprintsFor(file)
    BY <2>1
  <2>2. CASE k \notin FingerprintsFor(file)
    BY <2>2
  <2> QED BY <2>1, <2>2
<1>4. Verdict(c, k, trusted)
  BY <1>2, <1>3 DEF LookUp, Verdict
<1>5. trusted => Trusted(k)
  BY <1>1, <1>3 DEF FingerprintsFor, Parsed, Trusted
<1> QED BY <1>1, <1>4, <1>5, VerdictInv

-----------------------------------------------------------------------------
(* The end of an established connection.                                   *)

LEMMA CloseInv ==
    ASSUME IInv, NEW c \in DOMAIN conn, Close(c)
    PROVE  IInv'
<1> DEFINE x == [conn[c] EXCEPT !.stage = "closed"]
<1>1. /\ conn[c].stage = "open" /\ conn[c] \in Conn /\ Sound(conn[c])
      /\ conn' = [conn EXCEPT ![c] = x]
      /\ IF client = c THEN client' = None /\ mode' = "unknown" ELSE UNCHANGED <<client, mode>>
      /\ UNCHANGED <<pin, connecting, refusing, lastError, req, destroyed>>
  BY ConnType DEF Close
<1>2. /\ x \in Conn /\ Sound(x) /\ x.stage = "closed" /\ x.verdict = conn[c].verdict
  BY <1>1 DEF Conn, Sound
<1>3. /\ conn' \in Seq(Conn) /\ Len(conn') = Len(conn) /\ DOMAIN conn' = DOMAIN conn
      /\ conn'[c] = x /\ \A d \in DOMAIN conn : d # c => conn'[d] = conn[d]
  BY <1>1, <1>2, ConnChanges
<1>4. AllSound' /\ \A y : CallerOK(y) => CallerOK(y)'
  BY <1>1, <1>2, OneChanges
<1>5. Types'
  BY <1>1, <1>3, ConnType DEF IInv, Types, None
<1>6. CallersOK'
  BY <1>1, <1>4 DEF IInv, CallersOK, CallerOK
<1>7. /\ connecting # c
      /\ connecting # None => connecting \in DOMAIN conn
      /\ client # None => client \in DOMAIN conn
  BY <1>1, ConnType DEF IInv, Types, Named, Handshake, None
<1>8. Named'
  BY <1>1, <1>3, <1>7 DEF IInv, Named
<1>9. Known' /\ WaitingOK'
  BY <1>1, <1>2, <1>3, <1>7 DEF IInv, Known, WaitingOK, Handshake
<1>10. RefusesOnlyTheUnreachable'
  BY <1>1 DEF IInv, RefusesOnlyTheUnreachable
<1> QED BY <1>4, <1>5, <1>6, <1>8, <1>9, <1>10 DEF IInv

LEMMA DestroyInv ==
    ASSUME IInv, Destroy
    PROVE  IInv'
<1>1. /\ destroyed < MaxDestroy /\ destroyed' = destroyed + 1
      /\ conn' = IF client = None THEN conn ELSE [conn EXCEPT ![client].stage = "closed"]
      /\ client' = None /\ connecting' = None /\ mode' = "unknown"
      /\ UNCHANGED <<pin, refusing, lastError, req>>
  BY DEF Destroy
<1>2. destroyed' \in 0 .. MaxDestroy /\ destroyed' # 0
  BY <1>1, AgentOptions DEF IInv, Types
<1>3. /\ conn' \in Seq(Conn) /\ Len(conn') = Len(conn) /\ DOMAIN conn' = DOMAIN conn
      /\ AllSound' /\ \A y : CallerOK(y) => CallerOK(y)'
  <2>1. CASE client = None
    <3>1. conn' = conn /\ conn \in Seq(Conn)
      BY <1>1, <2>1 DEF IInv, Types
    <3> QED BY <1>1, <3>1 DEF IInv, AllSound, Sound, Trusted, CallerOK
  <2>2. CASE client # None
    <3> DEFINE x == [conn[client] EXCEPT !.stage = "closed"]
    <3>1. client \in DOMAIN conn /\ conn[client].stage = "open"
      BY <2>2 DEF IInv, Types, Named, None
    <3>2. conn[client] \in Conn /\ Sound(conn[client]) /\ conn' = [conn EXCEPT ![client] = x]
      BY <1>1, <2>2, <3>1, ConnType
    <3>3. x \in Conn /\ Sound(x) /\ x.verdict = conn[client].verdict
      BY <3>1, <3>2 DEF Conn, Sound
    <3>4. PICK c \in DOMAIN conn, y \in Conn : c = client /\ y = x
      BY <3>1, <3>3
    <3>5. conn' = [conn EXCEPT ![c] = y] /\ Sound(y) /\ y.verdict = conn[c].verdict
      BY <3>2, <3>3, <3>4
    <3> QED BY <1>1, <3>5, ConnChanges, OneChanges
  <2> QED BY <2>1, <2>2
<1>4. Types'
  BY <1>1, <1>2, <1>3 DEF IInv, Types, None
<1>5. CallersOK'
  BY <1>1, <1>3 DEF IInv, CallersOK, CallerOK
<1>6. Named' /\ Known' /\ WaitingOK' /\ RefusesOnlyTheUnreachable'
  BY <1>1, <1>2 DEF IInv, Named, Known, WaitingOK, RefusesOnlyTheUnreachable
<1> QED BY <1>3, <1>4, <1>5, <1>6 DEF IInv

-----------------------------------------------------------------------------
(* The invariant is inductive.                                             *)

LEMMA InitInv == Init => IInv
<1> SUFFICES ASSUME Init PROVE IInv
  OBVIOUS
<1>1. /\ conn = <<>> /\ Len(conn) = 0 /\ DOMAIN conn = {} /\ conn \in Seq(Conn)
      /\ client = None /\ connecting = None /\ refusing = FALSE
  BY DEF Init
<1>2. \A r \in Req : req[r].stage = "idle"
  BY DEF Init
<1>3. req \in [Req -> Call(0)]
  BY DEF Init, Call, Pending, None
<1>4. Types
  <2>1. req \in [Req -> Call(Len(conn))] /\ None \in 0 .. Len(conn)
    BY <1>1, <1>3 DEF None
  <2>2. 0 \in 0 .. MaxDestroy
    BY AgentOptions
  <2> QED BY <1>1, <2>1, <2>2 DEF Init, Types
<1>5. AllSound /\ Named /\ Known /\ WaitingOK /\ RefusesOnlyTheUnreachable
  BY <1>1, <1>2 DEF AllSound, Named, Known, WaitingOK, RefusesOnlyTheUnreachable
<1>6. CallersOK
  BY <1>2 DEF CallersOK, CallerOK, OnConnection
<1> QED BY <1>4, <1>5, <1>6 DEF IInv

LEMMA StepInv == IInv /\ [Next]_vars => IInv'
<1> SUFFICES ASSUME IInv, [Next]_vars PROVE IInv'
  OBVIOUS
<1>1. ASSUME NEW r \in Req, CreateConnection(r) \/ ChannelOpens(r) \/ ChannelFails(r)
      PROVE  IInv'
  BY <1>1, RefuseInv, ReuseInv, DialInv, ChannelInv DEF CreateConnection
<1>2. ASSUME NEW c \in DOMAIN conn, PrepareFails(c) \/ Connect(c) \/ Ready(c) \/ Close(c)
      PROVE  IInv'
  BY <1>2, PrepareFailsInv, ConnectInv, ReadyInv, CloseInv
<1>3. ASSUME NEW c \in DOMAIN conn, NEW k \in HostKey, Present(c, k) PROVE IInv'
  BY <1>3, PresentInv
<1>4. ASSUME NEW c \in DOMAIN conn, NEW file \in KnownHosts \cup {{}}, LookUp(c, file) PROVE IInv'
  BY <1>4, LookUpInv
<1>5. ASSUME NEW c \in DOMAIN conn, NEW kind \in {"AUTH_REJECTED", "UNREACHABLE"}, Error(c, kind)
      PROVE  IInv'
  BY <1>5, ErrorInv
<1>6. CASE UNCHANGED vars
  BY <1>6 DEF vars, IInv, Types, AllSound, Sound, Trusted, Named, Known, CallersOK, CallerOK,
              WaitingOK, RefusesOnlyTheUnreachable
<1> QED BY <1>1, <1>2, <1>3, <1>4, <1>5, <1>6, BreakerExpiresInv, DestroyInv DEF Next

\* The agent's fields, its connections, the verdicts and the callers agree.
THEOREM Inductive == Spec => []IInv
BY InitInv, StepInv, PTL DEF Spec

-----------------------------------------------------------------------------
(* However handshakes, timeouts, closes, reconnects and calls of destroy() *)
(* come: until the first destroy() there is one connection or handshake at *)
(* most and the agent knows it, and the breaker refuses calls only while   *)
(* there is none.                                                          *)
THEOREM AgentInvariant == Spec => []AgentInv
<1>1. IInv => AgentInv
  <2> SUFFICES ASSUME IInv PROVE AgentInv
    OBVIOUS
  <2>1. TypeOK
    BY DEF IInv, Types, TypeOK, Conn, Call
  <2>2. OnePooledConnection
    <3> SUFFICES ASSUME destroyed = 0
                 PROVE  Live = {c \in {client, connecting} : c # None} /\ Cardinality(Live) <= 1
      BY DEF OnePooledConnection
    <3>1. /\ client # None => client \in DOMAIN conn
          /\ connecting # None => connecting \in DOMAIN conn
          /\ \A c \in DOMAIN conn : c # None
      BY ConnType DEF IInv, Types, None
    <3>2. Live = {c \in {client, connecting} : c # None}
      BY <3>1 DEF Live, IInv, Known, Named
    <3>3. Live \subseteq {client} \/ Live \subseteq {connecting}
      BY <3>2 DEF IInv, Named
    <3>4. ASSUME NEW x, Live \subseteq {x} PROVE Cardinality(Live) <= 1
      <4>1. Live = {} \/ Live = {x}
        BY <3>4
      <4>2. Cardinality({}) = 0 /\ Cardinality({x}) = 1
        BY FS_EmptySet, FS_Singleton
      <4> QED BY <4>1, <4>2
    <3> QED BY <3>2, <3>3, <3>4
  <2> QED BY <2>1, <2>2 DEF IInv, AgentInv
<1> QED BY <1>1, Inductive, PTL

(* No interleaving of handshakes, late verifiers, reconnects and destroy() *)
(* gets a call to a host whose key is not the pinned one, or, without a    *)
(* pin, is not in known_hosts under that name.                             *)
THEOREM OnlyTrustedHosts == Spec => []ServedByTrustedHost
<1>1. IInv => ServedByTrustedHost
  <2> SUFFICES ASSUME IInv, NEW r \in Req, req[r].stage = "served"
               PROVE  Trusted(conn[req[r].on].key)
    BY DEF ServedByTrustedHost, Trusted
  <2>1. req[r].on \in DOMAIN conn /\ conn[req[r].on].verdict = "trusted"
    BY DEF IInv, CallersOK, CallerOK, OnConnection
  <2> QED BY <2>1 DEF IInv, AllSound, Sound
<1> QED BY <1>1, Inductive, PTL

(* The verifier records a refusal aside, and ssh2 reports a generic error  *)
(* later: a caller of the handshake still gets the refusal, since nothing  *)
(* that happens in between overwrites the record.                          *)
THEOREM RefusalReported == Spec => RefusedKeyIsReported
<1> DEFINE Reported ==
        destroyed = 0 =>
            \A r \in Req :
                /\ req[r].stage = "waiting" /\ conn[req[r].on].verdict = "refused"
                /\ req'[r].stage = "failed"
                => req'[r].why = "UNVERIFIED_HOST_KEY"
<1>1. ASSUME IInv, [Next]_vars PROVE [Reported]_vars
  <2> SUFFICES ASSUME destroyed = 0, NEW r \in Req,
                      req[r].stage = "waiting", conn[req[r].on].verdict = "refused",
                      req'[r].stage = "failed", Next
               PROVE  req'[r].why = "UNVERIFIED_HOST_KEY"
    BY <1>1
  <2>1. /\ req \in [Req -> Call(Len(conn))] /\ req'[r] # req[r]
        /\ req[r].on \in DOMAIN conn /\ req[r].on = connecting
    BY <1>1 DEF IInv, Types, CallersOK, CallerOK, WaitingOK
  <2>2. lastError = "UNVERIFIED_HOST_KEY"
    BY <1>1, <2>1, ConnType DEF IInv, WaitingOK
  <2>3. ASSUME NEW c \in DOMAIN conn, NEW out, Settled(c, out)
        PROVE  c = req[r].on /\ req'[r] = out
    BY <2>1, <2>3 DEF Settled, Waiting
  <2>4. ASSUME NEW c \in DOMAIN conn, PrepareFails(c) PROVE FALSE
    <3>1. c = req[r].on /\ conn[c].stage = "preparing"
      BY <2>3, <2>4 DEF PrepareFails
    <3> QED BY <1>1, <3>1, ConnType DEF Sound
  <2>5. ASSUME NEW c \in DOMAIN conn, Ready(c) PROVE FALSE
    <3>1. c = req[r].on /\ conn[c].stage = "verified"
      BY <2>3, <2>5 DEF Ready
    <3> QED BY <1>1, <3>1, ConnType DEF Sound
  <2>6. ASSUME NEW c \in DOMAIN conn, NEW kind, Error(c, kind)
        PROVE  req'[r].why = "UNVERIFIED_HOST_KEY"
    <3>1. lastError' = "UNVERIFIED_HOST_KEY"
      BY <2>2, <2>6 DEF Error, Classify
    <3>2. Settled(c, Failing(lastError'))
      BY <2>1, <2>6 DEF Error
    <3>3. req'[r] = Failing(lastError')
      BY <2>1, <3>2 DEF Settled
    <3> QED BY <3>1, <3>3 DEF Failing
  <2>7. ASSUME NEW s \in Req, CreateConnection(s) \/ ChannelOpens(s) \/ ChannelFails(s)
        PROVE  FALSE
    <3>1. req[s].stage # "waiting"
      BY <2>7 DEF CreateConnection, ChannelOpens, ChannelFails
    <3>2. req'[r] = req[r]
      BY <2>1, <2>7, <3>1
         DEF CreateConnection, Refuse, Reuse, Dial, ChannelOpens, ChannelFails
    <3> QED BY <2>1, <3>2
  <2>8. ASSUME NEW c \in DOMAIN conn, Connect(c) \/ Close(c) PROVE FALSE
    BY <2>1, <2>8 DEF Connect, Close
  <2>9. ASSUME NEW c \in DOMAIN conn, NEW k, Present(c, k) PROVE FALSE
    BY <2>1, <2>9 DEF Present, Verdict
  <2>10. ASSUME NEW c \in DOMAIN conn, NEW file, LookUp(c, file) PROVE FALSE
    BY <2>1, <2>10 DEF LookUp, Verdict
  <2>11. ~ BreakerExpires /\ ~ Destroy
    BY <2>1 DEF BreakerExpires, Destroy
  <2> QED BY <2>4, <2>5, <2>6, <2>7, <2>8, <2>9, <2>10, <2>11 DEF Next
<1>2. IInv /\ [Next]_vars => [Reported]_vars
  BY <1>1
<1> QED BY <1>2, Inductive, PTL DEF Spec, RefusedKeyIsReported
=============================================================================
