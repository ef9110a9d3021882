----------------------------- MODULE StoreChecks -----------------------------
(* Checks of the conversions the stores and the configuration are made of, *)
(* over small inputs; TLC evaluates them before a run whose module extends *)
(* this one.                                                               *)
EXTENDS Integers, Sequences, FiniteSets, FiniteSetsExt

Rec == INSTANCE Records
Env == INSTANCE EnvConfig

Endpoints == [host : {"a", "b"}, port : {22, 23}, user : {"u"}, keyPath : {{}, {"k"}}]
Input(label, ssh) == [label |-> label, kind |-> "ssh", ssh |-> ssh]

\* A host is read back as it was registered, with the endpoint whole, and the
\* wire says the same.
ASSUME HostsReadBack ==
    \A e \in Endpoints :
        LET host == Rec!Stored(Rec!CreateHost(<<>>, "vps", Input(1, {e}), 5)["vps"])
        IN /\ host.ssh = {e} /\ host.label = 1 /\ host.enabled /\ host.fingerprint = {}
           /\ Rec!Wire("vps", host).ssh = {e}
           /\ Rec!Wire("vps", host).status = "OFFLINE" /\ ~Rec!Wire("vps", host).readOnly

\* What a patch leaves out stays, the other hosts are not touched, and the
\* pinned key goes with the address, the port or the user and with nothing
\* else: not with the label, not with the path of a private key.
ASSUME UpdatesKeepTheRest ==
    \A e, f \in Endpoints, fields \in SUBSET {"label", "ssh", "enabled"} :
        LET one == Rec!CreateHost(Rec!EnsureLocal(<<>>, 1), "vps", Input(1, {e}), 5)
            table == Rec!PinFingerprint(Rec!MarkSeen(one, "vps", 7), "vps", "key")
            patch == [x \in fields |-> CASE x = "label" -> 2 [] x = "ssh" -> {f}
                                         [] x = "enabled" -> FALSE]
            after == Rec!UpdateHost(table, "vps", patch)
            host == Rec!Stored(after["vps"])
            moved == "ssh" \in fields /\ <<e.host, e.port, e.user>> # <<f.host, f.port, f.user>>
        IN /\ DOMAIN after = DOMAIN table /\ after["local"] = table["local"]
           /\ host.label = IF "label" \in fields THEN 2 ELSE 1
           /\ host.ssh = IF "ssh" \in fields THEN {f} ELSE {e}
           /\ host.enabled = ("enabled" \notin fields)
           /\ host.fingerprint = IF moved THEN {} ELSE {"key"}
           /\ host.lastSeenAt = {7} /\ host.createdAt = 5
           /\ Rec!UpdateHost(table, "gone", patch) = table

\* This machine is listed from the first boot on, first and once, whatever
\* it and the others are called, and seeding it again reverts no renaming.
ASSUME ThisMachineComesFirst ==
    \A labels \in [{"local", "db", "vps"} -> 1..3], seeded \in BOOLEAN :
        LET hosts == Rec!CreateHost(Rec!CreateHost(<<>>, "db", Input(labels["db"], {}), 2),
                                    "vps", Input(labels["vps"], {}), 3)
            renamed == Rec!UpdateHost(Rec!EnsureLocal(hosts, 4), "local",
                                      [label |-> labels["local"]])
            table == IF seeded THEN Rec!EnsureLocal(renamed, 9) ELSE renamed
            all == Rec!FindAll(table)
        IN labels["db"] # labels["vps"] =>
             /\ Len(all) = 3 /\ all[1] = "local" /\ table[all[2]].label < table[all[3]].label
             /\ table["local"].label = labels["local"] /\ table["local"].created_at = 4
             /\ Rec!FindEnabled(Rec!UpdateHost(table, all[2], [enabled |-> FALSE]))
                   = <<"local", all[3]>>

\* The identifier made of a label is one the API takes in a path.
ASSUME SlugsAreIdentifiers ==
    \A label \in UNION {[1..n -> {"A", "a", "1", " ", "."}] : n \in 0..5} :
        LET slug == Rec!Slugify(label, 3)
        IN \/ slug = <<"host">>
           \/ /\ Len(slug) \in 1..3 /\ slug[1] \in {"a", "1"}
              /\ \A i \in DOMAIN slug : slug[i] \in {"a", "1", "-"}

-----------------------------------------------------------------------------
\* The ledger after any three rounds: a volume is known since the round that
\* saw it first, and its last consumers and their time are those of the last
\* round that saw one, rounds without a consumer or without the volume
\* between or after them notwithstanding.  Another host's rows stay.
Observations == [volume : {"v"}, consumers : {<<>>, <<"app">>, <<"db">>}]
ASSUME TheLedgerRemembersTheLastConsumers ==
    \A rounds \in [1..3 -> {<<>>} \cup {<<o>> : o \in Observations}] :
        LET other == Rec!Observe(<<>>, "b", <<[volume |-> "v", consumers |-> <<"x">>]>>, 0)
            after[n \in 0..3] == IF n = 0 THEN other
                                 ELSE Rec!Observe(after[n - 1], "a", rounds[n], n)
            seen == {n \in 1..3 : rounds[n] # <<>>}
            attached == {n \in seen : rounds[n][1].consumers # <<>>}
            ledger == Rec!SightingsOf(after[3], "a")
        IN /\ Rec!SightingsOf(after[3], "b") = Rec!SightingsOf(other, "b")
           /\ seen = {} => ledger = <<>> /\ Rec!TrackingSince(after[3], "a") = {}
           /\ seen # {} =>
                /\ DOMAIN ledger = {"v"}
                /\ ledger["v"].firstSeenAt = Min(seen) /\ ledger["v"].lastSeenAt = Max(seen)
                /\ Rec!TrackingSince(after[3], "a") = {Min(seen)}
                /\ ledger["v"].lastSeenAttachedAt = IF attached = {} THEN {} ELSE {Max(attached)}
                /\ ledger["v"].lastConsumers =
                      IF attached = {} THEN <<>> ELSE rounds[Max(attached)][1].consumers

\* Forgetting a host takes its own rows and no other's, although both have a
\* volume of that name, and forgetting a volume only that one.
ASSUME ForgettingIsTheHostsOwn ==
    LET both == <<[volume |-> "v", consumers |-> <<>>], [volume |-> "w", consumers |-> <<>>]>>
        table == Rec!Observe(Rec!Observe(<<>>, "a", both, 1), "b", both, 2)
        trail == Rec!AuditRecord(Rec!AuditRecord(<<>>, "a", "REMOVED", "v", <<1>>, 1),
                                 "b", "REMOVED", "v", <<2>>, 2)
    IN /\ DOMAIN Rec!ForgetHost(table, "a") = {<<"b", "v">>, <<"b", "w">>}
       /\ DOMAIN Rec!Forget(table, <<"a", "v">>) = DOMAIN table \ {<<"a", "v">>}
       /\ Rec!AuditWithout(trail, "a") = <<trail[2]>>

\* A measurement is answered to its scan as it is read back later, and a row
\* whose list of entries does not parse has none and is otherwise the same.
ASSUME MeasurementsReadBack ==
    \A total \in {0, 7}, cut \in BOOLEAN, last \in {{}, {3}}, entries \in {<<>>, <<"e">>} :
        LET m == [totalBytes |-> total, lastWriteAt |-> last, source |-> "SIDECAR",
                  truncated |-> cut]
            row == Rec!MeasurementRow(m, entries, 9)
            now == Rec!Recorded(m, entries, 9)
        IN /\ Rec!Read(row) = now
           /\ Rec!SizeWire(Rec!Read(row)) = Rec!SizeWire(now)
           /\ Rec!Read([row EXCEPT !.top_entries = {[junk |-> TRUE]}])
                = [now EXCEPT !.topEntries = <<>>]

\* The trail of a host is its newest events, newest first, each with what it
\* was recorded with.
ASSUME TheTrailIsNewestFirst ==
    \A hosts \in [1..3 -> {"a", "b"}], limit \in 0..3 :
        LET trail[n \in 0..3] ==
                IF n = 0 THEN <<>>
                ELSE Rec!AuditRecord(trail[n - 1], hosts[n], "REMOVED", "v", <<n>>, n)
            recent == Rec!Recent(trail[3], "a", limit)
            own == {n \in 1..3 : hosts[n] = "a"}
        IN /\ Len(recent) = Min({limit, Cardinality(own)})
           /\ \A i \in DOMAIN recent :
                /\ recent[i].payload = <<recent[i].createdAt>>
                /\ Cardinality({n \in own : n >= recent[i].createdAt}) = i

\* No conversion makes a time of what is none, and none is ever in the past
\* of the epoch.
ASSUME NoTimeIsNoTime ==
    \A s \in {{}, {-1}, {0}, {2}} :
        /\ Rec!ToIso(Rec!FromEpochSeconds(s)) = Rec!FromEpochSeconds(s)
        /\ Rec!FromEpochSeconds(s) \in {{}, {2000}}
        /\ \A d \in Rec!DaysSince(s, 1, 2) : d >= 0
        /\ s = {} => Rec!IsOlderThan(s, 100, 1)

\* Containers and volumes that list differently in old and new daemons make
\* the same records; only mounts of named volumes are references.
ASSUME OnlyNamedVolumesAreReferences ==
    \A type \in {"volume", "bind", "tmpfs"}, name \in {"", "v"}, rw \in {{}, {TRUE}, {FALSE}} :
        LET mount == [type |-> type, name |-> name, rw |-> rw]
            info == [id |-> "c", names |-> <<<<"/", "app">>>>, state |-> "paused",
                     mounts |-> <<mount, [mount EXCEPT !.type = "bind"]>>]
            record == Rec!Container(info)
        IN /\ record.live /\ record.name = <<"app">>
           /\ record.mounts = IF type = "volume" /\ name = "v"
                              THEN <<[volume |-> "v", readOnly |-> rw = {FALSE}]>> ELSE <<>>

-----------------------------------------------------------------------------
\* The empty environment starts the process, with every number within the
\* bounds the schema sets for a number that is given.
ASSUME DefaultsStart ==
    /\ Env!Starts([v \in Env!Variables |-> Env!Unset])
    /\ \A v \in DOMAIN Env!Numbers : Env!Taken(v, Env!Numeral(Env!Numbers[v].default))

\* Unless it is configured, a connect gives up well before the request that
\* waits for it, and a request before a scan; but nothing keeps a process
\* from starting with the two the other way around.
ASSUME TimeoutsAreOrderedByDefault ==
    LET Delay(env, v) == Env!Config(env)[v].number
        slow == [SSH_CONNECT_TIMEOUT_MS |-> Env!Numeral(60000)]
    IN /\ 2 * Delay(<<>>, "SSH_CONNECT_TIMEOUT_MS") <= Delay(<<>>, "DOCKER_TIMEOUT_MS")
       /\ Delay(<<>>, "DOCKER_TIMEOUT_MS") < Delay(<<>>, "SCAN_TIMEOUT_MS")
       /\ Env!Starts(slow)
       /\ Delay(slow, "SSH_CONNECT_TIMEOUT_MS") > Delay(slow, "DOCKER_TIMEOUT_MS")

\* Removal of volumes is allowed unless it is switched off, and a value that
\* is neither yes nor no does not start the process.
ASSUME RemovalIsOnByDefault ==
    /\ Env!Config(<<>>)["ALLOW_VOLUME_DELETE"].yes
    /\ \A text \in {Env!Word("true"), Env!Word("false"), Env!Numeral(1), Env!Numeral(0)} :
         /\ Env!Taken("ALLOW_VOLUME_DELETE", text)
         /\ Env!Config([ALLOW_VOLUME_DELETE |-> text])["ALLOW_VOLUME_DELETE"].yes
              <=> text \in {Env!Word("true"), Env!Numeral(1)}
    /\ ~Env!Starts([ALLOW_VOLUME_DELETE |-> Env!Word("yes")])
    /\ ~Env!Starts([ALLOW_VOLUME_DELETE |-> Env!Empty])

\* An empty variable is not an unset one: two delays become zero, no origin
\* is allowed, and the body limit, the agent's socket and the daemon's
\* address are empty texts; the other variables refuse to start.
ASSUME EmptyIsNotUnset ==
    {v \in Env!Variables : /\ Env!Taken(v, Env!Empty)
                           /\ Env!Value(v, Env!Empty) # Env!Value(v, Env!Unset)}
      = {"SHUTDOWN_GRACE_MS", "INVENTORY_CACHE_MS"} \cup Env!FreeTexts \cup Env!OptionalTexts

\* Of the numbers, only these have a maximum: none of the delays has, though
\* a timer of the runtime takes no more than 2^31 - 1 ms.
ASSUME DelaysHaveNoMaximum ==
    {v \in DOMAIN Env!Numbers : Env!Numbers[v].max # Env!Unbounded}
      = {"PORT", "SCAN_CONCURRENCY", "HOST_SWEEP_CONCURRENCY", "BROWSE_MAX_ENTRIES",
         "HISTORY_RETENTION_DAYS"}

\* An address with a port is dialled at that port, except for the port that
\* is its scheme's own, which becomes Docker's; without a port it is Docker's.
ASSUME PortsOfTheDaemon ==
    \A scheme \in {"tcp", "http", "https"}, port \in {0, 80, 443, 2375, 5000} :
        LET options == Env!LocalOptions([scheme |-> scheme, name |-> "d", port |-> port], "sock")
            own == <<scheme, port>> \in {<<"http", 80>>, <<"https", 443>>}
        IN /\ options.host = "d"
           /\ options.port = IF port # 0 /\ ~own THEN port
                             ELSE IF scheme = "https" THEN 2376 ELSE 2375
=============================================================================
