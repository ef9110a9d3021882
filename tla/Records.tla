------------------------------ MODULE Records ------------------------------
(***************************************************************************)
(* How the stores' rows, the daemon's records and what goes over the wire  *)
(* stand for each other: the repositories' conversions, the host and       *)
(* sighting tables they keep, and the values derived on the way.           *)
(*                                                                         *)
(* A value that may be null is the set of it, {} for null; a JSON column   *)
(* is [json |-> value], [junk |-> TRUE] if what is in it does not parse to *)
(* what was written.  A table is a function from keys to rows.  Pure       *)
(* operators.                                                              *)
(***************************************************************************)
EXTENDS Integers, Sequences, FiniteSets, SequencesExt, FiniteSetsExt, Functions

Local == "local"
The(S) == CHOOSE x \in S : TRUE
JSON(value) == {[json |-> value]}

\* _parseEntries, _parsePayload and _parseConsumers: what does not parse, and
\* NULL, is read as nothing.
Parsed(column, nothing) ==
    IF column # {} /\ "json" \in DOMAIN The(column) THEN The(column).json ELSE nothing

-----------------------------------------------------------------------------
(* Clock.  Zero and what is before it are no time.                         *)

ToIso(ms) == {t \in ms : t > 0}
FromEpochSeconds(seconds) == {1000 * s : s \in {s \in seconds : s > 0}}
DaysSince(ms, now, day) == {IF now > t THEN (now - t) \div day ELSE 0 : t \in ms}
IsOlderThan(ms, age, now) == \A t \in ms : now - t > age

-----------------------------------------------------------------------------
(* Hosts: HostRepository and HostService.                                  *)

HostRow(input, now) ==
    [label |-> input.label, kind |-> input.kind,
     ssh_host |-> {s.host : s \in input.ssh}, ssh_port |-> {s.port : s \in input.ssh},
     ssh_user |-> {s.user : s \in input.ssh},
     ssh_key_path |-> UNION {s.keyPath : s \in input.ssh},
     host_key_fingerprint |-> {}, enabled |-> 1, created_at |-> now, last_seen_at |-> {}]
LocalRow(now) == HostRow([label |-> "This machine", kind |-> Local, ssh |-> {}], now)

\* _toStored: an endpoint that is not complete is none.
Stored(row) ==
    [label |-> row.label, kind |-> row.kind,
     ssh |-> IF row.kind = "ssh"
             THEN {[host |-> h, port |-> p, user |-> u, keyPath |-> row.ssh_key_path] :
                     h \in row.ssh_host, p \in row.ssh_port, u \in row.ssh_user}
             ELSE {},
     fingerprint |-> row.host_key_fingerprint, enabled |-> row.enabled = 1,
     createdAt |-> row.created_at, lastSeenAt |-> row.last_seen_at]

EnsureLocal(table, now) ==
    IF Local \in DOMAIN table THEN table
    ELSE [id \in DOMAIN table \cup {Local} |-> IF id = Local THEN LocalRow(now) ELSE table[id]]

\* create: the table refuses an id that is taken.
CreateHost(table, id, input, now) ==
    [i \in DOMAIN table \cup {id} |-> IF i = id THEN HostRow(input, now) ELSE table[i]]

\* update: what the patch leaves out stays, and the pin only with the endpoint.
UpdateHost(table, id, patch) ==
    LET old == Stored(table[id])
        Get(field) == IF field \in DOMAIN patch THEN patch[field] ELSE old[field]
        Endpoint(ssh) == {<<s.host, s.port, s.user>> : s \in ssh}
        new == HostRow([label |-> Get("label"), kind |-> old.kind, ssh |-> Get("ssh")],
                       old.createdAt)
        same == Endpoint(Get("ssh")) = Endpoint(old.ssh)
    IN IF id \notin DOMAIN table THEN table
       ELSE [table EXCEPT ![id] =
               [new EXCEPT !.enabled = IF Get("enabled") THEN 1 ELSE 0,
                           !.host_key_fingerprint = IF same THEN old.fingerprint ELSE {},
                           !.last_seen_at = old.lastSeenAt]]

\* findAll: this machine first, then by label; findEnabled.
FindAll(table) ==
    SetToSortSeq(DOMAIN table,
                 LAMBDA a, b : \/ a = Local /\ b # Local
                               \/ b # Local /\ table[a].label < table[b].label)
FindEnabled(table) == SelectSeq(FindAll(table), LAMBDA id : Stored(table[id]).enabled)

MarkSeen(table, id, now) ==
    IF id \in DOMAIN table THEN [table EXCEPT ![id].last_seen_at = {now}] ELSE table
PinFingerprint(table, id, fingerprint) ==
    IF id \in DOMAIN table THEN [table EXCEPT ![id].host_key_fingerprint = {fingerprint}]
    ELSE table

\* _statusOf, which asks no one: a host that was ever seen counts as online;
\* UNTRUSTED is never reported.
StatusOf(host) ==
    CASE ~host.enabled -> "DISABLED"
      [] host.enabled /\ host.lastSeenAt = {} -> "OFFLINE"
      [] OTHER -> "ONLINE"

\* _toWire.
Wire(id, host) ==
    [id |-> id, label |-> host.label, kind |-> host.kind, ssh |-> host.ssh,
     status |-> StatusOf(host), fingerprint |-> host.fingerprint, enabled |-> host.enabled,
     createdAt |-> host.createdAt, lastSeenAt |-> ToIso(host.lastSeenAt),
     readOnly |-> id = Local]

\* HostValidation.slugify: the character classes of a label; whatever is no
\* letter or digit is "-", once, and not at either end before the cut.
Slugify(label, max) ==
    LET lower == [i \in DOMAIN label |-> CASE label[i] = "A" -> "a"
                                           [] label[i] \in {"a", "1"} -> label[i]
                                           [] OTHER -> "-"]
        once == SelectSeq([i \in DOMAIN lower |-> [c |-> lower[i], first |-> i = 1 \/ lower[i - 1] # "-"]],
                          LAMBDA x : x.c # "-" \/ x.first)
        dashed == [i \in DOMAIN once |-> once[i].c]
        left == IF dashed # <<>> /\ Head(dashed) = "-" THEN Tail(dashed) ELSE dashed
        slug == IF left # <<>> /\ Last(left) = "-" THEN Front(left) ELSE left
    IN IF slug = <<>> THEN <<"host">> ELSE SubSeq(slug, 1, IF Len(slug) < max THEN Len(slug) ELSE max)

-----------------------------------------------------------------------------
(* Measurements: record() and what latest() reads back.                    *)

MeasurementRow(measurement, entries, now) ==
    [total_bytes |-> measurement.totalBytes, last_write_at |-> measurement.lastWriteAt,
     source |-> measurement.source, truncated |-> IF measurement.truncated THEN 1 ELSE 0,
     top_entries |-> JSON(entries), captured_at |-> now]
Recorded(measurement, entries, now) ==
    [totalBytes |-> measurement.totalBytes, lastWriteAt |-> measurement.lastWriteAt,
     source |-> measurement.source, truncated |-> measurement.truncated,
     capturedAt |-> now, topEntries |-> entries]
Read(row) ==
    [totalBytes |-> row.total_bytes, lastWriteAt |-> row.last_write_at, source |-> row.source,
     truncated |-> row.truncated = 1, capturedAt |-> row.captured_at,
     topEntries |-> Parsed(row.top_entries, <<>>)]

\* MeasurementMapper.toWire.
SizeWire(stored) ==
    [totalBytes |-> stored.totalBytes, lastWriteAt |-> ToIso(stored.lastWriteAt),
     source |-> stored.source, measuredAt |-> stored.capturedAt, truncated |-> stored.truncated]

-----------------------------------------------------------------------------
(* The ledger: SightingRepository.                                         *)

\* One upsert: the marker and the names stay if no one is attached.
Upsert(table, key, consumers, now) ==
    LET old == IF key \in DOMAIN table THEN table[key]
               ELSE [first_seen_at |-> now, last_seen_at |-> now,
                     last_seen_attached_at |-> {}, last_consumers |-> {}]
        new == [old EXCEPT !.last_seen_at = now,
                           !.last_seen_attached_at = IF consumers = <<>> THEN @ ELSE {now},
                           !.last_consumers = IF consumers = <<>> THEN @ ELSE JSON(consumers)]
    IN [k \in DOMAIN table \cup {key} |-> IF k = key THEN new ELSE table[k]]

\* observe: the observations of one round, in one transaction.
Observe(table, h, observations, now) ==
    FoldLeft(LAMBDA t, o : Upsert(t, <<h, o.volume>>, o.consumers, now), table, observations)

SightingRead(row) ==
    [firstSeenAt |-> row.first_seen_at, lastSeenAt |-> row.last_seen_at,
     lastSeenAttachedAt |-> row.last_seen_attached_at,
     lastConsumers |-> Parsed(row.last_consumers, <<>>)]
SightingsOf(table, h) ==
    [v \in {k[2] : k \in {k \in DOMAIN table : k[1] = h}} |-> SightingRead(table[<<h, v>>])]
TrackingSince(table, h) ==
    LET seen == {table[k].first_seen_at : k \in {k \in DOMAIN table : k[1] = h}}
    IN IF seen = {} THEN {} ELSE {Min(seen)}
Forget(table, key) == Restrict(table, DOMAIN table \ {key})
ForgetHost(table, h) == Restrict(table, {k \in DOMAIN table : k[1] # h})

-----------------------------------------------------------------------------
(* The audit trail: AuditRepository, oldest first.                         *)

AuditRecord(trail, h, action, volume, payload, now) ==
    Append(trail, [host |-> h, action |-> action, volume |-> volume,
                   payload |-> JSON(payload), createdAt |-> now])
\* recent: events of the same millisecond come in an order that is not
\* fixed; here the later one first.
Recent(trail, h, limit) ==
    LET own == Reverse(SelectSeq(trail, LAMBDA e : e.host = h))
    IN [i \in 1..(IF Len(own) < limit THEN Len(own) ELSE limit) |->
          [action |-> own[i].action, volume |-> own[i].volume,
           payload |-> Parsed(own[i].payload, <<>>), createdAt |-> own[i].createdAt]]
AuditWithout(trail, h) == SelectSeq(trail, LAMBDA e : e.host # h)

-----------------------------------------------------------------------------
(* What the daemon lists: ContainerRepository and VolumeRepository.        *)

LiveStates == {"running", "paused", "restarting"}

\* _readName: the first name without its slash, else the shortened id.
ContainerName(info) ==
    CASE info.names = <<>> -> <<"short", info.id>>
      [] info.names # <<>> /\ info.names[1][1] = "/" -> Tail(info.names[1])
      [] OTHER -> info.names[1]
VolumeMounts(info) ==
    [i \in DOMAIN SelectSeq(info.mounts, LAMBDA m : m.type = "volume" /\ m.name # "") |->
        LET m == SelectSeq(info.mounts, LAMBDA k : k.type = "volume" /\ k.name # "")[i]
        IN [volume |-> m.name, readOnly |-> m.rw = {FALSE}]]
Container(info) ==
    [id |-> info.id, name |-> ContainerName(info), state |-> info.state,
     live |-> info.state \in LiveStates, mounts |-> VolumeMounts(info)]
=============================================================================
