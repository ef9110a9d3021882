------------------------------- MODULE History -------------------------------
(***************************************************************************)
(* The two background rounds of snapshot.scheduler.ts and what they leave  *)
(* in the store: a snapshot round has every volume of every enabled host   *)
(* measured through the host's bounded queue and then trims the history    *)
(* (measurement.repository.ts); a round of the attachment ledger notes for *)
(* every volume whether a container refers to it (sighting.service.ts,     *)
(* sighting.repository.ts).                                                *)
(*                                                                         *)
(* Both take the hosts in batches (_forEachHost).  The hosts' daemons      *)
(* answer, refuse or never answer.  Not here: the listings' cache          *)
(* (TtlCache), volumes that come and go (VolumeRemoval), hosts that are    *)
(* edited (HostRegistry), the order within a queue (TaskQueue).            *)
(***************************************************************************)
EXTENDS Naturals, FiniteSets, Sequences, SequencesExt

CONSTANTS
    Hosts,             \* the enabled hosts, a sequence
    Volume,            \* names
    Has,               \* <<h, v>>: host h has a volume v
    Mount,             \* bound of the model: the <<h, v>> a container may refer to
    SnapshotRound, LedgerRound,   \* bound of the model: rounds at one time
    SweepConcurrency,  \* Config.hosts.sweepConcurrency
    QueueRoom,         \* running and waiting scans of a host
    Retention,         \* Config.database.retentionDays, in ticks of the clock
    MaxNow,            \* bound of the model: ticks
    None

ASSUME HistoryOptions ==
    /\ {SweepConcurrency, QueueRoom} \subseteq Nat \ {0}
    /\ {Retention, MaxNow} \subseteq Nat
    /\ None \notin Nat /\ None \notin [first : Nat, last : Nat, attached : Nat \cup {None}]
    /\ SnapshotRound \cap LedgerRound = {}

\* A daemon has finitely many volumes, and a mount refers to one it has.
ASSUME HostsAndVolumes ==
    /\ Hosts \in Seq(ToSet(Hosts))
    /\ IsFiniteSet(Volume)
    /\ Mount \subseteq Has

Host == ToSet(Hosts)
Listed(h) == {v \in Volume : <<h, v>> \in Has}
Round == SnapshotRound \cup LedgerRound

VARIABLES
    now,               \* the clock
    serving,           \* FALSE from a signal to shut down to the exit
    kind,              \* bound of the model: the rounds of this behaviour
    (* the hosts *)
    answers,           \* answers[h]: "yes", "no" or "never"
    inUse,             \* <<h, v>>: a container refers to the volume
    (* the process *)
    snapshotRunning,
    round,             \* round[n]: the hosts to go, the batch under way
    live,              \* live[h]: volumes with a scan queued or running
    (* the store *)
    measured,          \* rows of volume_measurement: [host, volume, at]
    sighted,           \* sighted[h][v]: the ledger's row, or None
    (* history of the run *)
    known,             \* known[h][v]: time of the newest measurement, or None
    evidence           \* evidence[h][v]: newest listing that found it in use
                       \* and was written, or None

world == <<kind, answers, inUse>>
store == <<measured, sighted>>
ghosts == <<known, evidence>>
vars == <<now, serving, world, snapshotRunning, round, live, store, ghosts>>

NoWork == [stage |-> "out"]
Idle == [running |-> FALSE, since |-> 0, left |-> <<>>, work |-> [h \in Host |-> NoWork]]

Init ==
    /\ now = 0 /\ serving = TRUE /\ kind \in {"snapshots", "sightings"}
    /\ answers \in [Host -> {"yes", "no", "never"}] /\ inUse = {}
    /\ snapshotRunning = FALSE
    /\ round = [n \in Round |-> Idle]
    /\ live = [h \in Host |-> {}]
    /\ measured = {} /\ sighted = [h \in Host |-> [v \in Volume |-> None]]
    /\ known = [h \in Host |-> [v \in Volume |-> None]] /\ evidence = known

-----------------------------------------------------------------------------
(* What happens around the program.                                        *)

Tick ==
    /\ now < MaxNow
    /\ now' = now + 1
    /\ UNCHANGED <<serving, world, snapshotRunning, round, live, store, ghosts>>

Attach(h, v) ==
    /\ kind = "sightings" /\ <<h, v>> \in Mount
    /\ inUse' = IF <<h, v>> \in inUse THEN inUse \ {<<h, v>>} ELSE inUse \cup {<<h, v>>}
    /\ UNCHANGED <<now, serving, kind, answers, snapshotRunning, round, live, store, ghosts>>

-----------------------------------------------------------------------------
(* _forEachHost                                                            *)

\* The next sweepConcurrency hosts go to work.
NextBatch(left, first) ==
    LET size == IF Len(left) < SweepConcurrency THEN Len(left) ELSE SweepConcurrency
        batch == ToSet(SubSeq(left, 1, size))
    IN  [left |-> SubSeq(left, size + 1, Len(left)),
         work |-> [h \in Host |-> IF h \in batch THEN first ELSE NoWork]]

Listing == [stage |-> "listing"]
Settled == [stage |-> "settled"]

Started(n) ==
    LET b == NextBatch(Hosts, Listing)
    IN  round' = [round EXCEPT ![n] = [running |-> TRUE, since |-> now,
                                       left |-> b.left, work |-> b.work]]

\* Promise.allSettled: the batch is over when every host in it has settled.
BatchOver(n) ==
    /\ round[n].running
    /\ \A h \in Host : round[n].work[h].stage \in {"out", "settled"}

TakeNextBatch(n) ==
    /\ BatchOver(n) /\ round[n].left # <<>>
    /\ LET b == NextBatch(round[n].left, Listing)
       IN  round' = [round EXCEPT ![n].left = b.left, ![n].work = b.work]
    /\ UNCHANGED <<now, serving, world, snapshotRunning, live, store, ghosts>>

AllHostsDone(n) == BatchOver(n) /\ round[n].left = <<>>

\* A host that refuses to list its volumes fails alone.
FailHost(n, h) ==
    /\ round[n].work[h].stage \in {"listing", "read"}
    /\ answers[h] = "no"
    /\ round' = [round EXCEPT ![n].work[h] = Settled]
    /\ UNCHANGED <<now, serving, world, snapshotRunning, live, store, ghosts>>

-----------------------------------------------------------------------------
(* Snapshot rounds                                                         *)

\* Mutant: no guard against a slow round.
StartSnapshotUnguarded(n) ==
    /\ serving /\ kind = "snapshots" /\ ~ round[n].running
    /\ snapshotRunning' = TRUE
    /\ Started(n)
    /\ UNCHANGED <<now, serving, world, live, store, ghosts>>

StartSnapshot(n) ==
    /\ serving /\ kind = "snapshots" /\ ~ round[n].running
    /\ ~ snapshotRunning
    /\ snapshotRunning' = TRUE
    /\ Started(n)
    /\ UNCHANGED <<now, serving, world, live, store, ghosts>>

\* ScanQueue.enqueue for a set of volumes, in an order the daemon chose: one
\* that is measured already is joined, the others find room or are refused.
Admitted(h, new) ==
    LET room == QueueRoom - Cardinality(live[h])
    IN  {a \in SUBSET new : \/ a = new /\ Cardinality(a) <= room
                            \/ Cardinality(a) = room /\ Cardinality(new) > room}

\* _snapshotHost has its listing: every volume is handed to the queue at once.
SubmitAll(n, h) ==
    /\ n \in SnapshotRound /\ round[n].work[h].stage = "listing"
    /\ answers[h] = "yes"
    /\ \E admitted \in Admitted(h, Listed(h) \ live[h]) :
          /\ live' = [live EXCEPT ![h] = @ \cup admitted]
          /\ round' = [round EXCEPT ![n].work[h] =
                [stage |-> "scanning", waits |-> (live[h] \cup admitted) \cap Listed(h), measured |-> {}]]
    /\ UNCHANGED <<now, serving, world, snapshotRunning, store, ghosts>>

\* Somebody presses "scan": the same queue.
Ask(h, v) ==
    /\ kind = "snapshots" /\ serving
    /\ v \in Listed(h) \ live[h] /\ Cardinality(live[h]) < QueueRoom
    /\ live' = [live EXCEPT ![h] = @ \cup {v}]
    /\ UNCHANGED <<now, serving, world, snapshotRunning, round, store, ghosts>>

\* Whoever waits for the scan hears of it.
Heard(h, v, done) ==
    round' = [n \in Round |->
        LET w == round[n].work[h] IN
        IF w.stage = "scanning" /\ v \in w.waits
        THEN [round[n] EXCEPT !.work[h] = [w EXCEPT !.waits = @ \ {v}, !.measured = @ \cup done]]
        ELSE round[n]]

Measure(h, v) ==
    /\ v \in live[h] /\ answers[h] = "yes"
    /\ live' = [live EXCEPT ![h] = @ \ {v}]
    /\ measured' = measured \cup {[host |-> h, volume |-> v, at |-> now]}
    /\ known' = [known EXCEPT ![h][v] = now]
    /\ Heard(h, v, {v})
    /\ UNCHANGED <<now, serving, world, snapshotRunning, sighted, evidence>>

FailScan(h, v) ==
    /\ v \in live[h] /\ answers[h] \in {"yes", "no"}
    /\ live' = [live EXCEPT ![h] = @ \ {v}]
    /\ Heard(h, v, {})
    /\ UNCHANGED <<now, serving, world, snapshotRunning, store, ghosts>>

\* The promises of one host have all settled; its volumes count as measured
\* or not.
SettleHost(n, h) ==
    /\ round[n].work[h].stage = "scanning" /\ round[n].work[h].waits = {}
    /\ round' = [round EXCEPT ![n].work[h].stage = "settled"]
    /\ UNCHANGED <<now, serving, world, snapshotRunning, live, store, ghosts>>

Newest(r) == \A peer \in measured : (peer.host = r.host /\ peer.volume = r.volume) => peer.at <= r.at

\* Mutant: the sweep leaves the newest row of a volume, and only that.
PrunedToNewest(cutoff) == {r \in measured : Newest(r)}

\* pruneOlderThan.
Pruned(cutoff) == {r \in measured : r.at >= cutoff \/ Newest(r)}

\* Mutant: the flag is cleared by the last line of the try-block.
FinishSnapshotNoFinally(n) ==
    /\ n \in SnapshotRound /\ AllHostsDone(n)
    /\ \/ /\ measured' = IF now >= Retention THEN Pruned(now - Retention) ELSE measured
          /\ snapshotRunning' = FALSE
       \/ UNCHANGED <<measured, snapshotRunning>>
    /\ round' = [round EXCEPT ![n] = Idle]
    /\ UNCHANGED <<now, serving, world, live, sighted, ghosts>>

\* The end of a round: the sweep, which a failing database may spoil, and in
\* any case the flag.
FinishSnapshot(n) ==
    /\ n \in SnapshotRound /\ AllHostsDone(n)
    /\ \/ measured' = IF now >= Retention THEN Pruned(now - Retention) ELSE measured
       \/ measured' = measured
    /\ snapshotRunning' = FALSE
    /\ round' = [round EXCEPT ![n] = Idle]
    /\ UNCHANGED <<now, serving, world, live, sighted, ghosts>>

-----------------------------------------------------------------------------
(* Rounds of the ledger; nothing keeps them apart                          *)

StartSightings(n) ==
    /\ serving /\ kind = "sightings" /\ ~ round[n].running
    /\ Started(n)
    /\ UNCHANGED <<now, serving, world, snapshotRunning, live, store, ghosts>>

\* The daemon lists its containers.
ReadConsumers(n, h) ==
    /\ n \in LedgerRound /\ round[n].work[h].stage = "listing"
    /\ answers[h] = "yes"
    /\ round' = [round EXCEPT ![n].work[h] =
          [stage |-> "read", at |-> now, used |-> {v \in Volume : <<h, v>> \in inUse}]]
    /\ UNCHANGED <<now, serving, world, snapshotRunning, live, store, ghosts>>

Sighting(row, attached) ==
    [first |-> IF row = None THEN now ELSE row.first, last |-> now,
     attached |-> IF attached THEN now ELSE None]

\* Mutant: the row says when the containers were listed.
ObserveAtListing(row, attached, at) ==
    [Sighting(row, attached) EXCEPT !.attached =
        IF attached THEN at ELSE IF row = None THEN None ELSE row.attached]

\* The upsert: only an attachment moves the marker.
Observe(row, attached, at) ==
    [Sighting(row, attached) EXCEPT !.attached =
        IF attached THEN now ELSE IF row = None THEN None ELSE row.attached]

Later(s, t) == IF s = None \/ s < t THEN t ELSE s

\* Both listings are there: one transaction writes the host's ledger.
WriteLedger(n, h) ==
    LET w == round[n].work[h] IN
    /\ n \in LedgerRound /\ w.stage = "read"
    /\ answers[h] = "yes"
    /\ sighted' = [sighted EXCEPT ![h] = [v \in Volume |->
          IF v \in Listed(h) THEN Observe(sighted[h][v], v \in w.used, w.at) ELSE sighted[h][v]]]
    /\ evidence' = [evidence EXCEPT ![h] = [v \in Volume |->
          IF v \in w.used THEN Later(evidence[h][v], w.at) ELSE evidence[h][v]]]
    /\ round' = [round EXCEPT ![n].work[h] = Settled]
    /\ UNCHANGED <<now, serving, world, snapshotRunning, live, measured, known>>

\* present: how long a page says that the volume has been idle.
Idleness(row) == IF row.attached = None THEN None ELSE now - row.attached

FinishSightings(n) ==
    /\ n \in LedgerRound /\ AllHostsDone(n)
    /\ round' = [round EXCEPT ![n] = Idle]
    /\ UNCHANGED <<now, serving, world, snapshotRunning, live, store, ghosts>>

-----------------------------------------------------------------------------
(* The process                                                             *)

\* A signal: the timers stop, what runs goes on until the exit.
Stop ==
    /\ serving
    /\ serving' = FALSE
    /\ UNCHANGED <<now, world, snapshotRunning, round, live, store, ghosts>>

\* The process exits after a signal or dies without one, and is started
\* again.  Only the store is left.
Restart ==
    /\ serving' = TRUE
    /\ snapshotRunning' = FALSE
    /\ round' = [n \in Round |-> Idle]
    /\ live' = [h \in Host |-> {}]
    /\ UNCHANGED <<now, world, store, ghosts>>

SnapshotStep(n) ==
    \/ TakeNextBatch(n)
    \/ FinishSnapshot(n)
    \/ \E h \in Host : FailHost(n, h) \/ SubmitAll(n, h) \/ SettleHost(n, h)

LedgerStep(n) ==
    \/ TakeNextBatch(n)
    \/ FinishSightings(n)
    \/ \E h \in Host : FailHost(n, h) \/ ReadConsumers(n, h) \/ WriteLedger(n, h)

Scan(h, v) == Measure(h, v) \/ FailScan(h, v)

Next ==
    \/ Tick \/ Stop \/ Restart
    \/ \E h \in Host, v \in Volume : Attach(h, v) \/ Ask(h, v) \/ Scan(h, v)
    \/ \E n \in SnapshotRound : StartSnapshot(n) \/ SnapshotStep(n)
    \/ \E n \in LedgerRound : StartSightings(n) \/ LedgerStep(n)

\* A promise that has settled is taken up, and a daemon that does not hang
\* answers in the end: the client's timeout and the scan's see to that.
Fairness ==
    /\ \A n \in SnapshotRound : WF_vars(SnapshotStep(n))
    /\ \A n \in LedgerRound : WF_vars(LedgerStep(n))
    /\ \A h \in Host, v \in Volume : WF_vars(Scan(h, v))

Spec == Init /\ [][Next]_vars /\ Fairness

-----------------------------------------------------------------------------
(* Properties                                                              *)

Time == 0 .. MaxNow

TypeOK ==
    /\ now \in Time /\ {serving, snapshotRunning} \subseteq BOOLEAN
    /\ answers \in [Host -> {"yes", "no", "never"}] /\ inUse \subseteq Host \X Volume
    /\ \A n \in Round : round[n].running \in BOOLEAN /\ round[n].since \in Time
    /\ live \in [Host -> SUBSET Volume]
    /\ measured \subseteq [host : Host, volume : Volume, at : Time]
    /\ sighted \in [Host -> [Volume -> {None} \cup
          [first : Time, last : Time, attached : Time \cup {None}]]]

\* snapshotRunning stands for the one snapshot round there is, also while it
\* waits for a slow host, and no round works on more hosts than allowed.
OneSnapshot ==
    /\ Cardinality({n \in SnapshotRound : round[n].running}) = (IF snapshotRunning THEN 1 ELSE 0)
    /\ \A n \in Round : Cardinality({h \in Host : round[n].work[h].stage # "out"}) <= SweepConcurrency

\* A host never has more scans than its queue takes, even when a round hands
\* over all of its volumes while somebody asks for one.
QueueBounded == \A h \in Host : Cardinality(live[h]) <= QueueRoom

\* The newest size of a volume is never lost, however old it is, and
\* whatever round or crash comes between.
LastSizeKept ==
    \A h \in Host, v \in Volume :
        known[h][v] # None => [host |-> h, volume |-> v, at |-> known[h][v]] \in measured

\* What a round counts as measured has a size in the store that is no older
\* than the round, also when the round only joined the scan.
RoundLeavesFreshSizes ==
    \A n \in SnapshotRound, h \in Host :
        round[n].running /\ round[n].work[h].stage = "settled" /\ "measured" \in DOMAIN round[n].work[h] =>
            \A v \in round[n].work[h].measured : known[h][v] # None /\ known[h][v] >= round[n].since

HistoryInv == TypeOK /\ OneSnapshot /\ QueueBounded /\ LastSizeKept /\ RoundLeavesFreshSizes

\* However ledger rounds overlap, an idle time is never overstated: it is
\* at most the age of every listing with the volume in use that a round has
\* written, and the times of a row are in order.
IdleNeverOverstated ==
    \A h \in Host, v \in Volume :
        LET row == sighted[h][v]
            seen == evidence[h][v]
        IN  /\ seen # None => row # None /\ Idleness(row) # None /\ Idleness(row) <= now - seen
            /\ row # None =>
                  /\ row.first <= row.last /\ row.last <= now
                  /\ row.attached # None => row.first <= row.attached /\ row.attached <= row.last

\* When no daemon hangs, a snapshot round comes to its end, whatever the
\* hosts refuse and whatever else their queues hold: a later tick of the
\* schedule is not skipped for ever.
RoundsEnd ==
    (\A h \in Host : answers[h] # "never") => (snapshotRunning ~> ~ snapshotRunning)

\* Whatever rounds, refusals, failing sweeps and crashes there are, the store
\* is a series of measurements for each volume: nothing within the retention
\* is lost, and nothing at all without a newer size that stays.
Series == INSTANCE MeasurementSeries WITH
    Key <- Host \X Volume,
    clock <- now,
    series <- {<<<<r.host, r.volume>>, r.at>> : r \in measured}
ImplementsSeries == Series!Spec
=============================================================================
