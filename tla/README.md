# Leviosa in TLA+

Leviosa is a web tool for the Docker volumes of one or more machines: it lists
them, measures them, keeps their growth history, watches what they are attached
to, and removes them. This directory holds a TLA+ model of its backend and of the
logic of its client, the TLC configurations that check the model on small
instances, and TLAPS proofs of what matters most for instances of every size.

Paths below are relative to `backend/src` of the repository unless they begin with
`frontend` or `shared`. `PROJECT.json` maps every definition to the lines it models.

- [1. The system](#1-the-system)
- [2. What is modelled](#2-what-is-modelled)
- [3. Runs](#3-runs)
- [4. Fairness](#4-fairness)
- [5. Proofs](#5-proofs)
- [6. Findings](#6-findings)
- [7. What is not modelled](#7-what-is-not-modelled)
- [8. Plan](#8-plan)
- [9. Working with the project](#9-working-with-the-project)

## 1. The system

One Node.js process, one thread. Everything that interleaves does so at an
`await` or in a promise's callback; everything between two awaits is atomic. The
other actors are the Docker Engine of each host, which other clients use as
well, the operating system, which may end the process at any moment, and the
browser.

```
 browser -- HTTP --> controllers -> services -> repositories -> Engine of a host
                                     |   |            |              ^
                                     |   |            +- TtlCache    | socket, TCP,
                                     |   +-> ScanQueue -> TaskQueue  | or SSH channel
                                     |            |                  |
                                     |            +-> scanner -> SidecarRunner
                                     +-> SQLite (measurements, sightings, audit, hosts)
 SnapshotScheduler (cron, interval) ----> ScanQueue, SightingService
```

| Component | State it keeps | Operations | Correct when |
|---|---|---|---|
| `queue/task.queue.ts` TaskQueue | backlog, number of running tasks, counters | `submit`, `pump`, the settlement callbacks | slots are neither leaked nor overrun nor left idle; first come, first started |
| `queue/scan.queue.ts` ScanQueue | a TaskQueue per host, the jobs Map, the active job of each volume | `enqueue`, `run`, `find`, the four callbacks of a job | a volume is measured once at a time, an accepted job runs and can be found, hosts do not disturb one another |
| `utils/ttl-cache.util.ts` TtlCache | entries with expiry, flights | `resolve`, `invalidate` | one Engine call per listing, answers are of the right host and of bounded age |
| `docker/volume.repository.ts`, `container.repository.ts` | the two cached listings | `listAll`, `find`, `remove`, `invalidate` | see TtlCache; a removal is reported only when the daemon did it |
| `services/volume.service.ts` | none | `list`, `detail`, `remove` | a removal is judged, audited and forgotten for the volume it removed |
| `services/safety.service.ts`, `dependency.service.ts` | none | `evaluate`, `buildGraph`, `summarize` | a referenced or pinned volume is never called deletable |
| `services/sighting.service.ts`, `store/sighting.repository.ts` | the attachment ledger | `refresh`, `present`, `observe`, `forget` | times only advance, and only on evidence |
| `store/measurement.repository.ts` | the size history | `record`, `latest`, `latestForAll`, `series`, `prune`, `forget` | the newest row of a volume is never pruned; a chart shows real points |
| `docker/sidecar.runner.ts`, `scanner/sidecar.strategy.ts` | the image check of each host; a container per run | `ensureImage`, `forgetImage`, `run`, `reapStrays` | no container is left behind, a killed probe is no measurement, every run ends |
| `scanner/host-fs.strategy.ts`, `scanner.service.ts` | none | `measure`, `list`, choice of strategy | a remote volume is never measured on local disk; totals agree with `du` |
| `scanner/scan.script.ts`, `scan.parser.ts` | none | the probe and its parser | a cut-off stream is never a plausible result |
| `docker/host-registry.ts`, `host-context.ts` | a transport per host | `get`, `enabled`, `invalidate`, `disposeAll` | one transport per host, never a superseded one |
| `docker/ssh-agent.ts`, `known-hosts.util.ts` | client, handshake under way, breaker, channel mode, last error | `createConnection`, `connect`, `destroy` | one connection, trusted keys only, no leak |
| `services/host.service.ts`, `store/host.repository.ts` | the host records | `create`, `update`, `remove`, `trust`, `test` | a pin does not outlive its address; removal leaves nothing |
| `scheduler/snapshot.scheduler.ts` | the running flag, timer, cron task | `_runSnapshot`, `_refreshSightings`, `stop` | rounds do not overlap, one dead host does not stop the others |
| `store/sqlite.client.ts`, `migration.store.ts` | schema version, statement cache | `connect`, `_applySchema`, `transaction` | the recorded version is the shape of the file, after any crash |
| `store/audit.repository.ts` | the audit log | `record`, `recent`, `forgetHost` | every removal has its row |
| `services/system.service.ts`, `browse.service.ts` | none | `summary`, `health`, `list` | counts partition the volumes |
| `server.ts`, `app.ts` | the shutdown flag | boot, shutdown | nothing is served half-initialised; shutdown ends |
| controllers, routes, middlewares, validations | none | one handler per route | a removal passes every gate; what is malformed is refused without the daemon |
| `config/env.config.ts`, `docker/docker.client.ts` | none | the environment read once; failures translated | defaults start the program; a failure keeps its kind |
| `frontend`: the inventory page | URL, search field, query cache | type, click, fetch, arrive | the screen settles on the URL and never shows another host's rows |
| `frontend`: a volume's page, the host settings | the polled job, drafts, dialogs, prompts | submit, poll, confirm, save, trust | nothing is removed that was not named; a finished job refreshes the views once |
| `shared` | none | route builders, formatting | a URL reaches its handler; shown sizes keep their order |
| logging, layout, animation | none that matters | | |

What makes the system hard:

- **Callbacks of one scan.** A job's promise chain has four links in four
  microtasks. Requests for the same volume arrive between any two of them.
- **Things read before an await and used after it.** The verdict on a removal,
  the volume a scan looked up, the listing a ledger round holds.
- **Names that are reused.** The store knows volumes by name; the daemon lets
  anyone remove and create them.
- **The Engine may do a thing and its reply be lost.** Nothing retries, so what
  each caller does with an error decides what is left behind.
- **Crashes.** Jobs and caches are in memory, sidecars are at the daemon and
  the history is on disk.
- **One slow host.** Everything is per host so that a dead machine costs only
  itself.

## 2. What is modelled

Each module's header says what it stands for. Where a definition is marked
`Mutant:` it is a plausible bug; no behaviour uses it. For every property of a
passing run `PROJECT.json` names a mutant that breaks it, so that a property no
bug can violate does not stay unnoticed.

There are two kinds of modules. Those with a state are specifications, and a run
explores them. Those without one are operators that translate pure code; their
checks are named assumptions over all small inputs, which TLC evaluates before
the run of the module that extends them:

| Specifications | Operators | Checks of the operators, evaluated in |
|---|---|---|
| TaskQueue, FifoPool, ScanQueue, ScanQueueRefinement, TtlCache, VolumeRemoval, Sidecar, SshAgent, HostRegistry, SchemaMigration, History, MeasurementSeries, ScanProbe | VolumeQueries, HttpLayer | MCDashboard (`dashboard`) |
| Dashboard, over the lists of VolumeQueries | ApiRoutes, Formats, HostForms, VolumePage | ClientChecks (`dashboard`) |
| | Records, EnvConfig | StoreChecks (`host_registry`) |

### TaskQueue, FifoPool (`queue/task.queue.ts`)

| Model | Code |
|---|---|
| `pending`, `running`, `completed`, `failed` | the closure's variables |
| `started`, `settled`, `released`, `refused` | what has happened to each task |
| `Submit`, `Refuse` | `submit`, with room and without |
| `Settle` | the then-callbacks that count |
| `Release` | the finally-callback: `running -= 1; pump()` |
| `Pump` = `Idle` or `StartHead` | `pump`, as part of every action that calls it |

`FifoPool` is what the queue promises: accepted tasks form one order, a prefix
of it is started, no slot is idle while one waits. `ImplementsFifoPool` is the
refinement, with `started \o pending` as the order.

### ScanQueue, ScanQueueRefinement (`queue/scan.queue.ts`)

A job is a record with the `state` its readers see and the `stage` of its
promise chain: `queued`, `executing`, `completed` (the task's promise is
settled), `released` (TaskQueue's finally has run), `concluded` (then or catch
has set the state), `cleaned` (finally has run). `Enqueue` is `Join`,
`RefuseSaturated` or `Create`; `Complete`, `Release`, `Conclude` and `Cleanup`
are the links. `asked` remembers who awaits which job.

The model lets requests in between any two links. In the real process the links
run in successive microtasks of one turn of the event loop, in which a request
can only come from another microtask (the snapshot round is one); the model
therefore allows more than the code does, and the safety properties hold all the
same. What `_execute` does is in VolumeRemoval and Sidecar; here it succeeds or fails.

`ScanQueueRefinement` shows that the part of one host is a `TaskQueue`, so what
is proved of that module holds for each host: isolation of hosts is this
statement together with `LiveHostAnswers`.

### TtlCache (`utils/ttl-cache.util.ts`)

`Resolve` is `Hit`, `Share` or `Start`. A flight is one call of the producer and
has its own life: the daemon reads (`Read`), the answer lands and is stored
(`Land`, or `Fail`), the finally-callback drops the flight and answers everyone
(`Settle`). A value is its provenance: which key it was read for, when, and
before or after which invalidation. `Tick` is the clock, which is taken never to
be set back; `Latency` bounds how long an answer may travel.

### VolumeRemoval (`services/volume.service.ts` remove, `_execute`, `refresh`)

The daemon's volumes with generations, so that a reused name can be told from
the volume it once named; containers that come and go; the two cached listings
as one entry and one flight each (their own interleavings are in TtlCache).
Three kinds of operation work on them:

- `Remove(r)`, a DELETE request: `Inspect`, `Consult` (the cached inventory),
  `Evaluate`, `DaemonRemove` (with the reply possibly lost), `RemoveLands`,
  `Forget`. Each is what the code does between two awaits.
- `Execute(v)`, the body of a scan: `ScanFinds`, `ScanCreates` (the Engine
  creates a bound volume it does not have), `ScanRemovesSidecar`, `ScanRecords`.
- `StartRound`, `Observe`, `Render`: readers of both listings. `Observe` is a
  ledger round's transaction.

`erased` and `overlapped` are history variables for the statements about
history that outlives its volume. The audit insert is taken to succeed; the code
swallows its failure.

### Sidecar (`docker/sidecar.runner.ts`, `_probe`, boot)

One host. `check` is the sequence of image checks ever begun, `imageReady` the
Map entry. A run goes through `checking, creating, starting, waiting`, then
either `logging` or, when the budget has expired, `killing, settling,
loggingLate`, and through `removing` to `done`. The container of a run lives at the daemon, where its
probe ends or dies without the program's doing. Each Engine call may fail, also
after it was carried out. `Crash` ends every run in progress and empties the
Map; requests that were sent may still be carried out. `Boot` starts the sweep
(`ReapList`, `ReapOne`), which runs beside new scans as it does in the code.
`SocketTimeout` is TRUE for the local daemon and FALSE for an SSH host, where
`setTimeout` of a channel does nothing (`docker/ssh-agent.ts`, `_asSocket`).

### HostRegistry (`docker/host-registry.ts`, `host-context.ts`, `services/host.service.ts`, `store/host.repository.ts`)

`record` is the host table, `context` the registry's Map, `built` every transport
that was ever made. A job is a request, a scan or a round that resolved its
transport (`Resolve`) and uses it later (`Connect`, `CheckImage`, `Finish`,
`Fail`), whatever became of the host meanwhile: a disposed agent connects again
with the record it was built from, as the code's does. `Create`, `Update` and
`Trust` are one step each, since the handlers are synchronous; `Remove` is one
statement at a time with `Restart` possible between any two. `late` marks what
was written through a transport that had been superseded by then; the properties
are about everything else, and about which writes may be late.

### SshAgent (`docker/ssh-agent.ts`, `utils/known-hosts.util.ts`)

A connection goes through `preparing, dialing, checking, verified | refused, open`
to `failed` or `closed`; `client` and `connecting` are the fields of the agent.
`CreateConnection` is the entry with its three ways: the breaker refuses, the
pooled client is used, a handshake is shared or begun. `LookUp` is the verifier's
answer, which may come for a handshake that is over. `ChannelOpens` and
`ChannelFails` carry the fallback from the streamlocal channel to `docker
system dial-stdio`. `Error`, `Close` and `Destroy` are the events; each does what
its handler does to `client`, `connecting`, `lastError` and the breaker.
`KnownHosts` is a set of possible file contents, whose entries say of what form
they are and whether they name the address.

### SchemaMigration (`store/sqlite.client.ts`, `schema.store.ts`, `migration.store.ts`)

`Baseline` and `Hosts` are the sequences of statements of the code, each an
operation and its object; `Rejected` says on which files SQLite refuses a
statement, `Executed` what it does otherwise. `committed` is what a death leaves:
outside a transaction every statement, inside one nothing before `Commit`.
Files begin as an earlier release left them (`Released`).

### History (`scheduler/snapshot.scheduler.ts`, `services/sighting.service.ts`, `store/measurement.repository.ts`, `sighting.repository.ts`)

Snapshot and ledger rounds over the hosts in batches of `SweepConcurrency`. Each
host of a batch has its own progress in `round[n].work`. `Scan(h, v)` is a scan's
end, for whoever asked; `Ask` an interactive request in the same queue. The
retention sweep deletes what `prune` deletes. A daemon answers, refuses or never
answers. `known` and `evidence` remember what was written and seen, for the
statements about the store. A behaviour has rounds of one kind (`kind`): the two
kinds share no state but the hosts.

`MeasurementSeries` is what the table of measurements promises while a volume and
its host stay: it is appended to with the present time, and loses only what has
left the retention and has something newer that stays. `ImplementsSeries` maps the
rows to it; `forget` and `forgetHost` are in VolumeRemoval and HostRegistry.

### ScanProbe (`scanner/scan.script.ts`, `scan.parser.ts`, `host-fs.strategy.ts`, `scanner.service.ts`)

One measurement or listing of one volume. The script is the sequence of lines it
prints (`Script`), which arrive one by one until the probe is killed (`ProbeDies`)
or `du` is (`DuDies`). `parsed` holds the parser's variables: `Parse` is one turn of
its loop, `Outcome` what it returns and `ProbeVerdict` what `_probe` makes of that. The
walk takes the entries one at a time and keeps their sum (`measure` adds them up
at the end), and between two of them a file may vanish or the deadline pass. A
volume has hard links, closed directories, symlinks to the outside, names with a
newline, and more children than the cap. Sizes are blocks.

The script prints a name as it is, so a name with a newline ends its record early
(`cutTo`) and its rest is a line of its own, which the parser takes for whatever it
reads as: `second` is that line, of any type the parser knows or of none, and every
record that ends with the name carries it (`AfterSize`, `AfterName`). It can name no
path of the volume, since names have no slash (`Elsewhere`). The properties say what
such a line can reach, and that it reaches nothing else; section 6 has what it does.

### Records, EnvConfig (`store/*.repository.ts`, `services/measurement.mapper.ts`, `docker/container.repository.ts`, `config/env.config.ts`)

How rows, records and what goes over the wire stand for each other, with the
patches and upserts that keep the tables: a nullable value is the set of it, a
JSON column may hold junk. EnvConfig is the environment's reading: which texts
count as unset, what is coerced to what, the bounds and the defaults.

### VolumeQueries (`services/volume.service.ts`, `dependency`, `safety`, `system`, `browse`, `measurement` services)

The graph of consumers, usage classes and verdicts, the list with its filter,
order and pages, the summary, the growth series with its buckets, the health
report, and the normalisation of paths, over one state of a host.

### HttpLayer, ApiRoutes (`controllers`, `routes`, `middlewares`, `validations`, `shared/src/routes.shared.ts`, `frontend/src/lib`)

A route is the sequence of its checks, in the code's order; the first that fails
is the answer. ApiRoutes has the routers in the order Express tries them and the
URLs the client builds; and which cached answers a mutation discards.

### Dashboard (`frontend`: the inventory page)

One tab. `url` is the committed location, `nav` a navigation under way, which a
newer one replaces. Every control builds its location from the last render, as
`setQuery` does. The search field's effects (adopt a search that changed unless
the user is editing; set the debounce) are part of every step that renders.
`view`, `kept` and `inflight` are what the page's observer, the query cache and
the network hold. What React, Next and TanStack Query do is external and
modelled from how the code uses them: an effect runs after a render that changed
a dependency; a page whose `[hostId]` segment changes is mounted anew and the
sidebar is not; an answer is filed under the key it was asked for; the
placeholder is the last data of the same observer. A behaviour begins with a URL
that was pasted: any host, usage, search, order and offset (`Location`). The volumes
and the containers of every host change meanwhile (`VolumeAppears`, `VolumeGoes`,
`UsageChanges`), so that a list of one usage grows and shrinks without any volume
coming or going.

`pasted`, `removed`, `regrouped` and `blind` record the four ways in which a page
comes to be past its list without a mistake of the code's own logic, and `dropped` the
one in which a text stays unsent; without any one of them TLC shows a counterexample.
The project filter, the sort keys other than size and the browser's Back are left out.

### HostForms, VolumePage, Formats (`frontend`: host settings, a volume's page; `shared/src/format.shared.ts`)

Operators, one per event of a component, which ClientChecks strings together in
every order up to a length: the host card with its probe, fingerprint prompt and
form; the polled scan; the removal dialog; the directory browser; the chart.
Sizes and ages are numbers of units, with the unit tables as parameters.

## 3. Runs

| Run | Instance | Shows |
|---|---|---|
| `task_queue` | 5 tasks, 2 slots, 2 waiting places | `QueueInv` (types, slots accounted, bounds, nobody waits beside a free slot, no task twice), refinement of FifoPool, `AcceptedTaskSettles` |
| `scan_queue` | 2 hosts of which one answers, 3 volume names, 3 jobs, 1 slot and 1 waiting place per host, 1 retained job | one live job per volume, live jobs findable, joins of the right volume, slots by host, eviction bounded and oldest first, accepted jobs run; each host's part implements TaskQueue; everybody who asks the live host is answered |
| `ttl_cache` | 2 hosts, 2 callers, ttl 2, clock 4, 2 flights, 1 invalidation | one flight per key, no mix-up of hosts, age bounded, invalidation forgets, nobody waits for nothing |
| `volume_removal` | 2 requests for one name, 2 generations, 1 container, scans, 1 reader of the listings | audit and erased history agree with the daemon; what is written of a volume after its removal stems from something that overlapped the removal |
| `sidecar` | 2 scans, 1 restart, 3 image checks, 1 forgotten check, local daemon | checks shared and not cached as failed, sidecars removed, the sweep does its work, every scan ends |
| `sidecar_hang` | same, SSH host, no restart | **violated**: a scan over its budget reaches the removal of its container |
| `ssh_agent` | 3 calls, 2 host keys, 2 contents of known_hosts and none, 2 connections, 1 destroy | one pooled connection, only trusted keys, the true reason of a refusal, every call answered |
| `host_registry` | 1 host, 2 addresses, 2 jobs, 2 transports, 1 row, 1 crash | what is registered is current, history has its host, a row comes from the machine that is recorded, and from the key that was confirmed; and StoreChecks |
| `schema_migration` | files of version 0 and 1, 2 rows, 3 crashes | version and shape agree, no row is lost, every start succeeds |
| `history` | 2 hosts with 2 and 1 volumes, queues of one scan, 2 rounds of each kind, clock 2, retention 1 | one round at a time, no newest size lost, refinement of MeasurementSeries, idle never overstated, rounds end |
| `scan_probe` | 3 children, cap 2, one name with a second line of any type | what is reported lies in the volume and on the right machine; a measurement is exact or flagged, up to what the second line of a name can reach |
| `dashboard` | 2 hosts, 2 volumes, 1 container, a pasted URL, 3 clicks, 1 change at the daemons, 2 answers in the air, pages of 1 | rows are of this host, unsent text is on its way, an empty page has a cause, the screen settles on the URL; and the checks of MCDashboard and ClientChecks |

Why the bounds are enough to be interesting:

- *TaskQueue.* With 5 tasks, 2 slots and 2 waiting places the queue can be full,
  refuse, drain to idle and fill again; two tasks can be in each stage at once.
- *ScanQueue.* 3 jobs over 3 names let one host be saturated while another
  works, a volume be measured again while its older job is still in its chain,
  and the registry (limit 1) be over its limit with live and settled jobs mixed.
  The queue lengths are 1 because everything a longer queue adds is TaskQueue,
  which is checked with 2 and proved for all.
- *TtlCache.* Ttl 2 within 4 ticks: an entry can be used, expire, be read again.
  Two callers and two hosts are the least for sharing and for mixing up.
- *VolumeRemoval.* The second generation is the reuse of a name. One name: the
  program keeps nothing that relates two names, except the listings, which are
  per host. Two requests race each other; the second may come when the first is done.
- *Sidecar.* Two runs: one to be disturbed by the other's check, one of each
  process for the sweep. One forgotten check suffices for a late failure
  to hit a newer one; the third check is the one begun after that.
- *SshAgent.* Two connections are one that fails or is destroyed and one that
  follows; the third call meets the breaker or shares the second handshake.
- *HostRegistry.* Two addresses and two transports: one superseded, one current.
  A host can be removed and registered again within them; the crash can fall into
  the removal. Hosts share nothing, so one suffices.
- *SchemaMigration.* Three crashes: one in the baseline, one in the migration, one
  in the start after it. Two rows tell a lost row from a table that was empty.
- *History.* Queues of one scan are over their limit as soon as a round hands over
  a host with two volumes. Two overlapping rounds, and two ticks, with which the
  older round can write last and a row can pass its retention.
- *ScanProbe.* Every small tree is an initial state. One child beyond the cap. One
  name of two lines: the line of another would be a record of the same types.
- *Dashboard.* Three clicks: a text, a link that replaces its navigation, and a
  third that meets the placeholder of either. The behaviour begins in the middle of a
  list of one usage, on the second of two pages, in the order that is not the
  default; the one change may take a volume from that list, or a container from a
  volume. The proofs are for every location that may be pasted.

TLC runs with deadlock checking off where the model comes to its bound (all
tasks released, all requests sent, all calls answered); each cfg says so. The
program itself waits for input at such a point.

## 4. Fairness

- A promise's callbacks always run: weak fairness on `Release`, `Conclude`,
  `Cleanup` of ScanQueue and `Release` of TaskQueue.
- That a task *settles* is the caller's obligation. `AcceptedTaskSettles`
  assumes it (TaskQueue has no timeout), `LiveHostAnswers` assumes it for hosts
  in `LiveHost` only, and Sidecar's `RunEnds` is the argument why it holds on
  the local daemon.
- In Sidecar every Engine call is answered, if only by the socket timeout
  (`DOCKER_TIMEOUT_MS`), and timers fire. Nothing is assumed of the probe, which
  may run for ever, nor of `kill()`, which may fail each time. On an SSH host
  nothing ends a `wait()` but the end of the probe, and `RunEnds` is not claimed.
- In SshAgent a key file is read or not, `readyTimeout` ends a handshake, and
  ssh2 answers every channel request, if only when the connection ends. Nothing
  is assumed of `ready`, of the verifier or of the breaker's expiry.
- In SchemaMigration a start that is under way goes on; it may crash at any point.
- In History rounds go on as their promises settle, and a scan ends. `RoundsEnd`
  is stated for behaviours in which no daemon hangs for ever: the scans' own
  timeouts and the client's see to that on the local daemon.
- In Dashboard timers fire, the router commits, a query is polled and its answer
  comes. Nobody has to click, and nobody has to stop: the clicks are bounded.
- Nobody is obliged to submit, to ask, to invalidate or to crash.

## 5. Proofs

`TaskQueueProofs` proves, for every set of tasks and all values of
`Concurrency` (positive) and `Limit`, each safety property of TaskQueue and the
refinement:

- `TypeCorrect`, `SlotsAreAccounted`, `BoundsHold`, `NeverIdle` from the invariant
  `IInv`: TypeOK, SlotsAccounted, Bounded and WorkConserving, and that the set of
  settled tasks is finite. None of the four is
  inductive alone: `Release` decrements `running`, so that `running` stays a
  natural number needs `SlotsAccounted` (a task settled and not released is
  started, hence counted), and `WorkConserving` after a `Release` needs that
  at most one slot was free before, which is `WorkConserving` and `Bounded`
  together. `PumpConserves` is the lemma about the one `pump()` that
  every action ends in, about the values in the middle of the step.
- `TasksHandledOnce` from `NoTaskTwice` itself on top of `IInv`: `pump` leaves
  `started \o pending` as it is (`PumpKeepsOrder`), and `Submit` appends a task that
  occurs in neither.
- `RefinesFifoPool`: the safety part of `FifoPool` by the same lemma. FifoPool's
  specification has no fairness, so this is all of it.

`ScanQueueProofs` proves, for all hosts, volumes and limits, `LiveJobsAreFindable`,
`AtMostOneLiveJob` and `AcceptedJobsRun`. `enqueue` tests the active entry and
nothing else, so `OneLiveJobPerVolume` is not inductive. What makes it so is the
invariant `IInv`: every live job *is* its volume's active entry and in the Map
(`Findable`), the backlogs hold queued jobs of their host, each once
(`BacklogIsQueued`, or a `pump` could bring a finished job back to life), and the state readers
see follows the stage of the chain (`StateFollowsStage`). The parts are written
over the values of the variables rather than the variables, since `Create`
pushes and then pumps in one step and the lemmas speak of the values in between.

The rest of `QueueInv` is `RegistryAgrees`, from `RegistryIInv`. The slot counts are
stated of a job table and a slot table (`Slots`), because `Release` gives a slot back
and then pumps: the count that `pump` starts from is that of the table in the middle
of the step. The active entries have to name jobs of their own volume
(`EntriesMatch`), or the cleanup, which looks only at the entry under its own
volume's key, could leave the entry of a finished job behind. That at most
`RetainedJobLimit` concluded jobs are kept holds because `_evict` runs with every
cleanup and at most one job becomes evictable by it.

`HostsHaveTheirQueues` is the refinement: for all hosts, volumes and limits, the part
of each host behaves as a `TaskQueue`, so what `TaskQueueProofs` proves holds of every
host's queue, whatever is asked of the others. `ScanQueueRefinement` reads off the job
table what the TaskQueue of a host would remember: the tasks it began, in the order of their
numbers. That this order is the order in which they were started is what the
invariant `TurnIInv` is for: a host's backlog is in order and behind everything that
host has begun. It also says that the begun jobs can be put in order, which is true
of every finite set of numbers but is kept as part of the invariant, where each
step adds one number at the end, since the general fact needs an induction over
finite sets. `OneOrder` says that there is only one such order; `QueueSubmits`,
`QueueSettles`, `QueueReleases` and `QueueRests` are the four things a step may be to
a host, and `PumpTurn` is the pump.

`TtlCacheProofs` proves, for all hosts, kinds and callers, every ttl and every
latency, `TypeCorrect`, `FlightsAreShared`, `NobodyWaitsForNothing`,
`NobodyElsesListing`, `ListingsAreRecent` and `InvalidatedIsGone`, which are all of the
run's invariants. One invariant carries them, with a part for each variable:

- `FlightOK` and `KeyOK` say in both directions that a flight in the air is the one
  registered under its key. `finally()` deletes by key; that it deletes its own
  flight and no other is `FlightOK`, and that none stays behind is `KeyOK`.
- `EntryOK` relates an entry's expiry to the moment its value was read, and its
  landing to the invalidations of its key: a hit needs nothing else.
- `CallOK` says that whoever waits asked no later than now, for the key of a flight
  still in the air; when that flight settles, its travel bounds the age.

`ListingsAreRecent` is where the ttl alone would be wrong: the expiry is counted from
the arrival of the answer, not from the daemon's snapshot, hence the latency in
`AgeBounded`. It assumes a clock that is not set back, as the model does.

The same module proves `DashboardInv` of the page that shows these listings
(`DashboardHolds`), for any hosts, texts, clicks and requests in the air. That unsent
text is on its way is not inductive with a navigation under way alone, since one
that began before the text was typed arrives without it: it has to carry a text of
the field, and a navigation that replaces another inherits that (`TextIsCarried`,
`Navigates`). `EmptyPageHasACause` needs to know of every location, committed or on its
way, how its offset came about: `OffsetIInv` says that it lies within its list as the
host is now (`ReachesNow`), and that every answer kept or in the air lists some of
today's volumes, with today's containers unless those have changed (`Remembers`). The
pasted location and, after a container moved, the lists of one usage are `Excused`.
`SteadyKeeps` is for the daemons: volumes that come only make lists longer
(`CountGrows`), and a list of all volumes does not depend on the containers
(`AnyUsers`). What it rests on is that a page is empty just if it begins past its list
(`PageOfList`), whose length is the number of names that match (`RowsAreCounted`).

`HostRegistryProofs` proves, for all hosts, addresses, keys, jobs and bounds, all
four properties of the hosts: `RegistryIsCurrent`, `HistoryKeepsItsHost`,
`RowsAreOfTheRecordedMachine` and `PinsAreHonoured`. A job keeps the transport it
resolved while edits, confirmations and removals go on, so the invariant relates
each to each:

- `Types` says that what a job at work holds was built by this process, and
  `OneTransport` that it is disposed of or the registered one; with
  `ContextMatchesRecord`, a job's transport is late or the record's (`HeldTransport`).
- `InvalidateKeepsCurrent`: after `invalidate()` nothing that is not disposed of
  depends on the host's record, hence the record may be edited, or go, in the same
  step. Without the invalidation in `trust()` this is where the proof fails.
- `RemovalOK` is about the middle of `remove()`: the host is recorded until the last
  statement, without a transport and without a check of the image, and before the
  last statement its audit rows are gone, which that statement does not delete.
- `RowsOK` and `ImageOK` are the two properties made inductive: they speak of rows
  and checks of hosts that are not recorded, too, since an id can be created again.

`FiledRow` is the lemma both `HistoryKeepsItsHost` and `RowsAreOfTheRecordedMachine`
rest on. `PinsAreHonoured` is about a row at the moment it is written: if its transport
is not superseded, its machine answered with the key that is pinned *now*, although
it was checked when the connection opened. `OpenOK` says that whoever answers has the
key its transport was built with, and `ContextMatchesRecord` that a registered one was
built with the record's: hence `trust()` has to invalidate before it returns.

The same module proves of SchemaMigration, whose file holds the table of hosts, for
any number of rows and crashes its invariant `StoreInv` and `HistorySurvives`. `StoreIInv` says
what the file looks like at every statement: `TablesMade` which tables the baseline
has seen to, `MidMigration` which shape each table has, where the ledger's rows are
and which indexes are there when the migration has come to statement n, and `AtRest`
that nothing of this shows in what is committed. `BaselineStep` and `MigrationStep`
go through the statements; both say that SQLite refuses none of them, so a start
can fail only by dying (`stage # "rejected"`), on any file a crash has left.

`VolumeRemovalProofs` proves, for all volumes, requests, scans and rounds and any
number of generations, `RemovalInvariant`, `DeletedOnce` and `HistoryKept`. A name is
used again, so everything is stated of generations, and the invariant first has to
say that a generation belongs to one name (`OneName`), wherever it is known: at the
daemon, in a listing or a flight, in the hands of a scan or a round, in the store, or
in a request's answer. `GoneOnce` is what the daemon grants: one removal of a
generation succeeds. `PhantomsComeFromOverlap` is not inductive, since what is
written after the removal was read before it: `HeldWasOverlapped` says that whoever
still holds (`Holds`) what was forgotten is one of those whose work overlapped. The
steps that neither remove nor forget are dealt with together (`Quiet`): they only
carry what is known from the daemon to the listings, the readers and the store.

`SshAgentProofs` proves, for all connections, keys, requests and contents of
known_hosts, `AgentInvariant`, `OnlyTrustedHosts` and `RefusalReported`. `Sound` ties
the stage of a connection to the progress of its verifier, whose answer may come
when the handshake is over; `Named` and `Known` say in both directions that the
agent's two fields name what is alive, until the first `destroy`, after which a
handshake may finish that nobody knows of; `CallersOK` that a call is carried only by a
connection whose key was found to be trusted. `WaitingOK` is for the refusal: those who
wait share the agent's handshake, and its `lastError` is still the one of the key.

`SidecarProofs` proves, for every set of runs and any number of boots,
`SidecarInvariant`, `Removed` and `DeadAreCleared`. `Fit` is
`SidecarRemoved` with the early stages, in which there is no container yet. `Swept`
says what the sweep of a boot still owes: a container of a dead process is among the
strays it has yet to remove, or its removal was refused. `OrphansOK` counts the
checks of the image that the host's entry no longer holds, each of them let go by
a `forgetImage`, so that `ChecksShared` follows.

The same module proves both invariants of ScanProbe, `ProbeHolds` and
`MeasurementsAreWholeOrFlagged`, for volumes with any number of children and any cap.
The script's side: `ScriptSays` is what every line of the script says and which lines
must be among them; `NothingLost` that each of those is either still to come or was
read, as long as the last line has not been lost, and `LastIsLast` that this last line
tells. So the sentinel is what makes a result complete, and a `du` that died is the one
loss it does not tell, which `whole` remembers. `OneRecordMore` says what a record and
the rest of the name in it do to the parser together: a BASE, an ERROR or an END shows
only if a name reads as one (`Says`). An END in a name comes after the sizes, which is
why `SizesKept`, unlike `NothingLost`, holds of a stream that one of those completes.
The walk's side (`WalkOK`): the sum so
far is the size of some set of inodes of the children behind the walk, all of them
unless it was cut short, and the inode met already is in it if and only if it is
remembered as met; a child adds what is not in it yet (`OneMore`), and when nothing is
left to visit this is the volume (`WholeVolume`). The sums are cardinalities of sets,
since the sum of a sequence is a recursive function that could not be reasoned about.

`HistoryProofs` proves, for all hosts, volumes, rounds and limits, `HistoryInvariant`,
`IdleTimes` and `RefinesSeries`. `FlagIsTheRound` says that `snapshotRunning` is set exactly while one
round runs: with two rounds at work the `finally` of the first would let a third
begin. `RoundOK` and `WorkOK` bind what a round has in hand to the store: what it
measured is newer than its begin, and a listing it read was read in the past. `SizesOK` keeps the
newest size of every volume known to be a row of the table, so that the retention
sweep, which spares the newest, spares that one; `LedgerOK` orders the times of a
ledger row and puts its marker behind every listing that was written, in
whatever order overlapping rounds write. For the refinement, `SweepTrims` takes from
`SizesOK` the row that stays when a sweep drops another of the same volume: "not the
newest" alone says only that a newer one was there, not that it is kept.

The assumptions on the constants are those of the code or of the model's bounds:
positive limits, marks such as `NoPin` or `None` that are none of the values they stand beside,
the rounds of the two schedules kept apart, finitely many volumes on a machine, and
mounts of volumes the machine has.

TLC checks the same invariants on the instances of section 3; the assumptions of
the constants (`QueueOptions` and the like) are evaluated there too.

Out of the prover's reach, and left to TLC: liveness under fairness, anything
with ENABLED, induction over data, and RECURSIVE operators (none is used in a
module with a theorem). Model-checked only, therefore: every liveness property,
and the assumptions about the operators, which TLC evaluates over small inputs.
Every invariant of a run, and the safety part of every refinement, is proved.

## 6. Findings

One run is expected to be violated:

- `sidecar_hang` - "The container is always removed, including on timeout"
  (`docker/sidecar.runner.ts:191`). Over SSH the second wait has no limit at all, so
  that the finally-block may never be reached and the host's queue slot is held until
  the process ends.

Noticed while modelling; each is a behaviour of the model or of its operators, and
the line of the code or comment it concerns is given. Those with a name in code
font are stated by that assumption.

*Queue, history and sidecars*

- "Finished jobs are retained for polling" (`queue/scan.queue.ts:15`): the limit
  counts live jobs too (`:66`), so with a full backlog a job is evicted by its own
  cleanup and its poller gets a 404. The client then polls on for as long as the
  page is open (`AForgottenJobRunsOn`).
- "its history would otherwise resurrect as a phantom row"
  (`services/volume.service.ts:233`): a scan, a ledger round or a listing in the
  air can write after `remove` has forgotten. `PhantomsComeFromOverlap` says these
  are the only sources.
- A scan that waits to create its sidecar re-creates a volume that was removed,
  through its bind (`docker/sidecar.runner.ts:102`).
- "left behind by a previous process that died mid-scan"
  (`docker/sidecar.runner.ts:222`): the sweep goes by the label (`:229`), and the
  listener is open while it runs, so it also takes sidecars of new scans.
- `DOCKER_TIMEOUT_MS` (30 s) also applies to the `wait()` of a probe whose budget
  `SCAN_TIMEOUT_MS` is longer. That `SSH_CONNECT_TIMEOUT_MS` is "well under" it
  (`config/env.config.ts:116`) holds of the defaults and is not enforced.
- "Filenames containing newlines will yield one unparseable record, which the parser
  drops, rather than corrupting the totals" (`scanner/scan.script.ts:18-20`): the rest
  of such a name is a line of the stream (`:66`), and the parser takes every line that
  begins with its prefix for a record (`scanner/scan.parser.ts:68-116`). One that reads
  as BASE makes it look the total up under a path `du` never printed: 0 bytes,
  unflagged (`ANameCanHideTheTotal`). `ListsOnlyInside` and `WholeUnlessFlagged` say
  what else such a line reaches: ERROR makes the root of a volume answer
  PATH_TRAVERSAL or PATH_NOT_FOUND, END makes a stream that was cut off later look
  complete, and the counts are of lines.
- A `du` that the memory limit kills leaves a complete stream: the measurement is
  0 bytes and not flagged.
- The walk on this machine does not stop at mount points, as `du -x` does, and its
  total misses the children beyond the cap (they are flagged as truncated).
- A hung host holds its batch, and with it all later snapshot rounds, while it
  hangs (`scheduler/snapshot.scheduler.ts:41`).
- An idle time is called reliable by the age of the first sighting alone
  (`services/sighting.service.ts:66`), not by continuous watching (`:48`).

*Volumes*

- The "fresh safety evaluation" of `services/volume.service.ts:203` may use an
  inventory `INVENTORY_CACHE_MS` old; the daemon's 409 is what protects a volume
  mounted since. `AgeBounded` of TtlCache is the exact statement.
- `summary.reclaimableBytes` counts orphaned volumes with a protected label, which
  cannot be reclaimed here (`DeletableIsOrphaned`); such a volume answers
  `VOLUME_IN_USE`, and the factory `volumeProtected` is used by nobody.
- Under `node:sqlite` a number is bound as REAL, so the bucket division of a growth
  series does not truncate and the series is never downsampled; with truncation it
  may have one point more than `MAX_POINTS` (`SeriesTellsTheGrowth`).
- `latest` and `latestForAll` can differ on rows of the same millisecond
  (`LatestAgrees`).
- No `..` survives the normalisation of a path, so the rejection after it is
  unreachable; and a path is trimmed, so that a directory whose name ends in a
  space cannot be opened (`PathsStayInside`).

*Hosts*

- `store/host.repository.ts:191` says audit rows stay when a host is removed;
  `services/host.service.ts:131` removes them.
- `update()` leaves the host's cached listings, which are then of the old machine
  for up to `INVENTORY_CACHE_MS`; `trust()` leaves the image check.
- `lastError` keeps `UNVERIFIED_HOST_KEY` until a connection succeeds, so that a
  later network failure is reported as a refused key. A key file that cannot be
  read sets neither `lastError` nor the breaker.
- A caller that still holds a disposed agent opens a connection that nobody ends.
- The baseline creates the index `idx_measurement_volume_time` again at each start
  after version 2 dropped it.
- `HostStatus.UNTRUSTED` is never reported.
- An explicit port in `DOCKER_HOST` that is the default of its scheme is lost
  (`PortsOfTheDaemon`). Delays have no maximum although Node's timers have one
  (`DelaysHaveNoMaximum`), and an empty text is not "unset" (`EmptyIsNotUnset`).
  `config/env.config.ts:101` calls removal opt-in; `:102` makes it the default.

*Client*

- A search push that is replaced by a link to the URL already shown is never sent
  again, and a pending text can be lost to a host switch (`dropped`); `isEditing`
  stays set when a text is typed back to what it was
  (`frontend/src/components/volumes/filter-bar.tsx:34`).
- The pager works on the placeholder page of another query, and can lead past the
  end of a list (`blind`). So does a URL with an offset, and so do a removal and, in a
  list of one usage, a container that stops; the empty page has no pager. The sidebar shows the previous host's counts until the
  new summary is there, although `frontend/src/lib/query-keys.ts:8` keys them by host.
- The host form keeps the draft of its first rendering, or of an earlier opening,
  and saving it reverts what others saved (`AReopenedFormIsStale`). A probe's result
  outlives an edit of the address, so that the old machine's key can be confirmed
  for the new one (`AnOldProbeCanBeConfirmed`); a key just confirmed reads as changed
  until the next test (`AConfirmedKeyReadsAsChanged`).
- The removal dialog keeps the typed name on Cancel (`CancelKeepsTheName`), and leads
  away from the page when a pending removal ends after it was dismissed.
- A disabled host is shown as unreachable, although nobody tried
  (`frontend/src/components/layout/daemon-status.tsx`).
- Sizes just under a unit show as "1024 KB", just under ten of one as "10.0 KB"
  (`RoundingStaysInTheUnit`).
- Enter on a button within a row also opens the row
  (`frontend/src/components/volumes/volume-row.tsx:17`). The directory listing of a
  volume is discarded neither by a scan nor by a removal.

## 7. What is not modelled

- Layout, animation and the `unlumen-ui` components: drawing and motion. What they
  keep (an open menu, a highlighted tab) no other part of the program reads.
- Type declarations and enumerations; wording of messages; logging, CORS, the
  request log.
- Text itself: log framing, patterns of validation, the syntax of cron expressions,
  globs and hashes of known_hosts. Their outcome is a value of the model.
- The audit insert's failure, which the code swallows; the order and grace period
  of a shutdown: what it may leave behind is what a crash leaves, which is modelled
  in Sidecar, History, HostRegistry and SchemaMigration.
- The clock set back, and 64-bit overflow of sizes: SQLite integers and JavaScript
  numbers agree up to 2^53, far beyond any volume.
- File systems mounted inside a volume, sparse files, modification times.
- Two processes on one database; two tabs of the client.

## 8. Plan

What was planned exists: sections 2 and 5 describe it. A next step would be an
abstract *register of hosts* that HostRegistry implements; its parts are stated, and
proved, one by one now (section 5).

## 9. Working with the project

```
tlc -workers 2 -config MCScanQueue.cfg MCScanQueue
tlapm TaskQueueProofs.tla
```

An MC module extends its component and declares the model values and the
symmetry; each of its cfg files is one run. Symmetry is used for safety runs
only. When the code changes, `PROJECT.json`'s map says which definition stands
for the changed lines; when a definition changes, run its component's runs first
and then its proofs.
