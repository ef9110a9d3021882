----------------------------- MODULE ScanQueue ------------------------------
(***************************************************************************)
(* backend/src/queue/scan.queue.ts: the job registry in front of one       *)
(* TaskQueue per host.                                                     *)
(*                                                                         *)
(* The life of a scan job runs through four callbacks on one promise       *)
(* chain, always in this order but with anything able to run in between:   *)
(*   Complete  the task's promise settles (then-callback of the queue)     *)
(*   Release   the slot is given back and the next task is started         *)
(*   Conclude  job.state becomes SUCCEEDED or FAILED                       *)
(*   Cleanup   the active entry is dropped and old jobs are evicted        *)
(* The chains of several jobs, and a caller whose own await has just been  *)
(* answered, interleave between these microtasks.  stage says how far a    *)
(* job's chain has come.  A job's id is its place in the order of creation *)
(* which is also the insertion order of the jobs Map.                      *)
(***************************************************************************)
EXTENDS Naturals, Sequences, FiniteSets

CONSTANTS
    Host, Volume,
    Concurrency,        \* Config.scan.concurrency, for each host
    QueueLimit,         \* Config.scan.queueLimit, for each host
    RetainedJobLimit,   \* RETAINED_JOB_LIMIT
    MaxJobs,            \* bound of the model: jobs ever created
    LiveHost            \* the hosts whose daemon answers every scan in the end

ASSUME ScanQueueOptions ==
    /\ Concurrency \in Nat \ {0} /\ QueueLimit \in Nat \ {0}
    /\ RetainedJobLimit \in Nat /\ MaxJobs \in Nat
    /\ LiveHost \subseteq Host

VARIABLES
    job,        \* job[j]: the job object, alive as long as its closures are
    pending,    \* pending[h]: backlog of the host's queue
    running,    \* running[h]: slots taken in it
    jobs,       \* keys of the jobs Map
    active,     \* the activeByVolume Map; NoJob where it has no entry
    asked       \* <<h, v, j>>: somebody asked for h/v and awaits job j

vars == <<job, pending, running, jobs, active, asked>>

NoJob == 0
JobState == {"queued", "running", "succeeded", "failed"}
Stage == {"queued", "executing", "completed", "released", "concluded", "cleaned"}

IsSettled(state) == state \in {"succeeded", "failed"}
Live(j) == ~ IsSettled(job[j].state)

IsSaturated(h) == Len(pending[h]) >= QueueLimit

NewJob(h, v) == [host |-> h, volume |-> v, state |-> "queued", stage |-> "queued", ok |-> FALSE]

Init ==
    /\ job = <<>>
    /\ pending = [h \in Host |-> <<>>]
    /\ running = [h \in Host |-> 0]
    /\ jobs = {}
    /\ active = [key \in Host \X Volume |-> NoJob]
    /\ asked = {}

-----------------------------------------------------------------------------
(* pump() of host h, given the backlog, slot count and job table its caller *)
(* left.  Starting a task runs it up to its first await: job.state becomes  *)
(* RUNNING in the same step.                                               *)

Idle(h, queue, busy, table) ==
    /\ busy >= Concurrency \/ queue = <<>>
    /\ pending' = [pending EXCEPT ![h] = queue]
    /\ running' = [running EXCEPT ![h] = busy]
    /\ job' = table

StartHead(h, queue, busy, table) ==
    /\ busy < Concurrency
    /\ queue # <<>>
    /\ pending' = [pending EXCEPT ![h] = Tail(queue)]
    /\ running' = [running EXCEPT ![h] = busy + 1]
    /\ job' = [table EXCEPT ![Head(queue)].state = "running",
                            ![Head(queue)].stage = "executing"]

Pump(h, queue, busy, table) ==
    Idle(h, queue, busy, table) \/ StartHead(h, queue, busy, table)

-----------------------------------------------------------------------------
(* enqueue(): three outcomes.  run() is enqueue() and an await of the same *)
(* job, so both are the asking of a job.                                   *)

\* The scan that a request for h/v would join.
Joinable(h, v) == active[<<h, v>>] \in jobs /\ Live(active[<<h, v>>])

Join(h, v) ==
    /\ Joinable(h, v)
    /\ asked' = asked \cup {<<h, v, active[<<h, v>>]>>}
    /\ UNCHANGED <<job, pending, running, jobs, active>>

\* 429: nothing is created.
RefuseSaturated(h, v) ==
    /\ ~ Joinable(h, v)
    /\ IsSaturated(h)
    /\ UNCHANGED vars

\* What enqueue() does once the host's queue has taken the job.
Register(h, v, id) ==
    /\ jobs' = jobs \cup {id}
    /\ active' = [active EXCEPT ![<<h, v>>] = id]
    /\ asked' = asked \cup {<<h, v, id>>}

\* Mutant: no isSaturated() test; submit() rejects and the job fails unrun.
CreateDoomed(h, v) ==
    LET id == Len(job) + 1
        doomed == [NewJob(h, v) EXCEPT !.stage = "released"]
    IN  /\ ~ Joinable(h, v) /\ id <= MaxJobs
        /\ \/ /\ ~ IsSaturated(h)
              /\ Pump(h, Append(pending[h], id), running[h], Append(job, NewJob(h, v)))
           \/ /\ IsSaturated(h)
              /\ job' = Append(job, doomed)
              /\ UNCHANGED <<pending, running>>
        /\ Register(h, v, id)

\* Mutant: one queue, the first host's, serves every host.
CreateShared(h, v) ==
    LET id == Len(job) + 1   q == CHOOSE g \in Host : TRUE
    IN  /\ ~ Joinable(h, v) /\ id <= MaxJobs /\ ~ IsSaturated(q)
        /\ Pump(q, Append(pending[q], id), running[q], Append(job, NewJob(h, v)))
        /\ Register(h, v, id)

\* Mutant: every request creates a job.
CreateAlways(h, v) ==
    LET id == Len(job) + 1
    IN  /\ id <= MaxJobs /\ ~ IsSaturated(h)
        /\ Pump(h, Append(pending[h], id), running[h], Append(job, NewJob(h, v)))
        /\ Register(h, v, id)

\* A new job.  submit() applies the same limit test in the same turn, so its
\* own rejection cannot happen after isSaturated() has answered false.
Create(h, v) ==
    LET id == Len(job) + 1
    IN  /\ ~ Joinable(h, v)
        /\ ~ IsSaturated(h)
        /\ id <= MaxJobs
        /\ Pump(h, Append(pending[h], id), running[h], Append(job, NewJob(h, v)))
        /\ Register(h, v, id)

Enqueue(h, v) == Join(h, v) \/ RefuseSaturated(h, v) \/ Create(h, v)

-----------------------------------------------------------------------------
\* _execute() ends: the measurement is stored, or some step of it threw.
Complete(j) ==
    /\ job[j].stage = "executing"
    /\ \E ok \in BOOLEAN :
          job' = [job EXCEPT ![j].stage = "completed", ![j].ok = ok]
    /\ UNCHANGED <<pending, running, jobs, active, asked>>

\* Mutant: a failed scan keeps its slot.
ReleaseIfOk(j) ==
    /\ job[j].stage = "completed"
    /\ LET h == job[j].host
       IN  Pump(h, pending[h], IF job[j].ok THEN running[h] - 1 ELSE running[h],
                [job EXCEPT ![j].stage = "released"])
    /\ UNCHANGED <<jobs, active, asked>>

Release(j) ==
    /\ job[j].stage = "completed"
    /\ LET h == job[j].host
       IN  Pump(h, pending[h], running[h] - 1, [job EXCEPT ![j].stage = "released"])
    /\ UNCHANGED <<jobs, active, asked>>

Conclude(j) ==
    /\ job[j].stage = "released"
    /\ job' = [job EXCEPT ![j].stage = "concluded",
                          ![j].state = IF job[j].ok THEN "succeeded" ELSE "failed"]
    /\ UNCHANGED <<pending, running, jobs, active, asked>>

\* _evictOldFinishedJobs(): walking the Map from the oldest job, delete the
\* settled ones until its size is within the limit.  The jobs deleted before
\* j are the settled ones older than j.
Evicted ==
    {j \in jobs : /\ ~ Live(j)
                  /\ Cardinality(jobs) - Cardinality({i \in jobs : i < j /\ ~ Live(i)})
                        > RetainedJobLimit}

\* The active entry of j's volume is deleted unless a newer job owns it.
WithoutEntryOf(j) ==
    [active EXCEPT ![<<job[j].host, job[j].volume>>] = IF @ = j THEN NoJob ELSE @]

\* Mutant: eviction runs when a job is created instead of when one ends.
CleanupWithoutEviction(j) ==
    /\ job[j].stage = "concluded"
    /\ job' = [job EXCEPT ![j].stage = "cleaned"]
    /\ active' = WithoutEntryOf(j)
    /\ asked' = {a \in asked : a[3] # j}
    /\ UNCHANGED <<pending, running, jobs>>

\* Mutant: the active entry is deleted without asking whose it is.
CleanupAny(j) ==
    /\ job[j].stage = "concluded"
    /\ job' = [job EXCEPT ![j].stage = "cleaned"]
    /\ active' = [active EXCEPT ![<<job[j].host, job[j].volume>>] = NoJob]
    /\ jobs' = jobs \ Evicted
    /\ asked' = {a \in asked : a[3] # j}
    /\ UNCHANGED <<pending, running>>

\* The finally-callback; whoever awaited the job is answered after it.
Cleanup(j) ==
    /\ job[j].stage = "concluded"
    /\ job' = [job EXCEPT ![j].stage = "cleaned"]
    /\ active' = WithoutEntryOf(j)
    /\ jobs' = jobs \ Evicted
    /\ asked' = {a \in asked : a[3] # j}
    /\ UNCHANGED <<pending, running>>

-----------------------------------------------------------------------------
Next ==
    \/ \E h \in Host, v \in Volume : Enqueue(h, v)
    \/ \E j \in DOMAIN job : Complete(j) \/ Release(j) \/ Conclude(j) \/ Cleanup(j)

(***************************************************************************)
(* Callbacks of settled promises always run.  A scan ends when its host's  *)
(* daemon answers: nothing forces that on a host outside LiveHost.         *)
(***************************************************************************)
Fairness ==
    \A j \in 1 .. MaxJobs :
        /\ WF_vars(j \in DOMAIN job /\ job[j].host \in LiveHost /\ Complete(j))
        /\ WF_vars(j \in DOMAIN job /\ Release(j))
        /\ WF_vars(j \in DOMAIN job /\ Conclude(j))
        /\ WF_vars(j \in DOMAIN job /\ Cleanup(j))

Safety == Init /\ [][Next]_vars
Spec == Safety /\ Fairness

-----------------------------------------------------------------------------
ScanJob == [host : Host, volume : Volume, state : JobState, stage : Stage, ok : BOOLEAN]

(* Type invariant: the registry, the queues and the job objects.           *)
TypeOK ==
    /\ job \in Seq(ScanJob)
    /\ pending \in [Host -> Seq(DOMAIN job)]
    /\ running \in [Host -> 0 .. Concurrency]
    /\ jobs \subseteq DOMAIN job
    /\ active \in [Host \X Volume -> {NoJob} \cup DOMAIN job]
    /\ asked \subseteq Host \X Volume \X DOMAIN job

(* A volume of a host is never measured twice at the same time, however    *)
(* requests fall between the callbacks of an earlier scan: enqueue() only  *)
(* looks at the active entry, which another job's cleanup may have touched *)
OneLiveJobPerVolume ==
    \A i, j \in DOMAIN job :
        /\ job[i].host = job[j].host /\ job[i].volume = job[j].volume
        /\ Live(i) /\ Live(j)
        => i = j

(* A job that has not finished can be polled and joined: it is in the jobs *)
(* Map and its volume's active entry names it.  run() reads the Map right  *)
(* after enqueue() and throws when the entry has vanished.                 *)
LiveJobIsFindable ==
    \A j \in DOMAIN job : Live(j) => j \in jobs /\ active[<<job[j].host, job[j].volume>>] = j

(* Whoever asked for a volume awaits a scan of that volume on that host: a *)
(* name that exists on two hosts never gets the other host's numbers.      *)
AskerGetsItsVolume ==
    \A a \in asked : job[a[3]].host = a[1] /\ job[a[3]].volume = a[2]

(* An active entry is dropped with its job: no entry outlives the cleanup  *)
(* of the job it names.                                                    *)
NoStaleActiveEntry ==
    \A key \in DOMAIN active : active[key] # NoJob => job[active[key]].stage # "cleaned"

(* No doomed handle: a job that was accepted is started; it never goes     *)
(* from queued to finished (the comment above isSaturated in enqueue()).   *)
AcceptedJobRuns ==
    [][\A j \in DOMAIN job : job[j].state = "queued" => job'[j].state \in {"queued", "running"}]_vars

(* Every slot is held by a started job of the same host that has not been  *)
(* released: a dead host can fill its own slots only.                      *)
SlotsHeldByOwnHost ==
    \A h \in Host :
        running[h] = Cardinality({j \in DOMAIN job :
                                     job[j].host = h /\ job[j].stage \in {"executing", "completed"}})

(* The Map does not grow without bound: of the jobs whose cleanup ran, no  *)
(* more than the limit are kept.                                           *)
RetentionBounded ==
    Cardinality({j \in jobs : job[j].stage = "cleaned"}) <= RetainedJobLimit

(* The registry agrees with the jobs and the queues in every state.        *)
QueueInv ==
    TypeOK /\ AskerGetsItsVolume /\ NoStaleActiveEntry /\ SlotsHeldByOwnHost /\ RetentionBounded

(* A host that answers its scans serves everyone who asks it, whatever the *)
(* other hosts do: one unreachable host cannot starve another.             *)
LiveHostAnswers ==
    \A h \in LiveHost, v \in Volume, j \in 1 .. MaxJobs :
        <<h, v, j>> \in asked ~> <<h, v, j>> \notin asked
=============================================================================
