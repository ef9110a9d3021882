-------------------------- MODULE ScanQueueProofs ---------------------------
(***************************************************************************)
(* Proofs about ScanQueue, for all sets of hosts and volumes and every     *)
(* value of the limits.                                                    *)
(***************************************************************************)
EXTENDS ScanQueueRefinement, TLAPS, SequenceTheorems, FiniteSetTheorems, WellFoundedInduction

(***************************************************************************)
(* The inductive invariant.  enqueue() decides by the active entry alone,  *)
(* so LiveJobIsFindable is what makes its decision right.  For a pump()    *)
(* not to bring a finished job back to life, the backlogs must hold queued *)
(* jobs, each of them once, and a job's chain stage must agree with the    *)
(* state its readers see.  The parts are written over a job table, a       *)
(* backlog, a Map and its active entries, so that they can be stated of    *)
(* the values in the middle of a step, between the push and the pump.      *)
(***************************************************************************)
Unsettled(table, j) == table[j].state \notin {"succeeded", "failed"}

StateFollowsStage(table) ==
    \A j \in DOMAIN table :
        /\ table[j].state = "queued" <=> table[j].stage = "queued"
        /\ table[j].state = "running" <=> table[j].stage \in {"executing", "completed", "released"}

BacklogIsQueued(table, backlog) ==
    \A h \in Host : \A p \in DOMAIN backlog[h] :
        /\ backlog[h][p] \in DOMAIN table
        /\ table[backlog[h][p]].stage = "queued"
        /\ table[backlog[h][p]].host = h
        /\ \A q \in DOMAIN backlog[h] : backlog[h][p] = backlog[h][q] => p = q

Findable(table, kept, entries) ==
    \A j \in DOMAIN table :
        Unsettled(table, j) => j \in kept /\ entries[<<table[j].host, table[j].volume>>] = j

Coherent(table, backlog, kept, entries) ==
    /\ table \in Seq(ScanJob)
    /\ backlog \in [Host -> Seq(Nat)]
    /\ entries \in [Host \X Volume -> Nat]
    /\ StateFollowsStage(table)
    /\ BacklogIsQueued(table, backlog)
    /\ Findable(table, kept, entries)

IInv == Coherent(job, pending, jobs, active)

-----------------------------------------------------------------------------
\* Replacing one job of a table.
LEMMA ReplaceJob ==
  ASSUME NEW table \in Seq(ScanJob), NEW j \in DOMAIN table, NEW r \in ScanJob
  PROVE  /\ [table EXCEPT ![j] = r] \in Seq(ScanJob)
         /\ DOMAIN [table EXCEPT ![j] = r] = DOMAIN table
         /\ [table EXCEPT ![j] = r][j] = r
         /\ \A i \in DOMAIN table : i # j => [table EXCEPT ![j] = r][i] = table[i]
<1>1. j \in 1 .. Len(table) /\ DOMAIN table = 1 .. Len(table)
  BY LenProperties
<1> QED BY <1>1, ExceptSeq

\* The head of a backlog leaves it and starts: everything stays coherent.
LEMMA StartCoherent ==
  ASSUME NEW table, NEW backlog, NEW kept, NEW entries, NEW h \in Host,
         Coherent(table, backlog, kept, entries),
         backlog[h] # <<>>
  PROVE  Coherent([table EXCEPT ![Head(backlog[h])].state = "running",
                                ![Head(backlog[h])].stage = "executing"],
                  [backlog EXCEPT ![h] = Tail(backlog[h])], kept, entries)
<1> DEFINE queue == backlog[h]
           j == Head(queue)
           next == [table EXCEPT ![j].state = "running", ![j].stage = "executing"]
           rest == [backlog EXCEPT ![h] = Tail(queue)]
<1>1. /\ queue \in Seq(Nat) /\ queue # <<>>
      /\ Len(queue) \in Nat \ {0} /\ DOMAIN queue = 1 .. Len(queue)
      /\ j = queue[1] /\ 1 \in DOMAIN queue
      /\ Tail(queue) \in Seq(Nat) /\ Len(Tail(queue)) = Len(queue) - 1
      /\ DOMAIN Tail(queue) = 1 .. Len(queue) - 1
      /\ \A p \in 1 .. Len(queue) - 1 : Tail(queue)[p] = queue[p + 1]
  <2>1. queue \in Seq(Nat) /\ queue # <<>>
    BY DEF Coherent
  <2>2. Len(queue) \in Nat \ {0} /\ DOMAIN queue = 1 .. Len(queue)
    BY <2>1, EmptySeq, LenProperties
  <2> QED BY <2>1, <2>2, HeadTailProperties
<1>2. j \in DOMAIN table /\ table[j].stage = "queued" /\ table[j].host = h
  BY <1>1 DEF Coherent, BacklogIsQueued
<1>3. table \in Seq(ScanJob) /\ table[j] \in ScanJob
  BY <1>2, LenProperties, ElementOfSeq DEF Coherent
<1> DEFINE r == [table[j] EXCEPT !.state = "running", !.stage = "executing"]
<1>4. /\ r \in ScanJob /\ r.state = "running" /\ r.stage = "executing"
      /\ r.host = table[j].host /\ r.volume = table[j].volume
      /\ next = [table EXCEPT ![j] = r]
  BY <1>2, <1>3 DEF ScanJob, JobState, Stage
<1>5. /\ next \in Seq(ScanJob)
      /\ DOMAIN next = DOMAIN table
      /\ \A i \in DOMAIN table : i # j => next[i] = table[i]
      /\ next[j].state = "running" /\ next[j].stage = "executing"
      /\ next[j].host = table[j].host /\ next[j].volume = table[j].volume
  <2> HIDE DEF r, j, next
  <2> QED BY <1>2, <1>3, <1>4, ReplaceJob
<1>6. rest \in [Host -> Seq(Nat)] /\ rest[h] = Tail(queue)
      /\ \A g \in Host : g # h => rest[g] = backlog[g]
  BY <1>1 DEF Coherent
<1> HIDE DEF next, j, rest, queue
<1>7. StateFollowsStage(next)
  <2>1. \A i \in DOMAIN table :
          /\ table[i].state = "queued" <=> table[i].stage = "queued"
          /\ table[i].state = "running" <=> table[i].stage \in {"executing", "completed", "released"}
    BY DEF Coherent, StateFollowsStage
  <2>2. ASSUME NEW i \in DOMAIN next
        PROVE  /\ next[i].state = "queued" <=> next[i].stage = "queued"
               /\ next[i].state = "running"
                     <=> next[i].stage \in {"executing", "completed", "released"}
    <3>1. CASE i = j
      BY <1>5, <3>1
    <3>2. CASE i # j
      BY <1>5, <2>1, <3>2
    <3> QED BY <3>1, <3>2
  <2> QED BY <2>2 DEF StateFollowsStage
<1>8. Findable(next, kept, entries)
  <2>1. Unsettled(table, j)
    BY <1>2 DEF Coherent, StateFollowsStage, Unsettled
  <2>2. \A i \in DOMAIN table :
           Unsettled(table, i) => i \in kept /\ entries[<<table[i].host, table[i].volume>>] = i
    BY DEF Coherent, Findable
  <2>3. ASSUME NEW i \in DOMAIN next, Unsettled(next, i)
        PROVE  i \in kept /\ entries[<<next[i].host, next[i].volume>>] = i
    <3>1. CASE i = j
      BY <1>2, <1>5, <2>1, <2>2, <3>1
    <3>2. CASE i # j
      <4>1. i \in DOMAIN table /\ next[i] = table[i]
        BY <1>5, <3>2
      <4> QED BY <2>2, <2>3, <4>1 DEF Unsettled
    <3> QED BY <3>1, <3>2
  <2> QED BY <2>3 DEF Findable
<1>9. BacklogIsQueued(next, rest)
  <2> SUFFICES ASSUME NEW g \in Host, NEW p \in DOMAIN rest[g]
               PROVE  /\ rest[g][p] \in DOMAIN next
                      /\ next[rest[g][p]].stage = "queued"
                      /\ next[rest[g][p]].host = g
                      /\ \A q \in DOMAIN rest[g] : rest[g][p] = rest[g][q] => p = q
    BY DEF BacklogIsQueued
  <2>1. CASE g = h
    <3>1. p + 1 \in DOMAIN queue /\ rest[g][p] = queue[p + 1] /\ p \in 1 .. Len(queue) - 1
      BY <1>1, <1>6, <2>1
    <3>2. \A o \in DOMAIN queue : \A q \in DOMAIN queue : queue[o] = queue[q] => o = q
      BY DEF Coherent, BacklogIsQueued, queue
    <3>3. queue[p + 1] # j
      BY <1>1, <3>1, <3>2
    <3>4. /\ queue[p + 1] \in DOMAIN table /\ table[queue[p + 1]].stage = "queued"
          /\ table[queue[p + 1]].host = h
      BY <3>1 DEF Coherent, BacklogIsQueued, queue
    <3>5. ASSUME NEW q \in DOMAIN rest[g], rest[g][p] = rest[g][q]
          PROVE  p = q
      <4>1. q \in 1 .. Len(queue) - 1 /\ rest[g][q] = Tail(queue)[q]
        BY <1>1, <1>6, <2>1
      <4>2. q + 1 \in DOMAIN queue /\ rest[g][q] = queue[q + 1]
        BY <1>1, <4>1
      <4>3. p + 1 = q + 1
        BY <3>1, <3>2, <3>5, <4>2
      <4> QED BY <1>1, <3>1, <4>1, <4>3
    <3> QED BY <1>5, <2>1, <3>1, <3>3, <3>4, <3>5
  <2>2. CASE g # h
    <3>1. rest[g] = backlog[g]
      BY <1>6, <2>2
    <3>2. /\ backlog[g][p] \in DOMAIN table /\ table[backlog[g][p]].stage = "queued"
          /\ table[backlog[g][p]].host = g
          /\ \A q \in DOMAIN backlog[g] : backlog[g][p] = backlog[g][q] => p = q
      BY <3>1 DEF Coherent, BacklogIsQueued
    <3> QED BY <1>2, <1>5, <2>2, <3>1, <3>2
  <2> QED BY <2>1, <2>2
<1> QED BY <1>5, <1>6, <1>7, <1>8, <1>9 DEF Coherent, next, j, rest, queue

\* pump() leaves things coherent if its caller did.
LEMMA PumpCoherent ==
  ASSUME NEW table, NEW kept, NEW entries, NEW h \in Host, NEW queue, NEW busy,
         Coherent(table, [pending EXCEPT ![h] = queue], kept, entries),
         pending \in [Host -> Seq(Nat)],
         Pump(h, queue, busy, table)
  PROVE  Coherent(job', pending', kept, entries)
<1> DEFINE backlog == [pending EXCEPT ![h] = queue]
<1>1. backlog[h] = queue /\ [backlog EXCEPT ![h] = Tail(queue)] = [pending EXCEPT ![h] = Tail(queue)]
  OBVIOUS
<1>2. CASE Idle(h, queue, busy, table)
  BY <1>2 DEF Idle
<1>3. CASE StartHead(h, queue, busy, table)
  <2>1. Coherent([table EXCEPT ![Head(backlog[h])].state = "running",
                               ![Head(backlog[h])].stage = "executing"],
                 [backlog EXCEPT ![h] = Tail(backlog[h])], kept, entries)
    BY <1>1, <1>3, StartCoherent DEF StartHead
  <2> QED BY <1>1, <1>3, <2>1 DEF StartHead
<1> QED BY <1>2, <1>3 DEF Pump

\* One callback of job j advances its chain and leaves the rest alone.
LEMMA AdvanceCoherent ==
  ASSUME NEW table, NEW backlog, NEW kept, NEW entries,
         Coherent(table, backlog, kept, entries),
         NEW j \in DOMAIN table, NEW r \in ScanJob,
         r.host = table[j].host, r.volume = table[j].volume,
         table[j].stage # "queued", r.stage # "queued", r.state # "queued",
         r.state = "running" <=> r.stage \in {"executing", "completed", "released"},
         r.state = "running" => table[j].state = "running"
  PROVE  Coherent([table EXCEPT ![j] = r], backlog, kept, entries)
<1> DEFINE next == [table EXCEPT ![j] = r]
<1>1. /\ next \in Seq(ScanJob) /\ DOMAIN next = DOMAIN table /\ next[j] = r
      /\ \A i \in DOMAIN table : i # j => next[i] = table[i]
  BY ReplaceJob DEF Coherent
<1>2. r.state \in JobState /\ table \in Seq(ScanJob)
  BY DEF ScanJob, Coherent
<1> HIDE DEF next
<1>3. StateFollowsStage(next)
  BY <1>1 DEF Coherent, StateFollowsStage
<1>4. BacklogIsQueued(next, backlog)
  <2>1. ASSUME NEW h \in Host, NEW p \in DOMAIN backlog[h]
        PROVE  /\ backlog[h][p] \in DOMAIN table
               /\ next[backlog[h][p]] = table[backlog[h][p]]
    BY <1>1 DEF Coherent, BacklogIsQueued
  <2> QED BY <1>1, <2>1 DEF Coherent, BacklogIsQueued
<1>5. Findable(next, kept, entries)
  BY <1>1, <1>2 DEF Coherent, Findable, Unsettled, JobState
<1> QED BY <1>1, <1>3, <1>4, <1>5 DEF Coherent, next

-----------------------------------------------------------------------------
(* Each action keeps the invariant.                                        *)

\* A request that may not join files a queued job; before the pump() the
\* registry is coherent already.
LEMMA CreateCoherent ==
  ASSUME IInv, NEW h \in Host, NEW v \in Volume, ~ Joinable(h, v)
  PROVE  Coherent(Append(job, NewJob(h, v)),
                  [pending EXCEPT ![h] = Append(pending[h], Len(job) + 1)],
                  jobs \cup {Len(job) + 1},
                  [active EXCEPT ![<<h, v>>] = Len(job) + 1])
<1> DEFINE id == Len(job) + 1
           table == Append(job, NewJob(h, v))
           queue == Append(pending[h], id)
           backlog == [pending EXCEPT ![h] = queue]
           kept == jobs \cup {id}
           entries == [active EXCEPT ![<<h, v>>] = id]
<1>1. /\ job \in Seq(ScanJob) /\ Len(job) \in Nat /\ DOMAIN job = 1 .. Len(job)
      /\ \A j \in DOMAIN job : job[j] \in ScanJob
  BY LenProperties, ElementOfSeq DEF IInv, Coherent
<1>2. /\ NewJob(h, v) \in ScanJob
      /\ NewJob(h, v).host = h /\ NewJob(h, v).volume = v
      /\ NewJob(h, v).state = "queued" /\ NewJob(h, v).stage = "queued"
  BY DEF NewJob, ScanJob, JobState, Stage
<1>3. /\ table \in Seq(ScanJob) /\ DOMAIN table = 1 .. Len(job) + 1
      /\ \A j \in DOMAIN job : table[j] = job[j]
      /\ table[id] = NewJob(h, v)
      /\ id \in DOMAIN table /\ id \notin DOMAIN job
      /\ DOMAIN job \cup {id} = DOMAIN table
  <2> HIDE DEF table
  <2>1. /\ table \in Seq(ScanJob) /\ Len(table) = Len(job) + 1
        /\ \A j \in 1 .. Len(job) : table[j] = job[j]
        /\ table[Len(job) + 1] = NewJob(h, v)
    BY <1>1, <1>2, AppendProperties DEF table
  <2> QED BY <1>1, <2>1, LenProperties
<1>4. /\ pending \in [Host -> Seq(Nat)] /\ pending[h] \in Seq(Nat)
      /\ queue \in Seq(Nat) /\ Len(pending[h]) \in Nat
      /\ DOMAIN pending[h] = 1 .. Len(pending[h])
      /\ DOMAIN queue = 1 .. Len(pending[h]) + 1
      /\ \A p \in DOMAIN pending[h] : queue[p] = pending[h][p]
      /\ queue[Len(pending[h]) + 1] = id
  <2>1. pending \in [Host -> Seq(Nat)] /\ pending[h] \in Seq(Nat) /\ id \in Nat
    BY <1>1 DEF IInv, Coherent
  <2>2. Len(pending[h]) \in Nat /\ DOMAIN pending[h] = 1 .. Len(pending[h])
    BY <2>1, LenProperties
  <2> HIDE DEF id
  <2>3. /\ queue \in Seq(Nat) /\ Len(queue) = Len(pending[h]) + 1
        /\ \A p \in 1 .. Len(pending[h]) : queue[p] = pending[h][p]
        /\ queue[Len(pending[h]) + 1] = id
    BY <2>1, AppendProperties
  <2>4. DOMAIN queue = 1 .. Len(pending[h]) + 1
    BY <2>3, LenProperties
  <2> QED BY <2>1, <2>2, <2>3, <2>4
<1>5. /\ backlog \in [Host -> Seq(Nat)] /\ backlog[h] = queue
      /\ \A g \in Host : g # h => backlog[g] = pending[g]
  BY <1>4
<1>6. /\ entries \in [Host \X Volume -> Nat] /\ entries[<<h, v>>] = id
      /\ \A key \in Host \X Volume : key # <<h, v>> => entries[key] = active[key]
  BY <1>1 DEF IInv, Coherent
<1> HIDE DEF table, queue, backlog, entries, id
<1>7. StateFollowsStage(table)
  BY <1>2, <1>3 DEF IInv, Coherent, StateFollowsStage
<1>8. BacklogIsQueued(table, backlog)
  <2> SUFFICES ASSUME NEW g \in Host, NEW p \in DOMAIN backlog[g]
               PROVE  /\ backlog[g][p] \in DOMAIN table
                      /\ table[backlog[g][p]].stage = "queued"
                      /\ table[backlog[g][p]].host = g
                      /\ \A q \in DOMAIN backlog[g] : backlog[g][p] = backlog[g][q] => p = q
    BY DEF BacklogIsQueued
  <2>1. \A e \in Host : \A q \in DOMAIN pending[e] :
            /\ pending[e][q] \in DOMAIN job /\ job[pending[e][q]].stage = "queued"
            /\ job[pending[e][q]].host = e
            /\ \A r \in DOMAIN pending[e] : pending[e][q] = pending[e][r] => q = r
    BY DEF IInv, Coherent, BacklogIsQueued
  <2>2. CASE g # h
    <3>1. backlog[g] = pending[g] /\ p \in DOMAIN pending[g]
      BY <1>5, <2>2
    <3>2. /\ pending[g][p] \in DOMAIN job /\ job[pending[g][p]].stage = "queued"
          /\ job[pending[g][p]].host = g
          /\ \A r \in DOMAIN pending[g] : pending[g][p] = pending[g][r] => p = r
      BY <2>1, <3>1
    <3> QED BY <1>3, <3>1, <3>2
  <2>3. CASE g = h /\ p \in DOMAIN pending[h]
    <3>1. queue[p] = pending[h][p] /\ queue[p] # id
      BY <1>3, <1>4, <2>1, <2>3
    <3>2. \A q \in DOMAIN queue : q \in DOMAIN pending[h] \/ queue[q] = id
      BY <1>4
    <3> QED BY <1>3, <1>4, <1>5, <2>1, <2>3, <3>1, <3>2
  <2>4. CASE g = h /\ p = Len(pending[h]) + 1
    <3>1. \A q \in DOMAIN pending[h] : queue[q] # id
      BY <1>3, <1>4, <2>1
    <3>2. \A q \in DOMAIN queue : q \in DOMAIN pending[h] \/ q = p
      BY <1>4, <2>4
    <3> QED BY <1>2, <1>3, <1>4, <1>5, <2>4, <3>1, <3>2
  <2> QED BY <1>4, <1>5, <2>2, <2>3, <2>4
<1>9. Findable(table, kept, entries)
  <2>1. ASSUME NEW j \in DOMAIN job, Unsettled(job, j)
        PROVE  j \in kept /\ entries[<<job[j].host, job[j].volume>>] = j
    <3>1. j \in jobs /\ active[<<job[j].host, job[j].volume>>] = j
      BY <2>1 DEF IInv, Coherent, Findable
    <3>2. <<job[j].host, job[j].volume>> \in Host \X Volume
      BY <1>1 DEF ScanJob
    <3>3. <<job[j].host, job[j].volume>> # <<h, v>>
      BY <2>1, <3>1 DEF Joinable, Live, IsSettled, Unsettled
    <3> QED BY <1>6, <3>1, <3>2, <3>3
  <2> QED BY <1>2, <1>3, <1>6, <2>1 DEF Findable, Unsettled
<1>10. Coherent(table, backlog, kept, entries)
  BY <1>3, <1>5, <1>6, <1>7, <1>8, <1>9 DEF Coherent
<1> QED BY <1>10 DEF table, queue, backlog, entries, id

LEMMA CreateIInv ==
  ASSUME IInv, NEW h \in Host, NEW v \in Volume, Create(h, v)
  PROVE  IInv'
<1> DEFINE id == Len(job) + 1
           table == Append(job, NewJob(h, v))
           queue == Append(pending[h], id)
           kept == jobs \cup {id}
           entries == [active EXCEPT ![<<h, v>>] = id]
<1>1. Coherent(table, [pending EXCEPT ![h] = queue], kept, entries)
  BY CreateCoherent DEF Create
<1>2. Pump(h, queue, running[h], table) /\ jobs' = kept /\ active' = entries
  BY DEF Create, Register
<1>3. pending \in [Host -> Seq(Nat)]
  BY DEF IInv, Coherent
<1> HIDE DEF id, table, queue, kept, entries
<1>4. Coherent(job', pending', kept, entries)
  BY <1>1, <1>2, <1>3, PumpCoherent
<1> QED BY <1>2, <1>4 DEF IInv

\* The callbacks of job j, up to its cleanup.
LEMMA ChainIInv ==
  ASSUME IInv, NEW j \in DOMAIN job, Complete(j) \/ Release(j) \/ Conclude(j)
  PROVE  IInv'
<1>1. /\ job \in Seq(ScanJob) /\ job[j] \in ScanJob
      /\ pending \in [Host -> Seq(Nat)]
      /\ Coherent(job, pending, jobs, active)
      /\ job[j].state = "queued" <=> job[j].stage = "queued"
      /\ job[j].state = "running" <=> job[j].stage \in {"executing", "completed", "released"}
  BY LenProperties, ElementOfSeq DEF IInv, Coherent, StateFollowsStage
<1>2. CASE Complete(j)
  <2>1. PICK ok \in BOOLEAN : job' = [job EXCEPT ![j].stage = "completed", ![j].ok = ok]
    BY <1>2 DEF Complete
  <2> DEFINE r == [job[j] EXCEPT !.stage = "completed", !.ok = ok]
  <2>2. /\ r \in ScanJob /\ r.host = job[j].host /\ r.volume = job[j].volume
        /\ r.stage = "completed" /\ r.state = "running" /\ job[j].stage = "executing"
        /\ job' = [job EXCEPT ![j] = r]
    BY <1>1, <1>2, <2>1 DEF Complete, ScanJob, Stage, JobState
  <2> HIDE DEF r
  <2>3. Coherent([job EXCEPT ![j] = r], pending, jobs, active)
    BY <1>1, <2>2, AdvanceCoherent
  <2> QED BY <1>2, <2>2, <2>3 DEF Complete, IInv
<1>3. CASE Release(j)
  <2> DEFINE r == [job[j] EXCEPT !.stage = "released"]
             h == job[j].host
             table == [job EXCEPT ![j] = r]
  <2>1. /\ r \in ScanJob /\ r.host = job[j].host /\ r.volume = job[j].volume
        /\ r.stage = "released" /\ r.state = "running" /\ job[j].stage = "completed"
        /\ table = [job EXCEPT ![j].stage = "released"]
        /\ h \in Host
    BY <1>1, <1>3 DEF Release, ScanJob, Stage, JobState
  <2>2. Pump(h, pending[h], running[h] - 1, table) /\ UNCHANGED <<jobs, active>>
    BY <1>3, <2>1 DEF Release
  <2>3. [pending EXCEPT ![h] = pending[h]] = pending
    BY <1>1, <2>1
  <2> HIDE DEF r, h
  <2>4. Coherent(table, pending, jobs, active)
    BY <1>1, <2>1, AdvanceCoherent
  <2> HIDE DEF table
  <2>5. Coherent(job', pending', jobs, active)
    BY <1>1, <2>1, <2>2, <2>3, <2>4, PumpCoherent
  <2> QED BY <2>2, <2>5 DEF IInv
<1>4. CASE Conclude(j)
  <2> DEFINE r == [job[j] EXCEPT !.stage = "concluded",
                                 !.state = IF job[j].ok THEN "succeeded" ELSE "failed"]
  <2>1. /\ r \in ScanJob /\ r.host = job[j].host /\ r.volume = job[j].volume
        /\ r.stage = "concluded" /\ r.state \in {"succeeded", "failed"}
        /\ job[j].stage = "released"
        /\ job' = [job EXCEPT ![j] = r]
    BY <1>1, <1>4 DEF Conclude, ScanJob, Stage, JobState
  <2> HIDE DEF r
  <2>2. Coherent([job EXCEPT ![j] = r], pending, jobs, active)
    BY <1>1, <2>1, AdvanceCoherent
  <2> QED BY <1>4, <2>1, <2>2 DEF Conclude, IInv
<1> QED BY <1>2, <1>3, <1>4

\* Cleanup drops j's entry and evicts settled jobs: no live job loses either.
LEMMA CleanupIInv ==
  ASSUME IInv, NEW j \in DOMAIN job, Cleanup(j)
  PROVE  IInv'
<1> DEFINE r == [job[j] EXCEPT !.stage = "cleaned"]
<1>1. /\ job \in Seq(ScanJob) /\ \A i \in DOMAIN job : job[i] \in ScanJob
      /\ Coherent(job, pending, jobs, active)
      /\ job[j].state = "queued" <=> job[j].stage = "queued"
      /\ job[j].state = "running" <=> job[j].stage \in {"executing", "completed", "released"}
      /\ job[j].stage = "concluded"
  BY LenProperties, ElementOfSeq DEF IInv, Coherent, StateFollowsStage, Cleanup
<1>2. /\ r \in ScanJob /\ r.host = job[j].host /\ r.volume = job[j].volume
      /\ r.stage = "cleaned" /\ r.state = job[j].state /\ r.state \in {"succeeded", "failed"}
      /\ job' = [job EXCEPT ![j] = r]
  BY <1>1 DEF Cleanup, ScanJob, Stage, JobState
<1> HIDE DEF r
<1>3. Coherent(job', pending, jobs, active)
  BY <1>1, <1>2, AdvanceCoherent
<1>4. /\ DOMAIN job' = DOMAIN job /\ job'[j] = r
      /\ \A i \in DOMAIN job : i # j => job'[i] = job[i]
  BY <1>1, <1>2, ReplaceJob
<1>5. active' \in [Host \X Volume -> Nat]
      /\ \A key \in Host \X Volume : active[key] # j => active'[key] = active[key]
  BY <1>1 DEF Coherent, Cleanup, WithoutEntryOf, NoJob
<1>6. Findable(job', jobs', active')
  <2> SUFFICES ASSUME NEW i \in DOMAIN job, Unsettled(job', i)
               PROVE  i \in jobs' /\ active'[<<job'[i].host, job'[i].volume>>] = i
    BY <1>4 DEF Findable
  <2>1. i # j /\ job'[i] = job[i] /\ Unsettled(job, i)
    BY <1>2, <1>4 DEF Unsettled
  <2>2. i \in jobs /\ active[<<job[i].host, job[i].volume>>] = i
    BY <1>1, <2>1 DEF Coherent, Findable
  <2>3. <<job[i].host, job[i].volume>> \in Host \X Volume
    BY <1>1 DEF ScanJob
  <2>4. i \in jobs'
    BY <2>1, <2>2 DEF Cleanup, Evicted, Live, IsSettled, Unsettled
  <2> QED BY <1>5, <2>1, <2>2, <2>3, <2>4
<1> QED BY <1>3, <1>5, <1>6 DEF Coherent, IInv, Cleanup

LEMMA NextIInv == IInv /\ [Next]_vars => IInv'
<1> SUFFICES ASSUME IInv, [Next]_vars PROVE IInv'
  OBVIOUS
<1>1. ASSUME NEW h \in Host, NEW v \in Volume, Join(h, v) PROVE IInv'
  BY <1>1 DEF IInv, Join
<1>2. ASSUME NEW h \in Host, NEW v \in Volume, RefuseSaturated(h, v) PROVE IInv'
  BY <1>2 DEF IInv, RefuseSaturated, vars
<1>3. ASSUME NEW h \in Host, NEW v \in Volume, Create(h, v) PROVE IInv'
  BY <1>3, CreateIInv
<1>4. ASSUME NEW j \in DOMAIN job, Complete(j) \/ Release(j) \/ Conclude(j) PROVE IInv'
  BY <1>4, ChainIInv
<1>5. ASSUME NEW j \in DOMAIN job, Cleanup(j) PROVE IInv'
  BY <1>5, CleanupIInv
<1>6. CASE UNCHANGED vars
  BY <1>6 DEF IInv, vars
<1> QED BY <1>1, <1>2, <1>3, <1>4, <1>5, <1>6 DEF Next, Enqueue

LEMMA InitIInv == Init => IInv
<1> SUFFICES ASSUME Init PROVE IInv
  OBVIOUS
<1>1. job = <<>> /\ job \in Seq(ScanJob) /\ DOMAIN job = {}
  BY EmptySeq DEF Init
<1>2. \A h \in Host : pending[h] = <<>> /\ DOMAIN pending[h] = {}
  BY DEF Init
<1>3. pending \in [Host -> Seq(Nat)] /\ active \in [Host \X Volume -> Nat]
  BY EmptySeq DEF Init, NoJob
<1> QED
  BY <1>1, <1>2, <1>3
  DEF IInv, Coherent, StateFollowsStage, BacklogIsQueued, Findable

(* The inductive invariant holds throughout. *)
THEOREM Invariance == Safety => []IInv
BY InitIInv, NextIInv, PTL DEF Safety

-----------------------------------------------------------------------------
(* A job that has not finished is in the jobs Map and is the active scan   *)
(* of its volume, so enqueue() joins it and run() can await it.            *)
THEOREM LiveJobsAreFindable == Safety => []LiveJobIsFindable
<1>1. IInv => LiveJobIsFindable
  BY DEF IInv, Coherent, Findable, Unsettled, LiveJobIsFindable, Live, IsSettled
<1> QED BY <1>1, Invariance, PTL

(* No volume of a host is measured twice at the same time: two live jobs   *)
(* of one volume would both be its one active entry.                       *)
THEOREM AtMostOneLiveJob == Safety => []OneLiveJobPerVolume
<1>1. LiveJobIsFindable => OneLiveJobPerVolume
  BY DEF LiveJobIsFindable, OneLiveJobPerVolume
<1> QED BY <1>1, LiveJobsAreFindable, PTL

(* An accepted job is never failed without having been started.            *)
THEOREM AcceptedJobsRun == Safety => AcceptedJobRuns
<1>1. ASSUME IInv, [Next]_vars, NEW j \in DOMAIN job, job[j].state = "queued"
      PROVE  job'[j].state \in {"queued", "running"}
  <2>1. /\ job \in Seq(ScanJob) /\ Len(job) \in Nat /\ DOMAIN job = 1 .. Len(job)
        /\ \A i \in DOMAIN job : job[i] \in ScanJob
        /\ \A i \in DOMAIN job : job[i].state = "queued" <=> job[i].stage = "queued"
    BY <1>1, LenProperties, ElementOfSeq DEF IInv, Coherent, StateFollowsStage
  <2>2. ASSUME NEW h, NEW queue, NEW busy, NEW table, Pump(h, queue, busy, table),
               table[j].state = "queued", j \in DOMAIN table,
               \A i \in DOMAIN table : table[i] \in ScanJob
        PROVE  job'[j].state \in {"queued", "running"}
    BY <2>2 DEF Pump, Idle, StartHead, ScanJob
  <2>3. ASSUME NEW h \in Host, NEW v \in Volume, Create(h, v)
        PROVE  job'[j].state \in {"queued", "running"}
    <3> DEFINE table == Append(job, NewJob(h, v))
    <3>1. NewJob(h, v) \in ScanJob
      BY DEF NewJob, ScanJob, JobState, Stage
    <3>2. /\ table \in Seq(ScanJob) /\ Len(table) = Len(job) + 1 /\ table[j] = job[j]
      BY <2>1, <3>1, AppendProperties
    <3>3. j \in DOMAIN table /\ \A i \in DOMAIN table : table[i] \in ScanJob
      BY <2>1, <3>2, LenProperties, ElementOfSeq
    <3>4. \E queue, busy : Pump(h, queue, busy, table)
      BY <2>3 DEF Create
    <3> HIDE DEF table
    <3> QED BY <1>1, <2>2, <3>2, <3>3, <3>4
  <2>4. ASSUME NEW i \in DOMAIN job, Release(i)
        PROVE  job'[j].state \in {"queued", "running"}
    <3> DEFINE table == [job EXCEPT ![i].stage = "released"]
    <3>1. /\ table[j].state = "queued" /\ j \in DOMAIN table
          /\ \A k \in DOMAIN table : table[k] \in ScanJob
      BY <1>1, <2>1 DEF ScanJob, Stage
    <3>2. \E h, queue, busy : Pump(h, queue, busy, table)
      BY <2>4 DEF Release
    <3> HIDE DEF table
    <3> QED BY <2>2, <3>1, <3>2
  <2>5. ASSUME NEW i \in DOMAIN job, Complete(i) \/ Conclude(i) \/ Cleanup(i)
        PROVE  job'[j].state \in {"queued", "running"}
    <3>1. i # j
      BY <1>1, <2>1, <2>5 DEF Complete, Conclude, Cleanup
    <3> QED BY <1>1, <2>1, <2>5, <3>1 DEF Complete, Conclude, Cleanup
  <2>6. CASE UNCHANGED job
    BY <1>1, <2>6
  <2> QED BY <1>1, <2>3, <2>4, <2>5, <2>6 DEF Next, Enqueue, Join, RefuseSaturated, vars
<1>2. IInv /\ [Next]_vars =>
        [\A j \in DOMAIN job : job[j].state = "queued" => job'[j].state \in {"queued", "running"}]_vars
  BY <1>1
<1> QED BY <1>2, Invariance, PTL DEF Safety, AcceptedJobRuns
-----------------------------------------------------------------------------
(***************************************************************************)
(* The registry around the jobs.  A slot count is only right if every      *)
(* pump() starts from the count its caller corrected first, so the count   *)
(* is stated of a job table and a slot table, like the parts above.  The   *)
(* active entries need to name jobs of their own volume: the cleanup of a  *)
(* job looks at the entry of that job's volume and at no other, and would  *)
(* leave a stale one behind if it were filed under another key.            *)
(***************************************************************************)
SlotHolders(table, h) ==
    {j \in DOMAIN table : table[j].host = h /\ table[j].stage \in {"executing", "completed"}}

Slots(table, busy) ==
    /\ busy \in [Host -> 0 .. Concurrency]
    /\ \A h \in Host : busy[h] = Cardinality(SlotHolders(table, h))

EntriesMatch(table, entries) ==
    \A h \in Host, v \in Volume :
        entries[<<h, v>>] # NoJob =>
            /\ entries[<<h, v>>] \in DOMAIN table
            /\ table[entries[<<h, v>>]].host = h
            /\ table[entries[<<h, v>>]].volume = v
            /\ table[entries[<<h, v>>]].stage # "cleaned"

AskersMatch(table, waiting) ==
    /\ waiting \subseteq Host \X Volume \X DOMAIN table
    /\ \A a \in waiting : table[a[3]].host = a[1] /\ table[a[3]].volume = a[2]

Cleaned(table, kept) == {j \in kept : table[j].stage = "cleaned"}

Retained(table, kept) ==
    /\ kept \subseteq DOMAIN table
    /\ Cardinality(Cleaned(table, kept)) <= RetainedJobLimit

RegistryIInv ==
    /\ IInv
    /\ Slots(job, running)
    /\ EntriesMatch(job, active)
    /\ AskersMatch(job, asked)
    /\ Retained(job, jobs)

\* What every step but a cleanup keeps of the jobs it finds.
Carried(old, new) ==
    /\ DOMAIN old \subseteq DOMAIN new
    /\ \A j \in DOMAIN old :
          /\ new[j].host = old[j].host /\ new[j].volume = old[j].volume
          /\ new[j].stage = "cleaned" <=> old[j].stage = "cleaned"

LEMMA CarriedKeeps ==
  ASSUME NEW old, NEW new, Carried(old, new)
  PROVE  /\ \A entries : EntriesMatch(old, entries) => EntriesMatch(new, entries)
         /\ \A waiting : AskersMatch(old, waiting) => AskersMatch(new, waiting)
         /\ \A kept : Retained(old, kept) => Retained(new, kept) /\ Cleaned(new, kept) = Cleaned(old, kept)
<1>1. ASSUME NEW entries, EntriesMatch(old, entries) PROVE EntriesMatch(new, entries)
  BY <1>1 DEF Carried, EntriesMatch
<1>2. ASSUME NEW waiting, AskersMatch(old, waiting) PROVE AskersMatch(new, waiting)
  <2>1. ASSUME NEW a \in waiting
        PROVE  a \in Host \X Volume \X DOMAIN new /\ new[a[3]].host = a[1] /\ new[a[3]].volume = a[2]
    <3>1. a \in Host \X Volume \X DOMAIN old /\ old[a[3]].host = a[1] /\ old[a[3]].volume = a[2]
      BY <1>2 DEF AskersMatch
    <3> QED BY <3>1 DEF Carried
  <2> QED BY <2>1 DEF AskersMatch
<1>3. ASSUME NEW kept, Retained(old, kept)
      PROVE  Retained(new, kept) /\ Cleaned(new, kept) = Cleaned(old, kept)
  <2>1. Cleaned(new, kept) = Cleaned(old, kept)
    BY <1>3 DEF Carried, Retained, Cleaned
  <2> QED BY <1>3, <2>1 DEF Carried, Retained
<1> QED BY <1>1, <1>2, <1>3

\* The holders of a host's slots are finitely many.
LEMMA HoldersFinite ==
  ASSUME NEW table \in Seq(ScanJob), NEW h
  PROVE  IsFiniteSet(SlotHolders(table, h)) /\ Cardinality(SlotHolders(table, h)) \in Nat
<1>1. Len(table) \in Nat /\ DOMAIN table = 1 .. Len(table)
  BY LenProperties
<1>2. IsFiniteSet(DOMAIN table)
  BY <1>1, FS_Interval
<1>3. SlotHolders(table, h) \in SUBSET DOMAIN table
  BY DEF SlotHolders
<1> QED BY <1>2, <1>3, FS_Subset, FS_CardinalityType

\* A pump() that is given the right count leaves the right count.
LEMMA PumpSlots ==
  ASSUME NEW table, NEW kept, NEW entries, NEW h \in Host, NEW queue, NEW busy,
         Coherent(table, [pending EXCEPT ![h] = queue], kept, entries),
         pending \in [Host -> Seq(Nat)], running \in [Host -> 0 .. Concurrency],
         Slots(table, [running EXCEPT ![h] = busy]),
         Pump(h, queue, busy, table)
  PROVE  /\ Slots(job', running')
         /\ Carried(table, job') /\ DOMAIN job' = DOMAIN table
<1> DEFINE backlog == [pending EXCEPT ![h] = queue]
           slots == [running EXCEPT ![h] = busy]
<1>1. CASE Idle(h, queue, busy, table)
  <2>1. job' = table /\ running' = slots
    BY <1>1 DEF Idle
  <2>2. Carried(table, table)
    BY DEF Carried
  <2>3. Slots(job', running')
    BY <2>1 DEF Slots
  <2> QED BY <2>1, <2>2, <2>3
<1>2. CASE StartHead(h, queue, busy, table)
  <2>1. backlog[h] = queue /\ slots[h] = busy
    OBVIOUS
  <2>2. queue \in Seq(Nat) /\ queue # <<>>
    BY <1>2, <2>1 DEF StartHead, Coherent
  <2> DEFINE j == Head(queue)
  <2>3. j = queue[1] /\ 1 \in DOMAIN queue
    BY <2>2, EmptySeq, LenProperties, HeadTailProperties
  <2>4. j \in DOMAIN table /\ table[j].stage = "queued" /\ table[j].host = h
    BY <2>1, <2>3 DEF Coherent, BacklogIsQueued
  <2>5. table \in Seq(ScanJob) /\ table[j] \in ScanJob
    BY <2>4, LenProperties, ElementOfSeq DEF Coherent
  <2>6. job' = [table EXCEPT ![j].state = "running", ![j].stage = "executing"]
        /\ running' = [running EXCEPT ![h] = busy + 1]
        /\ busy < Concurrency
    BY <1>2 DEF StartHead
  <2>7. /\ DOMAIN job' = DOMAIN table
        /\ \A i \in DOMAIN table : i # j => job'[i] = table[i]
        /\ job'[j].stage = "executing" /\ job'[j].host = h /\ job'[j].volume = table[j].volume
    <3> HIDE DEF j
    <3> QED BY <2>4, <2>5, <2>6 DEF ScanJob
  <2> HIDE DEF j
  <2>8. Carried(table, job')
    BY <2>4, <2>7 DEF Carried
  <2>9. ASSUME NEW g \in Host, g # h
        PROVE  running'[g] = Cardinality(SlotHolders(job', g)) /\ running'[g] \in 0 .. Concurrency
    <3>1. SlotHolders(job', g) = SlotHolders(table, g)
      BY <2>4, <2>7, <2>9 DEF SlotHolders
    <3>2. slots[g] = running[g] /\ running'[g] = running[g] /\ running[g] \in 0 .. Concurrency
      BY <2>6, <2>9
    <3>3. slots[g] = Cardinality(SlotHolders(table, g))
      BY DEF Slots
    <3> QED BY <3>1, <3>2, <3>3
  <2>10. running'[h] = Cardinality(SlotHolders(job', h)) /\ running'[h] \in 0 .. Concurrency
    <3>1. SlotHolders(job', h) = SlotHolders(table, h) \cup {j} /\ j \notin SlotHolders(table, h)
      BY <2>4, <2>7 DEF SlotHolders
    <3>2. Cardinality(SlotHolders(job', h)) = Cardinality(SlotHolders(table, h)) + 1
      BY <2>5, <3>1, HoldersFinite, FS_AddElement
    <3>3. busy = Cardinality(SlotHolders(table, h)) /\ busy \in 0 .. Concurrency
      <4> HIDE DEF slots
      <4> QED BY <2>1 DEF Slots, slots
    <3>4. running'[h] = busy + 1
      BY <2>6
    <3> QED BY <2>6, <3>2, <3>3, <3>4, ScanQueueOptions
  <2>11. running' \in [Host -> 0 .. Concurrency]
    <3>1. running' = [g \in Host |-> running'[g]]
      BY <2>6
    <3>2. \A g \in Host : running'[g] \in 0 .. Concurrency
      BY <2>9, <2>10
    <3> QED BY <3>1, <3>2
  <2> QED BY <2>7, <2>8, <2>9, <2>10, <2>11 DEF Slots
<1> QED BY <1>1, <1>2 DEF Pump

\* A new job holds no slot until it is started, and it is filed and asked for
\* under its own volume.
LEMMA CreateRegistry ==
  ASSUME RegistryIInv, NEW h \in Host, NEW v \in Volume, Create(h, v)
  PROVE  RegistryIInv'
<1> DEFINE id == Len(job) + 1
           table == Append(job, NewJob(h, v))
           queue == Append(pending[h], id)
<1>1. IInv'
  BY CreateIInv DEF RegistryIInv
<1>2. /\ job \in Seq(ScanJob) /\ Len(job) \in Nat /\ DOMAIN job = 1 .. Len(job)
      /\ pending \in [Host -> Seq(Nat)] /\ active \in [Host \X Volume -> Nat]
      /\ running \in [Host -> 0 .. Concurrency]
  BY LenProperties DEF RegistryIInv, IInv, Coherent, Slots
<1>3. /\ DOMAIN table = DOMAIN job \cup {id} /\ id \notin DOMAIN job /\ id # NoJob
      /\ \A j \in DOMAIN job : table[j] = job[j]
      /\ table[id] = NewJob(h, v)
  <2>1. NewJob(h, v) \in ScanJob
    BY DEF NewJob, ScanJob, JobState, Stage
  <2> HIDE DEF table
  <2>2. /\ table \in Seq(ScanJob) /\ Len(table) = Len(job) + 1
        /\ \A j \in 1 .. Len(job) : table[j] = job[j]
        /\ table[Len(job) + 1] = NewJob(h, v)
    BY <1>2, <2>1, AppendProperties DEF table
  <2> QED BY <1>2, <2>2, LenProperties DEF NoJob
<1>4. NewJob(h, v).stage = "queued" /\ NewJob(h, v).host = h /\ NewJob(h, v).volume = v
  BY DEF NewJob
<1>5. /\ Pump(h, queue, running[h], table)
      /\ jobs' = jobs \cup {id}
      /\ active' = [active EXCEPT ![<<h, v>>] = id]
      /\ asked' = asked \cup {<<h, v, id>>}
  BY DEF Create, Register
<1> HIDE DEF id, table, queue
<1>6. Carried(job, table)
  BY <1>3 DEF Carried
<1>7. Slots(table, [running EXCEPT ![h] = running[h]])
  <2>1. \A g \in Host : SlotHolders(table, g) = SlotHolders(job, g)
    BY <1>3, <1>4 DEF SlotHolders
  <2>2. [running EXCEPT ![h] = running[h]] = running
    BY <1>2
  <2> QED BY <2>1, <2>2 DEF Slots, RegistryIInv
<1>8. Coherent(table, [pending EXCEPT ![h] = queue], jobs \cup {id}, [active EXCEPT ![<<h, v>>] = id])
  BY CreateCoherent DEF RegistryIInv, Create, id, table, queue
<1>9. Slots(job', running') /\ Carried(table, job') /\ DOMAIN job' = DOMAIN table
  BY <1>2, <1>5, <1>7, <1>8, PumpSlots
<1>10. Retained(table, jobs')
  <2>1. Retained(table, jobs) /\ Cleaned(table, jobs) = Cleaned(job, jobs)
    BY <1>6, CarriedKeeps DEF RegistryIInv
  <2>2. Cleaned(table, jobs') = Cleaned(table, jobs)
    BY <1>3, <1>4, <1>5 DEF Cleaned
  <2> QED BY <1>3, <1>5, <2>1, <2>2 DEF Retained
<1>11. EntriesMatch(table, active')
  <2>1. EntriesMatch(table, active)
    BY <1>6, CarriedKeeps DEF RegistryIInv
  <2>2. /\ active'[<<h, v>>] = id
        /\ \A g \in Host, w \in Volume : <<g, w>> # <<h, v>> => active'[<<g, w>>] = active[<<g, w>>]
    BY <1>2, <1>5
  <2> QED BY <1>3, <1>4, <2>1, <2>2 DEF EntriesMatch
<1>12. AskersMatch(table, asked')
  <2>1. AskersMatch(table, asked)
    BY <1>6, CarriedKeeps DEF RegistryIInv
  <2> QED BY <1>3, <1>4, <1>5, <2>1 DEF AskersMatch
<1>13. Retained(job', jobs') /\ EntriesMatch(job', active') /\ AskersMatch(job', asked')
  BY <1>9, <1>10, <1>11, <1>12, CarriedKeeps
<1> QED BY <1>1, <1>9, <1>13 DEF RegistryIInv

\* A release takes j from the holders of its host's slots and then pumps.
LEMMA ReleaseRegistry ==
  ASSUME RegistryIInv, NEW j \in DOMAIN job, Release(j)
  PROVE  RegistryIInv'
<1> DEFINE r == [job[j] EXCEPT !.stage = "released"]
           h == job[j].host
           table == [job EXCEPT ![j] = r]
           busy == running[h] - 1
<1>1. IInv'
  BY ChainIInv DEF RegistryIInv
<1>2. /\ job \in Seq(ScanJob) /\ job[j] \in ScanJob
      /\ Coherent(job, pending, jobs, active)
      /\ pending \in [Host -> Seq(Nat)] /\ running \in [Host -> 0 .. Concurrency]
      /\ job[j].state = "running" <=> job[j].stage \in {"executing", "completed", "released"}
  BY LenProperties, ElementOfSeq DEF RegistryIInv, IInv, Coherent, Slots, StateFollowsStage
<1>3. /\ r \in ScanJob /\ r.host = job[j].host /\ r.volume = job[j].volume
      /\ r.stage = "released" /\ r.state = "running" /\ job[j].stage = "completed"
      /\ table = [job EXCEPT ![j].stage = "released"]
      /\ h \in Host
  BY <1>2 DEF Release, ScanJob, Stage, JobState
<1>4. Pump(h, pending[h], busy, table) /\ UNCHANGED <<jobs, active, asked>>
  BY <1>3 DEF Release
<1>5. [pending EXCEPT ![h] = pending[h]] = pending
  BY <1>2, <1>3
<1> HIDE DEF r
<1>6. Coherent(table, [pending EXCEPT ![h] = pending[h]], jobs, active)
  <2> HIDE DEF h
  <2> QED BY <1>2, <1>3, <1>5, AdvanceCoherent
<1>7. /\ DOMAIN table = DOMAIN job /\ table[j] = r
      /\ \A i \in DOMAIN job : i # j => table[i] = job[i]
  BY <1>2, <1>3, ReplaceJob
<1>8. h = job[j].host
  OBVIOUS
<1> HIDE DEF table, h
<1>9. Carried(job, table)
  BY <1>3, <1>7, <1>8 DEF Carried
<1>10. Slots(table, [running EXCEPT ![h] = busy])
  <2>1. /\ SlotHolders(table, h) = SlotHolders(job, h) \ {j}
        /\ j \in SlotHolders(job, h)
    BY <1>3, <1>7, <1>8 DEF SlotHolders
  <2>2. /\ IsFiniteSet(SlotHolders(job, h)) /\ Cardinality(SlotHolders(job, h)) \in Nat
        /\ Cardinality(SlotHolders(table, h)) \in Nat
    <3>1. table \in Seq(ScanJob)
      BY <1>6 DEF Coherent
    <3> QED BY <1>2, <3>1, HoldersFinite
  <2>3. Cardinality(SlotHolders(table, h)) = Cardinality(SlotHolders(job, h)) - 1
    BY <2>1, <2>2, FS_RemoveElement
  <2>4. running[h] = Cardinality(SlotHolders(job, h)) /\ running[h] \in 0 .. Concurrency
    BY <1>2, <1>3 DEF RegistryIInv, Slots
  <2>5. busy = Cardinality(SlotHolders(table, h)) /\ busy \in 0 .. Concurrency
    BY <2>2, <2>3, <2>4, ScanQueueOptions
  <2>6. \A g \in Host : g # h => SlotHolders(table, g) = SlotHolders(job, g)
    BY <1>3, <1>7, <1>8 DEF SlotHolders
  <2>7. \A g \in Host : running[g] = Cardinality(SlotHolders(job, g))
    BY DEF RegistryIInv, Slots
  <2> HIDE DEF busy
  <2> QED BY <1>2, <1>3, <2>5, <2>6, <2>7 DEF Slots
<1>11. Slots(job', running') /\ Carried(table, job') /\ DOMAIN job' = DOMAIN table
  BY <1>2, <1>3, <1>4, <1>6, <1>10, PumpSlots
<1>12. Retained(table, jobs) /\ EntriesMatch(table, active) /\ AskersMatch(table, asked)
  BY <1>9, CarriedKeeps DEF RegistryIInv
<1>13. Retained(job', jobs) /\ EntriesMatch(job', active) /\ AskersMatch(job', asked)
  BY <1>11, <1>12, CarriedKeeps
<1> QED BY <1>1, <1>4, <1>11, <1>13 DEF RegistryIInv

\* The end of the scan and the settling of the job touch no slot.
LEMMA AdvanceRegistry ==
  ASSUME RegistryIInv, NEW j \in DOMAIN job, Complete(j) \/ Conclude(j)
  PROVE  RegistryIInv'
<1>1. IInv'
  BY ChainIInv DEF RegistryIInv
<1>2. /\ job \in Seq(ScanJob) /\ job[j] \in ScanJob
  BY LenProperties, ElementOfSeq DEF RegistryIInv, IInv, Coherent
<1>3. /\ DOMAIN job' = DOMAIN job
      /\ \A i \in DOMAIN job : i # j => job'[i] = job[i]
      /\ job'[j].host = job[j].host /\ job'[j].volume = job[j].volume
      /\ \/ job[j].stage = "executing" /\ job'[j].stage = "completed"
         \/ job[j].stage = "released" /\ job'[j].stage = "concluded"
      /\ UNCHANGED <<running, jobs, active, asked>>
  <2>1. CASE Complete(j)
    <3>1. PICK ok \in BOOLEAN : job' = [job EXCEPT ![j].stage = "completed", ![j].ok = ok]
      BY <2>1 DEF Complete
    <3> QED BY <1>2, <2>1, <3>1 DEF Complete, ScanJob
  <2>2. CASE Conclude(j)
    BY <1>2, <2>2 DEF Conclude, ScanJob
  <2> QED BY <2>1, <2>2
<1>4. Carried(job, job')
  BY <1>3 DEF Carried
<1>5. \A g \in Host : SlotHolders(job', g) = SlotHolders(job, g)
  BY <1>3 DEF SlotHolders
<1>6. Slots(job', running')
  BY <1>3, <1>5 DEF RegistryIInv, Slots
<1>7. Retained(job', jobs) /\ EntriesMatch(job', active) /\ AskersMatch(job', asked)
  BY <1>4, CarriedKeeps DEF RegistryIInv
<1> QED BY <1>1, <1>3, <1>6, <1>7 DEF RegistryIInv

LEMMA LeastElement ==
  ASSUME NEW S \in SUBSET Nat, S # {}
  PROVE  \E m \in S : \A i \in S : m <= i
<1>1. PICK R : (\A x, y \in Nat : <<y, x>> \in R <=> y < x) /\ IsWellFoundedOn(R, Nat)
  <2>1. \A x, y \in Nat : <<y, x>> \in OpToRel(<, Nat) <=> y < x
    BY DEF OpToRel
  <2> QED BY <2>1, NatLessThanWellFounded
<1>2. PICK m \in S : \A i \in S : ~ (<<i, m>> \in R)
  BY <1>1, WFMin
<1>3. ASSUME NEW i \in S PROVE m <= i
  <2>1. i \in Nat /\ m \in Nat
    OBVIOUS
  <2>2. ~ (i < m)
    BY <1>1, <1>2, <2>1
  <2> QED BY <2>1, <2>2
<1> QED BY <1>3

\* What an eviction leaves of the settled jobs is within the limit: the oldest
\* of them was left because the settled jobs before it were enough to delete.
LEMMA EvictionBounds ==
  ASSUME jobs \subseteq Nat, IsFiniteSet(jobs),
         NEW left, left = {j \in jobs : ~ Live(j)} \ Evicted
  PROVE  IsFiniteSet(left) /\ Cardinality(left) <= RetainedJobLimit
<1> DEFINE before(m) == {i \in jobs : i < m /\ ~ Live(i)}
<1>1. IsFiniteSet(left) /\ Cardinality(left) \in Nat
  <2>1. left \in SUBSET jobs
    OBVIOUS
  <2> HIDE DEF before
  <2> QED BY <2>1, FS_Subset, FS_CardinalityType
<1>2. CASE left = {}
  <2>1. Cardinality(left) = 0
    BY <1>2, FS_EmptySet
  <2> QED BY <1>1, <2>1, ScanQueueOptions
<1>3. CASE left # {}
  <2>1. PICK m \in left : \A i \in left : m <= i
    <3>1. left \in SUBSET Nat
      OBVIOUS
    <3> QED BY <1>3, <3>1, LeastElement
  <2>2. m \in jobs /\ ~ Live(m) /\ m \notin Evicted /\ m \in Nat
    BY <2>1
  <2>3. ~ (Cardinality(jobs) - Cardinality(before(m)) > RetainedJobLimit)
    BY <2>2 DEF Evicted
  <2>4. left \cap before(m) = {}
    <3>1. ASSUME NEW i \in left, i \in before(m) PROVE FALSE
      <4>1. i \in Nat /\ i < m
        BY <3>1
      <4>2. m <= i
        BY <2>1, <3>1
      <4> QED BY <2>2, <4>1, <4>2
    <3> HIDE DEF before
    <3> QED BY <3>1
  <2>5. left \in SUBSET jobs /\ before(m) \in SUBSET jobs
    OBVIOUS
  <2> DEFINE earlier == before(m)
  <2> HIDE DEF earlier
  <2>6. IsFiniteSet(earlier) /\ Cardinality(earlier) \in Nat
    BY <2>5, FS_Subset, FS_CardinalityType DEF earlier
  <2>7. Cardinality(left \cup earlier) = Cardinality(left) + Cardinality(earlier)
    <3>1. left \cap earlier = {}
      BY <2>4 DEF earlier
    <3>2. Cardinality(left \cup earlier)
             = Cardinality(left) + Cardinality(earlier) - Cardinality(left \cap earlier)
      BY <1>1, <2>6, FS_Union
    <3>3. Cardinality(left \cap earlier) = 0
      BY <3>1, FS_EmptySet
    <3> QED BY <1>1, <2>6, <3>2, <3>3
  <2>8. Cardinality(left \cup earlier) <= Cardinality(jobs) /\ Cardinality(jobs) \in Nat
    <3>1. left \cup earlier \in SUBSET jobs
      BY <2>5 DEF earlier
    <3> QED BY <3>1, FS_Subset, FS_CardinalityType
  <2>9. ~ (Cardinality(jobs) - Cardinality(earlier) > RetainedJobLimit)
    BY <2>3 DEF earlier
  <2>10. Cardinality(left) <= RetainedJobLimit
    BY <1>1, <2>6, <2>7, <2>8, <2>9, ScanQueueOptions
  <2> QED BY <1>1, <2>10
<1> QED BY <1>1, <1>2, <1>3

\* The cleanup of j drops the one entry that may name j, and evicts.
LEMMA CleanupRegistry ==
  ASSUME RegistryIInv, NEW j \in DOMAIN job, Cleanup(j)
  PROVE  RegistryIInv'
<1>1. IInv'
  BY CleanupIInv DEF RegistryIInv
<1>2. /\ job \in Seq(ScanJob) /\ Len(job) \in Nat /\ DOMAIN job = 1 .. Len(job)
      /\ \A i \in DOMAIN job : job[i] \in ScanJob
      /\ StateFollowsStage(job) /\ active \in [Host \X Volume -> Nat]
      /\ jobs \subseteq DOMAIN job
  BY LenProperties, ElementOfSeq DEF RegistryIInv, IInv, Coherent, Retained
<1>3. /\ DOMAIN job' = DOMAIN job
      /\ \A i \in DOMAIN job : i # j => job'[i] = job[i]
      /\ job'[j].host = job[j].host /\ job'[j].volume = job[j].volume
      /\ job[j].stage = "concluded" /\ job'[j].stage = "cleaned"
      /\ jobs' = jobs \ Evicted
      /\ asked' = {a \in asked : a[3] # j}
      /\ UNCHANGED running
  BY <1>2 DEF Cleanup, ScanJob
<1>4. Slots(job', running')
  <2>1. \A g \in Host : SlotHolders(job', g) = SlotHolders(job, g)
    BY <1>3 DEF SlotHolders
  <2> QED BY <1>3, <2>1 DEF RegistryIInv, Slots
<1>5. AskersMatch(job', asked')
  <2>1. asked' \subseteq Host \X Volume \X DOMAIN job'
    BY <1>3 DEF RegistryIInv, AskersMatch
  <2>2. ASSUME NEW a \in asked' PROVE job'[a[3]].host = a[1] /\ job'[a[3]].volume = a[2]
    <3>1. a \in asked /\ a[3] # j /\ a[3] \in DOMAIN job
      BY <1>3 DEF RegistryIInv, AskersMatch
    <3>2. job[a[3]].host = a[1] /\ job[a[3]].volume = a[2]
      BY <3>1 DEF RegistryIInv, AskersMatch
    <3> QED BY <1>3, <3>1, <3>2
  <2> QED BY <2>1, <2>2 DEF AskersMatch
<1>6. EntriesMatch(job', active')
  <2> SUFFICES ASSUME NEW h \in Host, NEW v \in Volume, active'[<<h, v>>] # NoJob
               PROVE  /\ active'[<<h, v>>] \in DOMAIN job'
                      /\ job'[active'[<<h, v>>]].host = h
                      /\ job'[active'[<<h, v>>]].volume = v
                      /\ job'[active'[<<h, v>>]].stage # "cleaned"
    BY DEF EntriesMatch
  <2> DEFINE own == <<job[j].host, job[j].volume>>
  <2>1. own \in Host \X Volume /\ <<h, v>> \in Host \X Volume
    BY <1>2 DEF ScanJob
  <2>2. active' = [active EXCEPT ![own] = IF active[own] = j THEN NoJob ELSE active[own]]
    BY DEF Cleanup, WithoutEntryOf
  <2>3. active'[<<h, v>>] = active[<<h, v>>] /\ ~ (<<h, v>> = own /\ active[own] = j)
    BY <1>2, <2>1, <2>2
  <2> DEFINE i == active[<<h, v>>]
  <2>4. i \in DOMAIN job /\ job[i].host = h /\ job[i].volume = v /\ job[i].stage # "cleaned"
    BY <2>3 DEF RegistryIInv, EntriesMatch
  <2>5. i # j
    BY <2>3, <2>4
  <2> QED BY <1>3, <2>3, <2>4, <2>5
<1>7. Retained(job', jobs')
  <2>1. jobs \subseteq Nat /\ IsFiniteSet(jobs)
    <3>1. DOMAIN job \subseteq Nat /\ IsFiniteSet(DOMAIN job)
      BY <1>2, FS_Interval
    <3> QED BY <1>2, <3>1, FS_Subset
  <2>0. PICK left : left = {i \in jobs : ~ Live(i)} \ Evicted
    OBVIOUS
  <2>2. IsFiniteSet(left) /\ Cardinality(left) <= RetainedJobLimit
    BY <2>0, <2>1, EvictionBounds
  <2>3. Cleaned(job', jobs') \subseteq left
    <3> SUFFICES ASSUME NEW i \in jobs, i \notin Evicted, job'[i].stage = "cleaned"
                 PROVE  ~ Live(i)
      BY <1>3, <2>0 DEF Cleaned
    <3>1. i \in DOMAIN job /\ job[i].stage \in {"concluded", "cleaned"}
      BY <1>2, <1>3
    <3>2. job[i].state \notin {"queued", "running"} /\ job[i].state \in JobState
      BY <1>2, <3>1 DEF StateFollowsStage, ScanJob
    <3> QED BY <3>2 DEF Live, IsSettled, JobState
  <2>4. Cardinality(Cleaned(job', jobs')) <= Cardinality(left)
        /\ Cardinality(Cleaned(job', jobs')) \in Nat /\ Cardinality(left) \in Nat
    BY <2>2, <2>3, FS_Subset, FS_CardinalityType
  <2>5. Cardinality(Cleaned(job', jobs')) <= RetainedJobLimit
    BY <2>2, <2>4, ScanQueueOptions
  <2> QED BY <1>2, <1>3, <2>5 DEF Retained
<1> QED BY <1>1, <1>4, <1>5, <1>6, <1>7 DEF RegistryIInv

LEMMA NextRegistry == RegistryIInv /\ [Next]_vars => RegistryIInv'
<1> SUFFICES ASSUME RegistryIInv, [Next]_vars PROVE RegistryIInv'
  OBVIOUS
<1>1. ASSUME NEW h \in Host, NEW v \in Volume, Join(h, v) PROVE RegistryIInv'
  <2> DEFINE j == active[<<h, v>>]
  <2>1. j \in jobs /\ jobs \subseteq DOMAIN job /\ asked' = asked \cup {<<h, v, j>>}
        /\ UNCHANGED <<job, pending, running, jobs, active>>
    BY <1>1 DEF Join, Joinable, RegistryIInv, Retained
  <2>2. j # NoJob
    <3>1. job \in Seq(ScanJob)
      BY DEF RegistryIInv, IInv, Coherent
    <3>2. Len(job) \in Nat /\ DOMAIN job = 1 .. Len(job)
      BY <3>1, LenProperties
    <3> QED BY <2>1, <3>2 DEF NoJob
  <2>3. job[j].host = h /\ job[j].volume = v
    BY <2>2 DEF RegistryIInv, EntriesMatch
  <2> HIDE DEF j
  <2>4. AskersMatch(job, asked \cup {<<h, v, j>>})
    <3>1. j \in DOMAIN job
      BY <2>1
    <3>2. AskersMatch(job, asked)
      BY DEF RegistryIInv
    <3> QED BY <2>3, <3>1, <3>2 DEF AskersMatch
  <2> QED BY <2>1, <2>4 DEF RegistryIInv, IInv
<1>2. CASE UNCHANGED vars
  BY <1>2 DEF RegistryIInv, IInv, vars
<1>3. ASSUME NEW h \in Host, NEW v \in Volume, RefuseSaturated(h, v) PROVE RegistryIInv'
  BY <1>2, <1>3 DEF RefuseSaturated
<1>4. ASSUME NEW h \in Host, NEW v \in Volume, Create(h, v) PROVE RegistryIInv'
  BY <1>4, CreateRegistry
<1>5. ASSUME NEW j \in DOMAIN job, Complete(j) \/ Release(j) \/ Conclude(j) \/ Cleanup(j)
      PROVE  RegistryIInv'
  BY <1>5, AdvanceRegistry, ReleaseRegistry, CleanupRegistry
<1> QED BY <1>1, <1>2, <1>3, <1>4, <1>5 DEF Next, Enqueue

LEMMA InitRegistry == Init => RegistryIInv
<1> SUFFICES ASSUME Init PROVE RegistryIInv
  OBVIOUS
<1>1. job = <<>> /\ DOMAIN job = {} /\ jobs = {} /\ asked = {}
  BY EmptySeq DEF Init
<1>2. Slots(job, running)
  <2>1. \A h \in Host : SlotHolders(job, h) = {}
    BY <1>1 DEF SlotHolders
  <2>2. running = [h \in Host |-> 0] /\ 0 \in 0 .. Concurrency
    BY ScanQueueOptions DEF Init
  <2> QED BY <2>1, <2>2, FS_EmptySet DEF Slots
<1>3. EntriesMatch(job, active)
  BY DEF Init, EntriesMatch
<1>4. AskersMatch(job, asked)
  BY <1>1 DEF AskersMatch
<1>5. Retained(job, jobs)
  <2>1. Cleaned(job, jobs) = {}
    BY <1>1 DEF Cleaned
  <2> QED BY <1>1, <2>1, FS_EmptySet, ScanQueueOptions DEF Retained
<1> QED BY <1>2, <1>3, <1>4, <1>5, InitIInv DEF RegistryIInv

(* The stronger invariant holds throughout. *)
THEOREM RegistryInvariance == Safety => []RegistryIInv
BY InitRegistry, NextRegistry, PTL DEF Safety

(* The registry agrees with the jobs and the queues in every state: an     *)
(* asker awaits a scan of its own volume on its own host, no active entry  *)
(* outlives the cleanup of its job, a host's slots are held by its own     *)
(* started jobs, and evictions keep the finished jobs within the limit.    *)
THEOREM RegistryAgrees == Safety => []QueueInv
<1>1. RegistryIInv => TypeOK
  <2> SUFFICES ASSUME RegistryIInv PROVE TypeOK
    OBVIOUS
  <2>1. job \in Seq(ScanJob) /\ jobs \subseteq DOMAIN job
        /\ running \in [Host -> 0 .. Concurrency]
        /\ asked \subseteq Host \X Volume \X DOMAIN job
    BY DEF RegistryIInv, IInv, Coherent, Retained, Slots, AskersMatch
  <2>2. pending \in [Host -> Seq(DOMAIN job)]
    <3>1. pending \in [Host -> Seq(Nat)]
      BY DEF RegistryIInv, IInv, Coherent
    <3>2. ASSUME NEW h \in Host PROVE pending[h] \in Seq(DOMAIN job)
      <4>1. /\ pending[h] \in Seq(Nat) /\ Len(pending[h]) \in Nat
            /\ DOMAIN pending[h] = 1 .. Len(pending[h])
        BY <3>1, LenProperties
      <4>2. \A p \in 1 .. Len(pending[h]) : pending[h][p] \in DOMAIN job
        BY <4>1 DEF RegistryIInv, IInv, Coherent, BacklogIsQueued
      <4>3. pending[h] \in [1 .. Len(pending[h]) -> DOMAIN job]
        BY <4>1, <4>2, LenProperties
      <4> QED BY <4>1, <4>3, SeqDef
    <3> QED BY <3>1, <3>2
  <2>3. active \in [Host \X Volume -> {NoJob} \cup DOMAIN job]
    <3>1. active \in [Host \X Volume -> Nat]
      BY DEF RegistryIInv, IInv, Coherent
    <3>2. \A key \in Host \X Volume : active[key] \in {NoJob} \cup DOMAIN job
      BY DEF RegistryIInv, EntriesMatch
    <3> QED BY <3>1, <3>2
  <2> QED BY <2>1, <2>2, <2>3 DEF TypeOK
<1>2. RegistryIInv => AskerGetsItsVolume
  BY DEF RegistryIInv, AskersMatch, AskerGetsItsVolume
<1>3. RegistryIInv => NoStaleActiveEntry
  BY DEF RegistryIInv, IInv, Coherent, EntriesMatch, NoStaleActiveEntry
<1>4. RegistryIInv => SlotsHeldByOwnHost
  BY DEF RegistryIInv, Slots, SlotHolders, SlotsHeldByOwnHost
<1>5. RegistryIInv => RetentionBounded
  BY DEF RegistryIInv, Retained, Cleaned, RetentionBounded
<1> QED BY <1>1, <1>2, <1>3, <1>4, <1>5, RegistryInvariance, PTL DEF QueueInv
-----------------------------------------------------------------------------
(***************************************************************************)
(* Each host's part is a TaskQueue.  Its history variable started is the   *)
(* sequence of the host's jobs that are no longer in the backlog, in the   *)
(* order of their numbers.  That a pump() appends to it needs that the     *)
(* backlog is in the order of the numbers, too, and behind every job that  *)
(* has begun.  That the jobs begun can be put in order at all is part of   *)
(* the invariant: it would need an induction over finite sets otherwise.   *)
(***************************************************************************)
Waiting(table, h) == {j \in DOMAIN table : table[j].host = h /\ table[j].stage = "queued"}
Begun(table, h) == {j \in DOMAIN table : table[j].host = h /\ table[j].stage # "queued"}
Ended(table, h) ==
    {j \in DOMAIN table : /\ table[j].host = h
                          /\ table[j].stage \in {"completed", "released", "concluded", "cleaned"}}
EndedAs(table, h, ok) == {j \in Ended(table, h) : table[j].ok = ok}
Freed(table, h) ==
    {j \in DOMAIN table : /\ table[j].host = h
                          /\ table[j].stage \in {"released", "concluded", "cleaned"}}

\* What the queue of host h sees of the jobs.
SameView(old, new, h) ==
    /\ Waiting(new, h) = Waiting(old, h) /\ Begun(new, h) = Begun(old, h)
    /\ Ended(new, h) = Ended(old, h) /\ Freed(new, h) = Freed(old, h)
    /\ \A ok \in BOOLEAN : EndedAs(new, h, ok) = EndedAs(old, h, ok)

InTurn(waiting, begun, queue) ==
    /\ ToSet(queue) = waiting
    /\ \A p, q \in DOMAIN queue : p < q => queue[p] < queue[q]
    /\ \A b \in begun, w \in waiting : b < w

IsOrderOf(s, S) ==
    /\ s \in [1 .. Cardinality(S) -> S]
    /\ ToSet(s) = S
    /\ \A i, j \in DOMAIN s : i < j => s[i] < s[j]

\* The part of host h, with backlog queue.
TurnOf(table, queue, h) ==
    /\ InTurn(Waiting(table, h), Begun(table, h), queue)
    /\ IsOrderOf(InOrder(Begun(table, h)), Begun(table, h))

TurnIInv ==
    /\ RegistryIInv
    /\ Len(job) <= MaxJobs
    /\ \A h \in Host : TurnOf(job, pending[h], h)

\* There is one way to put numbers in order: the first place where two ways
\* differ would hold the smaller of two numbers in one of them, which the other
\* has no place for.
LEMMA SmallerFirst ==
  ASSUME NEW S \in SUBSET Nat, NEW n \in Nat,
         NEW s \in [1 .. n -> S], NEW t \in [1 .. n -> S],
         ToSet(t) = S,
         \A i, j \in 1 .. n : i < j => s[i] < s[j],
         \A i, j \in 1 .. n : i < j => t[i] < t[j],
         NEW m \in 1 .. n, \A i \in 1 .. n : i < m => s[i] = t[i]
  PROVE  ~ (s[m] < t[m])
<1> SUFFICES ASSUME s[m] < t[m] PROVE FALSE
  OBVIOUS
<1>1. PICK k \in 1 .. n : t[k] = s[m]
  BY DEF ToSet
<1>2. s[m] \in Nat /\ t[m] \in Nat /\ t[k] \in Nat /\ s[k] \in Nat /\ m \in Nat /\ k \in Nat
  <2>1. s[m] \in S /\ t[m] \in S /\ t[k] \in S /\ s[k] \in S
    OBVIOUS
  <2>2. \A y \in S : y \in Nat
    OBVIOUS
  <2>3. m \in Nat /\ k \in Nat
    OBVIOUS
  <2> QED BY <2>1, <2>2, <2>3
<1>3. CASE k < m
  BY <1>1, <1>2, <1>3
<1>4. CASE k = m
  BY <1>1, <1>2, <1>4
<1>5. CASE m < k
  BY <1>1, <1>2, <1>5
<1> QED BY <1>2, <1>3, <1>4, <1>5

LEMMA OneOrder ==
  ASSUME NEW S \in SUBSET Nat, IsFiniteSet(S), NEW s, NEW t, IsOrderOf(s, S), IsOrderOf(t, S)
  PROVE  s = t
<1> DEFINE n == Cardinality(S)
           differ == {i \in 1 .. n : s[i] # t[i]}
<1>1. n \in Nat
  BY FS_CardinalityType
<1>2. /\ s \in [1 .. n -> S] /\ t \in [1 .. n -> S]
      /\ ToSet(s) = S /\ ToSet(t) = S
      /\ \A i, j \in 1 .. n : i < j => s[i] < s[j]
      /\ \A i, j \in 1 .. n : i < j => t[i] < t[j]
  BY DEF IsOrderOf
<1> HIDE DEF n
<1>3. ASSUME differ # {} PROVE FALSE
  <2>1. differ \in SUBSET Nat
    BY <1>1
  <2>2. PICK m \in differ : \A i \in differ : m <= i
    BY <1>3, <2>1, LeastElement
  <2>3. m \in 1 .. n /\ s[m] # t[m]
    OBVIOUS
  <2>4. \A i \in 1 .. n : i < m => s[i] = t[i]
    <3> SUFFICES ASSUME NEW i \in 1 .. n, i < m, s[i] # t[i] PROVE FALSE
      OBVIOUS
    <3>1. m <= i
      BY <2>2
    <3> QED BY <1>1, <2>3, <3>1
  <2>5. ~ (s[m] < t[m])
    BY <1>1, <1>2, <2>3, <2>4, SmallerFirst
  <2>6. ~ (t[m] < s[m])
    BY <1>1, <1>2, <2>3, <2>4, SmallerFirst
  <2>7. s[m] \in Nat /\ t[m] \in Nat
    <3>1. s[m] \in S /\ t[m] \in S
      BY <1>2, <2>3
    <3>2. \A y \in S : y \in Nat
      OBVIOUS
    <3> QED BY <3>1, <3>2
  <2> QED BY <2>3, <2>5, <2>6, <2>7
<1>4. \A i \in 1 .. n : s[i] = t[i]
  BY <1>3
<1>5. s = [i \in 1 .. n |-> s[i]] /\ t = [i \in 1 .. n |-> t[i]]
  BY <1>2
<1>6. [i \in 1 .. n |-> s[i]] = [i \in 1 .. n |-> t[i]]
  BY <1>4
<1> QED BY <1>5, <1>6

\* A number behind all others comes last.
LEMMA OrderAppended ==
  ASSUME NEW S \in SUBSET Nat, IsFiniteSet(S), IsOrderOf(InOrder(S), S),
         NEW x \in Nat, \A y \in S : y < x
  PROVE  /\ IsOrderOf(InOrder(S \cup {x}), S \cup {x})
         /\ InOrder(S \cup {x}) = Append(InOrder(S), x)
<1> DEFINE s == InOrder(S)
           n == Cardinality(S)
           T == S \cup {x}
           t == Append(s, x)
<1>1. n \in Nat /\ x \notin S /\ IsFiniteSet(T) /\ Cardinality(T) = n + 1 /\ T \in SUBSET Nat
  <2>1. x \notin S
    OBVIOUS
  <2> QED BY <2>1, FS_CardinalityType, FS_AddElement
<1>2. s \in [1 .. n -> S] /\ ToSet(s) = S /\ \A i, j \in 1 .. n : i < j => s[i] < s[j]
  BY DEF IsOrderOf
<1> HIDE DEF s, n
<1>3. s \in Seq(T) /\ Len(s) = n
  BY <1>1, <1>2, SeqDef, LenProperties
<1>4. /\ t \in Seq(T) /\ Len(t) = n + 1
      /\ \A i \in 1 .. n : t[i] = s[i]
      /\ t[n + 1] = x
  <2> HIDE DEF T
  <2>1. x \in T
    BY DEF T
  <2> QED BY <1>3, <2>1, AppendProperties
<1> HIDE DEF t
<1>5. t \in [1 .. Cardinality(T) -> T] /\ DOMAIN t = 1 .. n + 1
  BY <1>1, <1>4, LenProperties
<1>6. ToSet(t) = T
  <2>1. ToSet(t) = {t[i] : i \in 1 .. n + 1} /\ ToSet(s) = {s[i] : i \in 1 .. n}
    BY <1>2, <1>5 DEF ToSet
  <2>2. \A i \in 1 .. n + 1 : i \in 1 .. n \/ i = n + 1
    BY <1>1
  <2>3. \A i \in 1 .. n : i \in 1 .. n + 1 /\ t[i] = s[i]
    BY <1>1, <1>4
  <2>4. n + 1 \in 1 .. n + 1 /\ t[n + 1] = x
    BY <1>1, <1>4
  <2>5. \A y : y \in T <=> y \in S \/ y = x
    OBVIOUS
  <2> HIDE DEF T
  <2>6. \A y \in ToSet(t) : y \in T
    BY <1>2, <2>1, <2>2, <2>3, <2>4, <2>5
  <2>7. \A y \in T : y \in ToSet(t)
    BY <1>2, <2>1, <2>3, <2>4, <2>5
  <2> QED BY <2>6, <2>7
<1>7. ASSUME NEW i \in 1 .. n + 1, NEW j \in 1 .. n + 1, i < j PROVE t[i] < t[j]
  <2>1. i \in 1 .. n /\ t[i] = s[i] /\ s[i] \in S
    BY <1>1, <1>2, <1>4, <1>7
  <2>2. CASE j = n + 1
    BY <1>4, <2>1, <2>2
  <2>3. CASE j \in 1 .. n
    BY <1>2, <1>4, <1>7, <2>1, <2>3
  <2> QED BY <1>1, <2>2, <2>3
<1>8. IsOrderOf(t, T)
  BY <1>5, <1>6, <1>7 DEF IsOrderOf
<1>9. IsOrderOf(InOrder(T), T)
  BY <1>8 DEF InOrder, IsOrderOf
<1>10. InOrder(T) = t
  BY <1>1, <1>8, <1>9, OneOrder
<1> QED BY <1>9, <1>10 DEF t, s

-----------------------------------------------------------------------------
\* The head of a queue begins: it is the next in turn.
LEMMA HeadInTurn ==
  ASSUME NEW W, NEW B \in SUBSET Nat, NEW queue \in Seq(Nat), queue # <<>>, InTurn(W, B, queue)
  PROVE  /\ Head(queue) \in W
         /\ \A b \in B : b < Head(queue)
         /\ InTurn(W \ {Head(queue)}, B \cup {Head(queue)}, Tail(queue))
<1> DEFINE x == Head(queue)
           rest == Tail(queue)
<1>1. Len(queue) \in Nat \ {0} /\ DOMAIN queue = 1 .. Len(queue)
  BY EmptySeq, LenProperties
<1>2. /\ x = queue[1] /\ 1 \in DOMAIN queue
      /\ rest \in Seq(Nat) /\ Len(rest) = Len(queue) - 1
      /\ \A p \in 1 .. Len(queue) - 1 : rest[p] = queue[p + 1]
  BY <1>1, HeadTailProperties
<1>3. DOMAIN rest = 1 .. Len(queue) - 1
  BY <1>2, LenProperties
<1>4. \A p \in DOMAIN queue : queue[p] \in Nat /\ p \in Nat
  BY <1>1, ElementOfSeq
<1>5. /\ ToSet(queue) = W
      /\ \A p, q \in DOMAIN queue : p < q => queue[p] < queue[q]
      /\ \A b \in B, w \in W : b < w
  BY DEF InTurn
<1>6. \A w : w \in W <=> \E p \in DOMAIN queue : w = queue[p]
  BY <1>5 DEF ToSet
<1>7. x \in W /\ x \in Nat /\ \A b \in B : b < x
  BY <1>2, <1>4, <1>5, <1>6
<1> HIDE DEF x, rest
<1>8. \A p \in DOMAIN rest : p \in Nat /\ p + 1 \in DOMAIN queue /\ rest[p] = queue[p + 1] /\ rest[p] \in Nat
  BY <1>1, <1>2, <1>3, <1>4
<1>9. \A p \in DOMAIN queue : p # 1 => p - 1 \in DOMAIN rest /\ rest[p - 1] = queue[p]
  BY <1>1, <1>2, <1>3
<1>10. \A p \in DOMAIN queue : p # 1 => x < queue[p]
  BY <1>1, <1>2, <1>4, <1>5
<1>11. ToSet(rest) = W \ {x}
  <2>1. ASSUME NEW w \in ToSet(rest) PROVE w \in W \ {x}
    <3>1. PICK p \in DOMAIN rest : w = rest[p]
      BY DEF ToSet
    <3>2. w = queue[p + 1] /\ p + 1 \in DOMAIN queue /\ p + 1 # 1
      BY <1>3, <1>8, <3>1
    <3>3. x < w /\ w \in Nat
      BY <1>4, <1>10, <3>2
    <3> QED BY <1>6, <1>7, <3>2, <3>3
  <2>2. ASSUME NEW w \in W \ {x} PROVE w \in ToSet(rest)
    <3>1. PICK p \in DOMAIN queue : w = queue[p]
      BY <1>6
    <3>2. p # 1
      BY <1>2, <3>1
    <3> QED BY <1>9, <3>1, <3>2 DEF ToSet
  <2> QED BY <2>1, <2>2
<1>12. ASSUME NEW p \in DOMAIN rest, NEW q \in DOMAIN rest, p < q PROVE rest[p] < rest[q]
  BY <1>5, <1>8, <1>12
<1>13. \A w \in W \ {x} : x < w
  BY <1>2, <1>6, <1>10
<1>14. \A b \in B \cup {x}, w \in W \ {x} : b < w
  BY <1>5, <1>13
<1> QED BY <1>7, <1>11, <1>12, <1>14 DEF InTurn, x, rest

\* A number behind all others may join the queue.
LEMMA LastInTurn ==
  ASSUME NEW W, NEW B, NEW queue \in Seq(Nat), InTurn(W, B, queue),
         NEW x \in Nat, \A y \in W \cup B : y < x
  PROVE  InTurn(W \cup {x}, B, Append(queue, x))
<1> DEFINE more == Append(queue, x)
           n == Len(queue)
<1>1. n \in Nat /\ DOMAIN queue = 1 .. n
  BY LenProperties
<1>2. /\ more \in Seq(Nat) /\ Len(more) = n + 1
      /\ \A p \in 1 .. n : more[p] = queue[p]
      /\ more[n + 1] = x
  BY AppendProperties
<1>3. DOMAIN more = 1 .. n + 1
  BY <1>2, LenProperties
<1>4. /\ ToSet(queue) = W
      /\ \A p, q \in DOMAIN queue : p < q => queue[p] < queue[q]
      /\ \A b \in B, w \in W : b < w
  BY DEF InTurn
<1>5. \A w : w \in W <=> \E p \in 1 .. n : w = queue[p]
  BY <1>1, <1>4 DEF ToSet
<1> HIDE DEF more, n
<1>6. \A p \in DOMAIN more : (p \in 1 .. n /\ more[p] = queue[p]) \/ (p = n + 1 /\ more[p] = x)
  BY <1>1, <1>2, <1>3
<1>7. \A p \in 1 .. n : p \in DOMAIN more
  BY <1>1, <1>3
<1>8. n + 1 \in DOMAIN more
  BY <1>1, <1>3
<1>9. ToSet(more) = W \cup {x}
  <2>1. \A w : w \in ToSet(more) <=> \E p \in DOMAIN more : w = more[p]
    BY DEF ToSet
  <2> QED BY <1>2, <1>5, <1>6, <1>7, <1>8, <2>1
<1>10. ASSUME NEW p \in DOMAIN more, NEW q \in DOMAIN more, p < q PROVE more[p] < more[q]
  <2>1. p \in 1 .. n /\ more[p] = queue[p] /\ queue[p] \in W
    BY <1>1, <1>3, <1>5, <1>6, <1>10
  <2>2. CASE q \in 1 .. n
    BY <1>1, <1>2, <1>4, <1>10, <2>1, <2>2
  <2>3. CASE q = n + 1
    BY <1>2, <2>1, <2>3
  <2> QED BY <1>6, <2>2, <2>3
<1>11. \A b \in B, w \in W \cup {x} : b < w
  BY <1>4
<1> QED BY <1>9, <1>10, <1>11 DEF InTurn, more

LEMMA BegunFinite ==
  ASSUME NEW table \in Seq(ScanJob), NEW h
  PROVE  Begun(table, h) \in SUBSET Nat /\ IsFiniteSet(Begun(table, h))
<1>1. Len(table) \in Nat /\ DOMAIN table = 1 .. Len(table)
  BY LenProperties
<1>2. IsFiniteSet(DOMAIN table)
  BY <1>1, FS_Interval
<1>3. Begun(table, h) \in SUBSET DOMAIN table
  BY DEF Begun
<1>4. \A i \in DOMAIN table : i \in Nat
  BY <1>1
<1> QED BY <1>2, <1>3, <1>4, FS_Subset

-----------------------------------------------------------------------------
\* A step that only moves jobs within what their queue sees leaves it as it was.
LEMMA SameTurn ==
  ASSUME NEW old, NEW new, NEW h, NEW queue, SameView(old, new, h), TurnOf(old, queue, h)
  PROVE  TurnOf(new, queue, h)
BY DEF SameView, TurnOf

\* What a pump() does to a host's queue.
Pumped(h, queue, busy, begun) ==
    \/ /\ busy >= Concurrency \/ queue = <<>>
       /\ pending'[h] = queue /\ running'[h] = busy
       /\ InOrder(Begun(job', h)) = InOrder(begun)
    \/ /\ busy < Concurrency
       /\ queue # <<>>
       /\ pending'[h] = Tail(queue) /\ running'[h] = busy + 1
       /\ InOrder(Begun(job', h)) = Append(InOrder(begun), Head(queue))

\* pump(): the backlog and what has begun after it, and what it cannot change.
LEMMA PumpTurn ==
  ASSUME NEW table, NEW kept, NEW entries, NEW h \in Host, NEW queue, NEW busy,
         Coherent(table, [pending EXCEPT ![h] = queue], kept, entries),
         pending \in [Host -> Seq(Nat)], running \in [Host -> 0 .. Concurrency],
         TurnOf(table, queue, h),
         Pump(h, queue, busy, table)
  PROVE  /\ TurnOf(job', pending'[h], h)
         /\ DOMAIN job' = DOMAIN table
         /\ Ended(job', h) = Ended(table, h) /\ Freed(job', h) = Freed(table, h)
         /\ \A ok \in BOOLEAN : EndedAs(job', h, ok) = EndedAs(table, h, ok)
         /\ Pumped(h, queue, busy, Begun(table, h))
         /\ \A g \in Host \ {h} :
               pending'[g] = pending[g] /\ running'[g] = running[g] /\ SameView(table, job', g)
<1> DEFINE backlog == [pending EXCEPT ![h] = queue]
<1>1. CASE Idle(h, queue, busy, table)
  <2>1. job' = table /\ pending' = backlog /\ running' = [running EXCEPT ![h] = busy]
    BY <1>1 DEF Idle
  <2>2. /\ pending'[h] = queue /\ running'[h] = busy
        /\ \A g \in Host \ {h} : pending'[g] = pending[g] /\ running'[g] = running[g]
    BY <2>1
  <2>3. \A g : SameView(table, table, g)
    BY DEF SameView
  <2>4. busy >= Concurrency \/ queue = <<>>
    BY <1>1 DEF Idle
  <2>5. TurnOf(job', pending'[h], h)
    BY <2>1, <2>2
  <2>6. \A g : SameView(table, job', g)
    BY <2>1, <2>3
  <2>7. /\ Ended(job', h) = Ended(table, h) /\ Freed(job', h) = Freed(table, h)
        /\ \A ok \in BOOLEAN : EndedAs(job', h, ok) = EndedAs(table, h, ok)
        /\ Begun(job', h) = Begun(table, h)
    BY <2>6 DEF SameView
  <2> QED BY <2>1, <2>2, <2>4, <2>5, <2>6, <2>7 DEF Pumped
<1>2. CASE StartHead(h, queue, busy, table)
  <2>1. backlog[h] = queue
    OBVIOUS
  <2>2. queue \in Seq(Nat) /\ queue # <<>> /\ table \in Seq(ScanJob)
    BY <1>2, <2>1 DEF StartHead, Coherent
  <2> DEFINE j == Head(queue)
             W == Waiting(table, h)
             B == Begun(table, h)
  <2>3. B \in SUBSET Nat /\ IsFiniteSet(B)
    BY <2>2, BegunFinite
  <2>4. InTurn(W, B, queue) /\ IsOrderOf(InOrder(B), B)
    BY DEF TurnOf
  <2>5. /\ j \in W /\ (\A b \in B : b < j)
        /\ InTurn(W \ {j}, B \cup {j}, Tail(queue))
    <3> HIDE DEF W, B
    <3> QED BY <2>2, <2>3, <2>4, HeadInTurn
  <2>6. j \in DOMAIN table /\ table[j].host = h /\ table[j].stage = "queued" /\ j \in Nat
    <3>1. DOMAIN table = 1 .. Len(table)
      BY <2>2, LenProperties
    <3> QED BY <2>5, <3>1 DEF Waiting
  <2>7. /\ job' = [table EXCEPT ![j].state = "running", ![j].stage = "executing"]
        /\ pending' = [pending EXCEPT ![h] = Tail(queue)]
        /\ running' = [running EXCEPT ![h] = busy + 1]
        /\ busy < Concurrency
    BY <1>2 DEF StartHead
  <2>8. table[j] \in ScanJob
    BY <2>2, <2>6, LenProperties, ElementOfSeq
  <2>9. /\ DOMAIN job' = DOMAIN table
        /\ \A i \in DOMAIN table : i # j => job'[i] = table[i]
        /\ job'[j].stage = "executing" /\ job'[j].host = h
    <3> HIDE DEF j
    <3> QED BY <2>2, <2>6, <2>7, <2>8 DEF ScanJob
  <2>10. /\ pending'[h] = Tail(queue) /\ running'[h] = busy + 1
         /\ \A g \in Host \ {h} : pending'[g] = pending[g] /\ running'[g] = running[g]
    BY <2>7
  <2> HIDE DEF j
  <2>11. Waiting(job', h) = W \ {j} /\ Begun(job', h) = B \cup {j}
    BY <2>6, <2>9 DEF Waiting, Begun
  <2>12. /\ Ended(job', h) = Ended(table, h) /\ Freed(job', h) = Freed(table, h)
         /\ \A ok \in BOOLEAN : EndedAs(job', h, ok) = EndedAs(table, h, ok)
    <3>1. Ended(job', h) = Ended(table, h)
      BY <2>6, <2>9 DEF Ended
    <3>2. Freed(job', h) = Freed(table, h)
      BY <2>6, <2>9 DEF Freed
    <3>3. ASSUME NEW i \in Ended(table, h) PROVE job'[i].ok = table[i].ok
      BY <2>6, <2>9 DEF Ended
    <3>4. \A ok \in BOOLEAN : EndedAs(job', h, ok) = EndedAs(table, h, ok)
      BY <3>1, <3>3 DEF EndedAs
    <3> QED BY <3>1, <3>2, <3>4
  <2>13. ASSUME NEW g \in Host \ {h} PROVE SameView(table, job', g)
    <3>1. /\ Waiting(job', g) = Waiting(table, g) /\ Begun(job', g) = Begun(table, g)
          /\ Freed(job', g) = Freed(table, g)
      BY <2>6, <2>9 DEF Waiting, Begun, Freed
    <3>2. Ended(job', g) = Ended(table, g)
      BY <2>6, <2>9 DEF Ended
    <3>3. ASSUME NEW i \in Ended(table, g) PROVE job'[i].ok = table[i].ok
      BY <2>6, <2>9 DEF Ended
    <3>4. \A ok \in BOOLEAN : EndedAs(job', g, ok) = EndedAs(table, g, ok)
      BY <3>2, <3>3 DEF EndedAs
    <3> QED BY <3>1, <3>2, <3>4 DEF SameView
  <2> HIDE DEF B, W
  <2>14. IsOrderOf(InOrder(B \cup {j}), B \cup {j}) /\ InOrder(B \cup {j}) = Append(InOrder(B), j)
    BY <2>3, <2>4, <2>5, <2>6, OrderAppended
  <2>15. TurnOf(job', pending'[h], h)
    BY <2>5, <2>10, <2>11, <2>14 DEF TurnOf
  <2>16. InOrder(Begun(job', h)) = Append(InOrder(Begun(table, h)), Head(queue))
    BY <2>11, <2>14 DEF B, j
  <2> QED BY <2>2, <2>7, <2>9, <2>10, <2>12, <2>13, <2>15, <2>16 DEF Pumped
<1> QED BY <1>1, <1>2 DEF Pump

-----------------------------------------------------------------------------
\* The values the queue's variables are mapped to, read off a job table.
LEMMA QueueView ==
  ASSUME NEW table \in Seq(ScanJob), NEW queue, NEW h, TurnOf(table, queue, h)
  PROVE  /\ {j \in DOMAIN table : table[j].host = h} \ ToSet(queue) = Begun(table, h)
         /\ ToSet(InOrder(Begun(table, h))) = Begun(table, h)
         /\ {j \in Ended(table, h) : table[j].ok} = EndedAs(table, h, TRUE)
         /\ {j \in Ended(table, h) : ~ table[j].ok} = EndedAs(table, h, FALSE)
         /\ {j \in Ended(table, h) : table[j].stage # "completed"} = Freed(table, h)
<1>1. \A j \in DOMAIN table : table[j].ok \in BOOLEAN
  <2>1. \A j \in DOMAIN table : table[j] \in ScanJob
    BY LenProperties, ElementOfSeq
  <2> QED BY <2>1 DEF ScanJob
<1>2. ToSet(queue) = Waiting(table, h) /\ ToSet(InOrder(Begun(table, h))) = Begun(table, h)
  BY DEF TurnOf, InTurn, IsOrderOf
<1>3. {j \in DOMAIN table : table[j].host = h} \ Waiting(table, h) = Begun(table, h)
  BY DEF Waiting, Begun
<1>4. {j \in Ended(table, h) : table[j].ok} = EndedAs(table, h, TRUE)
  BY <1>1 DEF Ended, EndedAs
<1>5. {j \in Ended(table, h) : ~ table[j].ok} = EndedAs(table, h, FALSE)
  BY <1>1 DEF Ended, EndedAs
<1>6. {j \in Ended(table, h) : table[j].stage # "completed"} = Freed(table, h)
  BY DEF Ended, Freed
<1> QED BY <1>2, <1>3, <1>4, <1>5, <1>6

\* The same of the states before and after a step.
Seen(h) ==
    /\ StartedOf(h) = InOrder(Begun(job, h)) /\ ToSet(StartedOf(h)) = Begun(job, h)
    /\ SettledOf(h) = Ended(job, h)
    /\ {j \in SettledOf(h) : job[j].ok} = EndedAs(job, h, TRUE)
    /\ {j \in SettledOf(h) : ~ job[j].ok} = EndedAs(job, h, FALSE)
    /\ {j \in SettledOf(h) : job[j].stage # "completed"} = Freed(job, h)
    /\ ToSet(pending[h]) = Waiting(job, h)

LEMMA SeenBefore ==
  ASSUME NEW h, job \in Seq(ScanJob), TurnOf(job, pending[h], h)
  PROVE  Seen(h)
<1>1. SettledOf(h) = Ended(job, h)
  BY DEF SettledOf, Of, Ended
<1>3. StartedOf(h) = InOrder({j \in DOMAIN job : job[j].host = h} \ ToSet(pending[h]))
  BY DEF StartedOf, Of
<1>4. ToSet(pending[h]) = Waiting(job, h)
  BY DEF TurnOf, InTurn
<1>5. /\ StartedOf(h) = InOrder(Begun(job, h)) /\ ToSet(InOrder(Begun(job, h))) = Begun(job, h)
      /\ {j \in Ended(job, h) : job[j].ok} = EndedAs(job, h, TRUE)
      /\ {j \in Ended(job, h) : ~ job[j].ok} = EndedAs(job, h, FALSE)
      /\ {j \in Ended(job, h) : job[j].stage # "completed"} = Freed(job, h)
  BY <1>3, QueueView
<1>6. /\ {j \in SettledOf(h) : job[j].ok} = EndedAs(job, h, TRUE)
      /\ {j \in SettledOf(h) : ~ job[j].ok} = EndedAs(job, h, FALSE)
      /\ {j \in SettledOf(h) : job[j].stage # "completed"} = Freed(job, h)
  BY <1>1, <1>5
<1>7. ToSet(StartedOf(h)) = Begun(job, h)
  BY <1>5
<1> QED BY <1>1, <1>4, <1>5, <1>6, <1>7 DEF Seen

LEMMA SeenAfter ==
  ASSUME NEW h, job' \in Seq(ScanJob), TurnOf(job', pending'[h], h)
  PROVE  Seen(h)'
<1>1. SettledOf(h)' = Ended(job', h)
  BY DEF SettledOf, Of, Ended
<1>3. StartedOf(h)' = InOrder({j \in DOMAIN job' : job'[j].host = h} \ ToSet(pending'[h]))
  BY DEF StartedOf, Of
<1>4. ToSet(pending'[h]) = Waiting(job', h)
  BY DEF TurnOf, InTurn
<1>5. /\ StartedOf(h)' = InOrder(Begun(job', h)) /\ ToSet(InOrder(Begun(job', h))) = Begun(job', h)
      /\ {j \in Ended(job', h) : job'[j].ok} = EndedAs(job', h, TRUE)
      /\ {j \in Ended(job', h) : ~ job'[j].ok} = EndedAs(job', h, FALSE)
      /\ {j \in Ended(job', h) : job'[j].stage # "completed"} = Freed(job', h)
  BY <1>3, QueueView
<1>6. /\ {j \in SettledOf(h)' : job'[j].ok} = EndedAs(job', h, TRUE)
      /\ {j \in SettledOf(h)' : ~ job'[j].ok} = EndedAs(job', h, FALSE)
      /\ {j \in SettledOf(h)' : job'[j].stage # "completed"} = Freed(job', h)
  BY <1>1, <1>5
<1>7. ToSet(StartedOf(h)') = Begun(job', h)
  BY <1>5
<1> QED BY <1>1, <1>4, <1>5, <1>6, <1>7 DEF Seen

-----------------------------------------------------------------------------
(* Each kind of step, as host h's queue sees it.                           *)

LEMMA QueueSubmits ==
  ASSUME NEW h \in Host, Seen(h), Seen(h)',
         NEW t \in 1 .. MaxJobs, t \notin Waiting(job, h) \cup Begun(job, h),
         ~ IsSaturated(h),
         Pumped(h, Append(pending[h], t), running[h], Begun(job, h)),
         Ended(job', h) = Ended(job, h), Freed(job', h) = Freed(job, h),
         \A ok \in BOOLEAN : EndedAs(job', h, ok) = EndedAs(job, h, ok)
  PROVE  TQ(h)!Next
<1>1. t \notin TQ(h)!Submitted
  BY DEF TQ!Submitted, TQ!Range, Seen, ToSet
<1>2. ~ TQ(h)!IsSaturated
  BY DEF TQ!IsSaturated, IsSaturated
<1>3. TQ(h)!Pump(Append(pending[h], t), running[h])
  BY DEF TQ!Pump, TQ!Idle, TQ!StartHead, Pumped, Seen
<1>4. /\ Cardinality({j \in SettledOf(h) : job[j].ok})' = Cardinality({j \in SettledOf(h) : job[j].ok})
      /\ Cardinality({j \in SettledOf(h) : ~ job[j].ok})' = Cardinality({j \in SettledOf(h) : ~ job[j].ok})
      /\ SettledOf(h)' = SettledOf(h)
      /\ {j \in SettledOf(h) : job[j].stage # "completed"}' = {j \in SettledOf(h) : job[j].stage # "completed"}
  BY DEF Seen
<1>5. TQ(h)!Submit(t)
  BY <1>1, <1>2, <1>3, <1>4 DEF TQ!Submit
<1> QED BY <1>5 DEF TQ!Next

LEMMA QueueSettles ==
  ASSUME NEW h \in Host, Seen(h), Seen(h)', job \in Seq(ScanJob),
         NEW t \in 1 .. MaxJobs, t \in Begun(job, h) \ Ended(job, h), NEW good \in BOOLEAN,
         pending'[h] = pending[h], running'[h] = running[h],
         Begun(job', h) = Begun(job, h), Freed(job', h) = Freed(job, h),
         Ended(job', h) = Ended(job, h) \cup {t},
         EndedAs(job', h, good) = EndedAs(job, h, good) \cup {t},
         EndedAs(job', h, ~ good) = EndedAs(job, h, ~ good)
  PROVE  TQ(h)!Next
<1>1. Cardinality(EndedAs(job', h, good)) = Cardinality(EndedAs(job, h, good)) + 1
  <2>1. Len(job) \in Nat /\ DOMAIN job = 1 .. Len(job)
    BY LenProperties
  <2>2. IsFiniteSet(DOMAIN job)
    BY <2>1, FS_Interval
  <2>3. EndedAs(job, h, good) \in SUBSET DOMAIN job /\ t \notin EndedAs(job, h, good)
    BY DEF EndedAs, Ended
  <2>4. IsFiniteSet(EndedAs(job, h, good))
    BY <2>2, <2>3, FS_Subset
  <2> QED BY <2>3, <2>4, FS_AddElement
<1>2. t \in TQ(h)!Range(StartedOf(h)) \ SettledOf(h)
  BY DEF TQ!Range, Seen, ToSet
<1>3. /\ SettledOf(h)' = SettledOf(h) \cup {t}
      /\ StartedOf(h)' = StartedOf(h)
      /\ {j \in SettledOf(h) : job[j].stage # "completed"}' = {j \in SettledOf(h) : job[j].stage # "completed"}
  BY DEF Seen
<1>4. \/ /\ Cardinality({j \in SettledOf(h) : job[j].ok})' = Cardinality({j \in SettledOf(h) : job[j].ok}) + 1
         /\ Cardinality({j \in SettledOf(h) : ~ job[j].ok})' = Cardinality({j \in SettledOf(h) : ~ job[j].ok})
      \/ /\ Cardinality({j \in SettledOf(h) : ~ job[j].ok})' = Cardinality({j \in SettledOf(h) : ~ job[j].ok}) + 1
         /\ Cardinality({j \in SettledOf(h) : job[j].ok})' = Cardinality({j \in SettledOf(h) : job[j].ok})
  <2>1. CASE good = TRUE
    <3>1. /\ Cardinality(EndedAs(job', h, TRUE)) = Cardinality(EndedAs(job, h, TRUE)) + 1
          /\ EndedAs(job', h, FALSE) = EndedAs(job, h, FALSE)
      BY <1>1, <2>1
    <3> QED BY <3>1 DEF Seen
  <2>2. CASE good = FALSE
    <3>1. /\ Cardinality(EndedAs(job', h, FALSE)) = Cardinality(EndedAs(job, h, FALSE)) + 1
          /\ EndedAs(job', h, TRUE) = EndedAs(job, h, TRUE)
      BY <1>1, <2>2
    <3> QED BY <3>1 DEF Seen
  <2> QED BY <2>1, <2>2
<1>5. TQ(h)!Settle(t)
  BY <1>2, <1>3, <1>4 DEF TQ!Settle
<1> QED BY <1>5 DEF TQ!Next

LEMMA QueueReleases ==
  ASSUME NEW h \in Host, Seen(h), Seen(h)',
         NEW t \in 1 .. MaxJobs, t \in Ended(job, h) \ Freed(job, h),
         Pumped(h, pending[h], running[h] - 1, Begun(job, h)),
         Freed(job', h) = Freed(job, h) \cup {t},
         Ended(job', h) = Ended(job, h),
         \A ok \in BOOLEAN : EndedAs(job', h, ok) = EndedAs(job, h, ok)
  PROVE  TQ(h)!Next
<1>1. TQ(h)!Pump(pending[h], running[h] - 1)
  BY DEF TQ!Pump, TQ!Idle, TQ!StartHead, Pumped, Seen
<1>2. /\ Cardinality({j \in SettledOf(h) : job[j].ok})' = Cardinality({j \in SettledOf(h) : job[j].ok})
      /\ Cardinality({j \in SettledOf(h) : ~ job[j].ok})' = Cardinality({j \in SettledOf(h) : ~ job[j].ok})
      /\ SettledOf(h)' = SettledOf(h)
      /\ {j \in SettledOf(h) : job[j].stage # "completed"}' = {j \in SettledOf(h) : job[j].stage # "completed"} \cup {t}
      /\ t \in SettledOf(h) \ {j \in SettledOf(h) : job[j].stage # "completed"}
  BY DEF Seen
<1>3. TQ(h)!Release(t)
  BY <1>1, <1>2 DEF TQ!Release
<1> QED BY <1>3 DEF TQ!Next

LEMMA QueueRests ==
  ASSUME NEW h \in Host, Seen(h), Seen(h)',
         pending'[h] = pending[h], running'[h] = running[h], SameView(job, job', h)
  PROVE  UNCHANGED TQ(h)!vars
<1>1. /\ Cardinality({j \in SettledOf(h) : job[j].ok})' = Cardinality({j \in SettledOf(h) : job[j].ok})
      /\ Cardinality({j \in SettledOf(h) : ~ job[j].ok})' = Cardinality({j \in SettledOf(h) : ~ job[j].ok})
      /\ SettledOf(h)' = SettledOf(h) /\ StartedOf(h)' = StartedOf(h)
      /\ {j \in SettledOf(h) : job[j].stage # "completed"}' = {j \in SettledOf(h) : job[j].stage # "completed"}
  BY DEF Seen, SameView
<1> QED BY <1>1 DEF TQ!vars

-----------------------------------------------------------------------------
(* Each action keeps the invariant, and is a step of every host's queue.   *)

HostsStep == \A g \in Host : [TQ(g)!Next]_(TQ(g)!vars)

LEMMA TurnTypes ==
  ASSUME TurnIInv
  PROVE  /\ job \in Seq(ScanJob) /\ Len(job) \in Nat /\ DOMAIN job = 1 .. Len(job)
         /\ Len(job) <= MaxJobs /\ MaxJobs \in Nat
         /\ \A i \in DOMAIN job : job[i] \in ScanJob /\ i \in 1 .. MaxJobs /\ i \in Nat
         /\ pending \in [Host -> Seq(Nat)] /\ running \in [Host -> 0 .. Concurrency]
         /\ \A g \in Host : TurnOf(job, pending[g], g)
         /\ \A g \in Host : Seen(g)
<1>1. job \in Seq(ScanJob) /\ Len(job) <= MaxJobs
      /\ pending \in [Host -> Seq(Nat)] /\ running \in [Host -> 0 .. Concurrency]
      /\ \A g \in Host : TurnOf(job, pending[g], g)
  BY DEF TurnIInv, RegistryIInv, IInv, Coherent, Slots
<1>2. /\ Len(job) \in Nat /\ DOMAIN job = 1 .. Len(job)
      /\ \A i \in DOMAIN job : job[i] \in ScanJob
  BY <1>1, LenProperties, ElementOfSeq
<1>3. \A i \in DOMAIN job : i \in 1 .. MaxJobs /\ i \in Nat
  BY <1>1, <1>2, ScanQueueOptions
<1>4. \A g \in Host : Seen(g)
  BY <1>1, SeenBefore
<1> QED BY <1>1, <1>2, <1>3, <1>4, ScanQueueOptions

\* Nothing the queues see has changed.
LEMMA RestTurn ==
  ASSUME TurnIInv, RegistryIInv', DOMAIN job' = DOMAIN job, UNCHANGED <<pending, running>>,
         \A g \in Host : SameView(job, job', g)
  PROVE  TurnIInv' /\ HostsStep
<1>1. job' \in Seq(ScanJob)
  BY DEF RegistryIInv, IInv, Coherent
<1>2. Len(job') = Len(job)
  <2>1. Len(job') \in Nat /\ DOMAIN job' = 1 .. Len(job')
    BY <1>1, LenProperties
  <2> QED BY <2>1, TurnTypes
<1>3. \A g \in Host : TurnOf(job', pending'[g], g)
  BY TurnTypes, SameTurn
<1>4. TurnIInv'
  BY <1>2, <1>3, TurnTypes DEF TurnIInv
<1>5. \A g \in Host : UNCHANGED TQ(g)!vars
  BY <1>1, <1>3, TurnTypes, SeenAfter, QueueRests
<1> QED BY <1>4, <1>5 DEF HostsStep

\* A scan ends: its promise settles in its own host's queue.
LEMMA CompleteTurn ==
  ASSUME TurnIInv, NEW j \in DOMAIN job, Complete(j)
  PROVE  TurnIInv' /\ HostsStep
<1>1. PICK good \in BOOLEAN : job' = [job EXCEPT ![j].stage = "completed", ![j].ok = good]
  BY DEF Complete
<1>2. RegistryIInv'
  BY AdvanceRegistry DEF TurnIInv
<1>3. PICK h \in Host : h = job[j].host
  BY TurnTypes DEF ScanJob
<1>4. /\ DOMAIN job' = DOMAIN job
      /\ \A i \in DOMAIN job : i # j => job'[i] = job[i]
      /\ job'[j].host = h /\ job'[j].stage = "completed" /\ job'[j].ok = good
      /\ job[j].stage = "executing"
      /\ pending' = pending /\ running' = running
  BY <1>1, <1>3, TurnTypes DEF Complete, ScanJob
<1>5. /\ Waiting(job', h) = Waiting(job, h) /\ Begun(job', h) = Begun(job, h)
      /\ Freed(job', h) = Freed(job, h)
      /\ j \in Begun(job, h) \ Ended(job, h)
  BY <1>3, <1>4 DEF Waiting, Begun, Freed, Ended
<1>6. Ended(job', h) = Ended(job, h) \cup {j}
  BY <1>3, <1>4 DEF Ended
<1>7. /\ EndedAs(job', h, good) = EndedAs(job, h, good) \cup {j}
      /\ EndedAs(job', h, ~ good) = EndedAs(job, h, ~ good)
  <2>1. good # (~ good)
    OBVIOUS
  <2>2. \A i \in Ended(job, h) : i \in DOMAIN job /\ i # j
    BY <1>5 DEF Ended
  <2> QED BY <1>4, <1>5, <1>6, <2>1, <2>2 DEF EndedAs
<1>8. ASSUME NEW g \in Host, g # h PROVE SameView(job, job', g)
  <2>1. /\ Waiting(job', g) = Waiting(job, g) /\ Begun(job', g) = Begun(job, g)
        /\ Freed(job', g) = Freed(job, g)
    BY <1>3, <1>4, <1>8 DEF Waiting, Begun, Freed
  <2>2. Ended(job', g) = Ended(job, g)
    BY <1>3, <1>4, <1>8 DEF Ended
  <2>3. \A i \in Ended(job, g) : job'[i].ok = job[i].ok
    BY <1>3, <1>4, <1>8 DEF Ended
  <2>4. \A ok \in BOOLEAN : EndedAs(job', g, ok) = EndedAs(job, g, ok)
    BY <2>2, <2>3 DEF EndedAs
  <2> QED BY <2>1, <2>2, <2>4 DEF SameView
<1>9. \A g \in Host : TurnOf(job', pending'[g], g)
  <2>1. TurnOf(job', pending'[h], h)
    BY <1>4, <1>5, TurnTypes DEF TurnOf
  <2>2. \A g \in Host : g # h => TurnOf(job', pending'[g], g)
    BY <1>4, <1>8, TurnTypes, SameTurn
  <2> QED BY <2>1, <2>2
<1>10. job' \in Seq(ScanJob) /\ Len(job') = Len(job)
  <2>1. job' \in Seq(ScanJob)
    BY <1>2 DEF RegistryIInv, IInv, Coherent
  <2>2. Len(job') \in Nat /\ DOMAIN job' = 1 .. Len(job')
    BY <2>1, LenProperties
  <2> QED BY <1>4, <2>1, <2>2, TurnTypes
<1>11. TurnIInv'
  BY <1>2, <1>9, <1>10, TurnTypes DEF TurnIInv
<1>12. \A g \in Host : Seen(g)'
  BY <1>9, <1>10, SeenAfter
<1>13. TQ(h)!Next
  BY <1>4, <1>5, <1>6, <1>7, <1>12, TurnTypes, QueueSettles
<1>14. \A g \in Host : g # h => UNCHANGED TQ(g)!vars
  BY <1>4, <1>8, <1>12, TurnTypes, QueueRests
<1> QED BY <1>11, <1>13, <1>14 DEF HostsStep

\* A slot is given back, and its own host's queue pumps.
LEMMA ReleaseTurn ==
  ASSUME TurnIInv, NEW j \in DOMAIN job, Release(j)
  PROVE  TurnIInv' /\ HostsStep
<1> DEFINE table == [job EXCEPT ![j].stage = "released"]
<1>2. RegistryIInv'
  BY ReleaseRegistry DEF TurnIInv
<1>3. PICK h \in Host : h = job[j].host
  BY TurnTypes DEF ScanJob
<1>4. /\ DOMAIN table = DOMAIN job
      /\ \A i \in DOMAIN job : i # j => table[i] = job[i]
      /\ table[j].host = h /\ table[j].stage = "released" /\ table[j].ok = job[j].ok
      /\ job[j].stage = "completed"
  BY <1>3, TurnTypes DEF Release, ScanJob
<1>5. Pump(h, pending[h], running[h] - 1, table)
  BY <1>3 DEF Release
<1>6. Coherent(table, [pending EXCEPT ![h] = pending[h]], jobs, active)
  <2>1. PICK r : r = [job[j] EXCEPT !.stage = "released"]
    OBVIOUS
  <2>2. job[j].state = "running"
    BY <1>4 DEF TurnIInv, RegistryIInv, IInv, Coherent, StateFollowsStage
  <2>3. /\ r \in ScanJob /\ r.host = job[j].host /\ r.volume = job[j].volume
        /\ r.stage = "released" /\ r.state = "running" /\ table = [job EXCEPT ![j] = r]
    BY <2>1, <2>2, TurnTypes DEF ScanJob, Stage, JobState
  <2>4. Coherent(job, pending, jobs, active)
    BY DEF TurnIInv, RegistryIInv, IInv
  <2>5. [pending EXCEPT ![h] = pending[h]] = pending
    BY TurnTypes
  <2> HIDE DEF table
  <2>6. Coherent([job EXCEPT ![j] = r], pending, jobs, active)
    BY <1>4, <2>2, <2>3, <2>4, AdvanceCoherent
  <2> QED BY <2>3, <2>5, <2>6
<1> HIDE DEF table
<1>7. /\ Waiting(table, h) = Waiting(job, h) /\ Begun(table, h) = Begun(job, h)
      /\ Freed(table, h) = Freed(job, h) \cup {j}
      /\ j \in Ended(job, h) \ Freed(job, h)
  BY <1>3, <1>4 DEF Waiting, Begun, Freed, Ended
<1>8. ASSUME NEW g \in Host
      PROVE  Ended(table, g) = Ended(job, g) /\ \A ok \in BOOLEAN : EndedAs(table, g, ok) = EndedAs(job, g, ok)
  <2>1. Ended(table, g) = Ended(job, g)
    BY <1>3, <1>4 DEF Ended
  <2>2. \A i \in Ended(job, g) : table[i].ok = job[i].ok
    BY <1>4 DEF Ended
  <2> QED BY <2>1, <2>2 DEF EndedAs
<1>9. ASSUME NEW g \in Host, g # h PROVE SameView(job, table, g)
  <2>1. /\ Waiting(table, g) = Waiting(job, g) /\ Begun(table, g) = Begun(job, g)
        /\ Freed(table, g) = Freed(job, g)
    BY <1>3, <1>4, <1>9 DEF Waiting, Begun, Freed
  <2> QED BY <1>8, <2>1 DEF SameView
<1>10. TurnOf(table, pending[h], h)
  BY <1>7, TurnTypes DEF TurnOf
<1>11. /\ TurnOf(job', pending'[h], h)
       /\ DOMAIN job' = DOMAIN table
       /\ Ended(job', h) = Ended(table, h) /\ Freed(job', h) = Freed(table, h)
       /\ \A ok \in BOOLEAN : EndedAs(job', h, ok) = EndedAs(table, h, ok)
       /\ Pumped(h, pending[h], running[h] - 1, Begun(table, h))
       /\ \A g \in Host \ {h} :
             pending'[g] = pending[g] /\ running'[g] = running[g] /\ SameView(table, job', g)
  BY <1>5, <1>6, <1>10, TurnTypes, PumpTurn
<1>12. ASSUME NEW g \in Host, g # h
       PROVE  pending'[g] = pending[g] /\ running'[g] = running[g] /\ SameView(job, job', g)
  BY <1>9, <1>11, <1>12 DEF SameView
<1>13. \A g \in Host : TurnOf(job', pending'[g], g)
  BY <1>11, <1>12, TurnTypes, SameTurn
<1>14. job' \in Seq(ScanJob) /\ Len(job') = Len(job)
  <2>1. job' \in Seq(ScanJob)
    BY <1>2 DEF RegistryIInv, IInv, Coherent
  <2>2. Len(job') \in Nat /\ DOMAIN job' = 1 .. Len(job')
    BY <2>1, LenProperties
  <2> QED BY <1>4, <1>11, <2>1, <2>2, TurnTypes
<1>15. TurnIInv'
  BY <1>2, <1>13, <1>14, TurnTypes DEF TurnIInv
<1>16. \A g \in Host : Seen(g)'
  BY <1>13, <1>14, SeenAfter
<1>17. TQ(h)!Next
  <2>1. j \in 1 .. MaxJobs /\ Seen(h)
    BY TurnTypes
  <2>2. Pumped(h, pending[h], running[h] - 1, Begun(job, h))
    BY <1>7, <1>11
  <2>3. Ended(job', h) = Ended(job, h) /\ \A ok \in BOOLEAN : EndedAs(job', h, ok) = EndedAs(job, h, ok)
    BY <1>8, <1>11
  <2> QED BY <1>7, <1>11, <1>16, <2>1, <2>2, <2>3, QueueReleases
<1>18. \A g \in Host : g # h => UNCHANGED TQ(g)!vars
  BY <1>12, <1>16, TurnTypes, QueueRests
<1> QED BY <1>15, <1>17, <1>18 DEF HostsStep

\* A request joins its host's queue with the highest number so far.
LEMMA CreateTurn ==
  ASSUME TurnIInv, NEW h \in Host, NEW v \in Volume, Create(h, v)
  PROVE  TurnIInv' /\ HostsStep
<1> DEFINE id == Len(job) + 1
           table == Append(job, NewJob(h, v))
           queue == Append(pending[h], id)
<1>1. RegistryIInv'
  BY CreateRegistry DEF TurnIInv
<1>2. /\ id \in 1 .. MaxJobs /\ id \in Nat /\ ~ IsSaturated(h)
      /\ Pump(h, queue, running[h], table)
      /\ ~ Joinable(h, v)
  BY TurnTypes DEF Create
<1>3. Coherent(table, [pending EXCEPT ![h] = queue], jobs \cup {id}, [active EXCEPT ![<<h, v>>] = id])
  BY <1>2, CreateCoherent DEF TurnIInv, RegistryIInv
<1>4. /\ DOMAIN table = DOMAIN job \cup {id} /\ id \notin DOMAIN job
      /\ \A i \in DOMAIN job : table[i] = job[i]
      /\ table[id] = NewJob(h, v)
      /\ table \in Seq(ScanJob) /\ Len(table) = id
  <2>1. NewJob(h, v) \in ScanJob
    BY DEF NewJob, ScanJob, JobState, Stage
  <2> HIDE DEF table
  <2>2. /\ table \in Seq(ScanJob) /\ Len(table) = Len(job) + 1
        /\ \A i \in 1 .. Len(job) : table[i] = job[i]
        /\ table[Len(job) + 1] = NewJob(h, v)
    BY <2>1, TurnTypes, AppendProperties DEF table
  <2> QED BY <2>2, TurnTypes, LenProperties
<1>5. NewJob(h, v).stage = "queued" /\ NewJob(h, v).host = h
  BY DEF NewJob
<1>6. \A i \in DOMAIN job : i < id /\ i \in Nat
  BY TurnTypes
<1> HIDE DEF table, id
<1>7. /\ Waiting(table, h) = Waiting(job, h) \cup {id} /\ Begun(table, h) = Begun(job, h)
      /\ Freed(table, h) = Freed(job, h)
  BY <1>4, <1>5 DEF Waiting, Begun, Freed
<1>8. ASSUME NEW g \in Host
      PROVE  Ended(table, g) = Ended(job, g) /\ \A ok \in BOOLEAN : EndedAs(table, g, ok) = EndedAs(job, g, ok)
  <2>1. Ended(table, g) = Ended(job, g)
    BY <1>4, <1>5 DEF Ended
  <2>2. \A i \in Ended(job, g) : table[i].ok = job[i].ok
    BY <1>4 DEF Ended
  <2> QED BY <2>1, <2>2 DEF EndedAs
<1>9. ASSUME NEW g \in Host, g # h PROVE SameView(job, table, g)
  <2>1. /\ Waiting(table, g) = Waiting(job, g) /\ Begun(table, g) = Begun(job, g)
        /\ Freed(table, g) = Freed(job, g)
    BY <1>4, <1>5, <1>9 DEF Waiting, Begun, Freed
  <2> QED BY <1>8, <2>1 DEF SameView
<1>10. TurnOf(table, queue, h)
  <2>1. InTurn(Waiting(job, h), Begun(job, h), pending[h])
        /\ IsOrderOf(InOrder(Begun(job, h)), Begun(job, h))
        /\ pending[h] \in Seq(Nat)
    BY TurnTypes DEF TurnOf
  <2>2. \A y \in Waiting(job, h) \cup Begun(job, h) : y < id
    BY <1>6 DEF Waiting, Begun
  <2>3. InTurn(Waiting(job, h) \cup {id}, Begun(job, h), queue)
    BY <1>2, <2>1, <2>2, LastInTurn
  <2> QED BY <1>7, <2>1, <2>3 DEF TurnOf
<1>11. /\ TurnOf(job', pending'[h], h)
       /\ DOMAIN job' = DOMAIN table
       /\ Ended(job', h) = Ended(table, h) /\ Freed(job', h) = Freed(table, h)
       /\ \A ok \in BOOLEAN : EndedAs(job', h, ok) = EndedAs(table, h, ok)
       /\ Pumped(h, queue, running[h], Begun(table, h))
       /\ \A g \in Host \ {h} :
             pending'[g] = pending[g] /\ running'[g] = running[g] /\ SameView(table, job', g)
  <2> HIDE DEF queue
  <2> QED BY <1>2, <1>3, <1>10, TurnTypes, PumpTurn
<1>12. ASSUME NEW g \in Host, g # h
       PROVE  pending'[g] = pending[g] /\ running'[g] = running[g] /\ SameView(job, job', g)
  BY <1>9, <1>11, <1>12 DEF SameView
<1>13. \A g \in Host : TurnOf(job', pending'[g], g)
  BY <1>11, <1>12, TurnTypes, SameTurn
<1>14. job' \in Seq(ScanJob) /\ Len(job') = id
  <2>1. job' \in Seq(ScanJob)
    BY <1>1 DEF RegistryIInv, IInv, Coherent
  <2>2. Len(job') \in Nat /\ DOMAIN job' = 1 .. Len(job') /\ DOMAIN table = 1 .. Len(table)
    BY <1>4, <2>1, LenProperties
  <2> QED BY <1>2, <1>4, <1>11, <2>1, <2>2
<1>15. TurnIInv'
  BY <1>1, <1>2, <1>13, <1>14, TurnTypes DEF TurnIInv
<1>16. \A g \in Host : Seen(g)'
  BY <1>13, <1>14, SeenAfter
<1>17. TQ(h)!Next
  <2>1. id \notin Waiting(job, h) \cup Begun(job, h)
    BY <1>4 DEF Waiting, Begun
  <2>2. Pumped(h, queue, running[h], Begun(job, h))
    BY <1>7, <1>11
  <2>3. Ended(job', h) = Ended(job, h) /\ \A ok \in BOOLEAN : EndedAs(job', h, ok) = EndedAs(job, h, ok)
    BY <1>8, <1>11
  <2>4. Freed(job', h) = Freed(job, h)
    BY <1>7, <1>11
  <2> QED BY <1>2, <1>16, <2>1, <2>2, <2>3, <2>4, TurnTypes, QueueSubmits
<1>18. \A g \in Host : g # h => UNCHANGED TQ(g)!vars
  BY <1>12, <1>16, TurnTypes, QueueRests
<1> QED BY <1>15, <1>17, <1>18 DEF HostsStep

\* What happens to a job after its slot is free is none of the queue's business.
LEMMA AfterwardsTurn ==
  ASSUME TurnIInv, NEW j \in DOMAIN job, Conclude(j) \/ Cleanup(j)
  PROVE  TurnIInv' /\ HostsStep
<1>1. RegistryIInv'
  BY AdvanceRegistry, CleanupRegistry DEF TurnIInv
<1>2. /\ DOMAIN job' = DOMAIN job
      /\ \A i \in DOMAIN job : i # j => job'[i] = job[i]
      /\ job'[j].host = job[j].host /\ job'[j].ok = job[j].ok
      /\ job[j].stage \in {"released", "concluded"} /\ job'[j].stage \in {"concluded", "cleaned"}
      /\ UNCHANGED <<pending, running>>
  <2>1. CASE Conclude(j)
    BY <2>1, TurnTypes DEF Conclude, ScanJob
  <2>2. CASE Cleanup(j)
    BY <2>2, TurnTypes DEF Cleanup, ScanJob
  <2> QED BY <2>1, <2>2
<1>3. ASSUME NEW g \in Host PROVE SameView(job, job', g)
  <2>1. /\ Waiting(job', g) = Waiting(job, g) /\ Begun(job', g) = Begun(job, g)
        /\ Freed(job', g) = Freed(job, g)
    BY <1>2 DEF Waiting, Begun, Freed
  <2>2. Ended(job', g) = Ended(job, g)
    BY <1>2 DEF Ended
  <2>3. \A i \in Ended(job, g) : job'[i].ok = job[i].ok
    BY <1>2 DEF Ended
  <2>4. \A ok \in BOOLEAN : EndedAs(job', g, ok) = EndedAs(job, g, ok)
    BY <2>2, <2>3 DEF EndedAs
  <2> QED BY <2>1, <2>2, <2>4 DEF SameView
<1> QED BY <1>1, <1>2, <1>3, RestTurn

LEMMA NextTurn == TurnIInv /\ [Next]_vars => TurnIInv' /\ HostsStep
<1> SUFFICES ASSUME TurnIInv, [Next]_vars PROVE TurnIInv' /\ HostsStep
  OBVIOUS
<1>1. RegistryIInv'
  BY NextRegistry DEF TurnIInv
<1>2. CASE UNCHANGED <<job, pending, running>>
  <2>1. \A g \in Host : SameView(job, job', g)
    BY <1>2 DEF SameView
  <2> QED BY <1>1, <1>2, <2>1, RestTurn
<1>3. ASSUME NEW h \in Host, NEW v \in Volume, Join(h, v) \/ RefuseSaturated(h, v)
      PROVE  TurnIInv' /\ HostsStep
  BY <1>2, <1>3 DEF Join, RefuseSaturated, vars
<1>4. CASE UNCHANGED vars
  BY <1>2, <1>4 DEF vars
<1> QED
  BY <1>3, <1>4, CreateTurn, CompleteTurn, ReleaseTurn, AfterwardsTurn DEF Next, Enqueue

LEMMA InitTurn == Init => TurnIInv /\ \A h \in Host : TQ(h)!Init
<1> SUFFICES ASSUME Init PROVE TurnIInv /\ \A h \in Host : TQ(h)!Init
  OBVIOUS
<1>1. job = <<>> /\ DOMAIN job = {} /\ Len(job) = 0 /\ job \in Seq(ScanJob)
  BY EmptySeq DEF Init
<1>2. \A h \in Host : pending[h] = <<>> /\ running[h] = 0
  BY DEF Init
<1>3. \A h : Waiting(job, h) = {} /\ Begun(job, h) = {} /\ Ended(job, h) = {} /\ Freed(job, h) = {}
  BY <1>1 DEF Waiting, Begun, Ended, Freed
<1>4. IsOrderOf(<<>>, {})
  <2>1. Cardinality({}) = 0
    BY FS_EmptySet
  <2>2. <<>> \in [1 .. 0 -> {}] /\ DOMAIN <<>> = {}
    BY EmptySeq
  <2>3. ToSet(<<>>) = {}
    BY <2>2 DEF ToSet
  <2> QED BY <2>1, <2>2, <2>3 DEF IsOrderOf
<1>5. IsOrderOf(InOrder({}), {})
  BY <1>4 DEF InOrder, IsOrderOf
<1>6. InOrder({}) = <<>>
  BY <1>4, <1>5, OneOrder, FS_EmptySet
<1>7. InTurn({}, {}, <<>>)
  BY <1>4 DEF InTurn, IsOrderOf
<1>8. \A h \in Host : TurnOf(job, pending[h], h)
  BY <1>2, <1>3, <1>5, <1>7 DEF TurnOf
<1>9. TurnIInv
  BY <1>1, <1>8, InitRegistry, ScanQueueOptions DEF TurnIInv
<1>10. ASSUME NEW h \in Host PROVE TQ(h)!Init
  <2>1. Seen(h)
    BY <1>9, TurnTypes
  <2>2. SettledOf(h) = {} /\ StartedOf(h) = <<>>
    BY <1>3, <1>6, <2>1 DEF Seen
  <2>3. /\ {j \in SettledOf(h) : job[j].ok} = {} /\ {j \in SettledOf(h) : ~ job[j].ok} = {}
        /\ {j \in SettledOf(h) : job[j].stage # "completed"} = {}
    BY <2>2
  <2>4. /\ Cardinality({j \in SettledOf(h) : job[j].ok}) = 0
        /\ Cardinality({j \in SettledOf(h) : ~ job[j].ok}) = 0
    BY <2>3, FS_EmptySet
  <2> QED BY <1>2, <2>2, <2>3, <2>4 DEF TQ!Init
<1> QED BY <1>9, <1>10

(* Each host's part of the registry starts as a TaskQueue does and moves   *)
(* as one: whatever step is taken, the queue of every host takes a submit, *)
(* a settling or a release of its own, or rests.                           *)
THEOREM HostsHaveTheirQueues == Safety => EveryHostHasItsQueue
<1>1. TurnIInv /\ [Next]_vars => [HostsStep]_vars
  BY NextTurn
<1>2. [HostsStep]_vars => [\A h \in Host : [TQ(h)!Next]_(TQ(h)!vars)]_vars
  BY DEF HostsStep
<1>3. TurnIInv /\ [Next]_vars => TurnIInv'
  BY NextTurn
<1> QED BY <1>1, <1>2, <1>3, InitTurn, PTL DEF Safety, EveryHostHasItsQueue
=============================================================================
