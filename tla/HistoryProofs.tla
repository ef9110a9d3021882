---------------------------- MODULE HistoryProofs ----------------------------
(***************************************************************************)
(* Proofs about History, for every sequence of enabled hosts, every finite *)
(* set of volumes, any number of rounds of either kind at one time and all *)
(* values of the limits.                                                   *)
(***************************************************************************)
EXTENDS History, TLAPS, FiniteSetTheorems, SequenceTheorems

(***************************************************************************)
(* The inductive invariant.  It says of every round that is under way what *)
(* its unfinished work may rely on later:                                  *)
(*   a scan it counts as measured has a size no older than the round       *)
(*   a listing of containers it still holds is not from the future, and    *)
(*   names only volumes the host has                                       *)
(* and of the store that known[h][v] is the newest row there is, for a     *)
(* sweep keeps just the newest: a row that was newer than the one known    *)
(* would make it sweep the known one away.                                 *)
(***************************************************************************)
ScanWork == [stage : {"scanning", "settled"}, waits : SUBSET Volume, measured : SUBSET Volume]
ReadWork == [stage : {"read"}, at : Nat, used : SUBSET Volume]
WorkItem == {NoWork, Listing, Settled} \cup ScanWork \cup ReadWork

RoundRecord == [running : BOOLEAN, since : Nat, left : Seq(Host), work : [Host -> WorkItem]]

Row == [host : Host, volume : Volume, at : Nat]
LedgerRow == [first : Nat, last : Nat, attached : Nat \cup {None}]

\* Someone works on h in this round.
Busy(work) == {h \in Host : work[h].stage # "out"}

WorkOK(w, h, since, time, newest) ==
    /\ w \in ScanWork => \A v \in w.measured : newest[h][v] # None /\ newest[h][v] >= since
    /\ w \in ReadWork => w.at <= time /\ w.used \subseteq Listed(h)

RoundOK(r, time, newest) ==
    /\ r \in RoundRecord
    /\ r.since <= time
    /\ \A h \in Host : WorkOK(r.work[h], h, r.since, time, newest)
    /\ Cardinality(Busy(r.work)) <= SweepConcurrency

RoundsOK ==
    /\ DOMAIN round = Round
    /\ \A n \in Round : RoundOK(round[n], now, known)

FlagIsTheRound ==
    /\ snapshotRunning \in BOOLEAN
    /\ \A n \in SnapshotRound : round[n].running => snapshotRunning
    /\ \A m, n \in SnapshotRound : round[m].running /\ round[n].running => m = n
    /\ snapshotRunning => \E n \in SnapshotRound : round[n].running

Outside ==
    /\ now \in Time /\ serving \in BOOLEAN
    /\ answers \in [Host -> {"yes", "no", "never"}]
    /\ inUse \subseteq Mount /\ inUse \subseteq Host \X Volume

Queues ==
    /\ live \in [Host -> SUBSET Volume]
    /\ \A h \in Host : Cardinality(live[h]) <= QueueRoom

SizesOK ==
    /\ known \in [Host -> [Volume -> Nat \cup {None}]]
    /\ measured \subseteq Row
    /\ \A r \in measured : known[r.host][r.volume] # None /\ r.at <= known[r.host][r.volume]
    /\ \A h \in Host, v \in Volume : known[h][v] # None =>
          /\ known[h][v] <= now
          /\ [host |-> h, volume |-> v, at |-> known[h][v]] \in measured

\* A row's times are in order, and its marker is not older than a listing
\* that was written.
LedgerRowOK(row, seen) ==
    /\ row # None =>
          /\ row \in LedgerRow
          /\ row.first <= row.last /\ row.last <= now
          /\ row.attached # None => row.first <= row.attached /\ row.attached <= row.last
    /\ seen # None => seen \in Nat /\ row # None /\ row.attached # None /\ seen <= row.attached

LedgerOK ==
    /\ sighted \in [Host -> [Volume -> {None} \cup LedgerRow]]
    /\ evidence \in [Host -> [Volume -> {None} \cup Nat]]
    /\ \A h \in Host, v \in Volume : LedgerRowOK(sighted[h][v], evidence[h][v])

IInv == Outside /\ RoundsOK /\ FlagIsTheRound /\ Queues /\ SizesOK /\ LedgerOK

-----------------------------------------------------------------------------
(* Work items and rounds.                                                  *)

LEMMA Shapes ==
  ASSUME NEW w \in WorkItem
  PROVE  /\ w.stage = "scanning" => w \in ScanWork
         /\ w.stage = "read" => w \in ReadWork
         /\ "measured" \in DOMAIN w => w \in ScanWork
BY DEF WorkItem, ScanWork, ReadWork, NoWork, Listing, Settled

\* Work that has brought nothing yet, or nothing at all.
LEMMA PlainWork ==
  ASSUME NEW w \in {NoWork, Listing, Settled}
  PROVE  /\ w \in WorkItem
         /\ \A h, since, time, newest : WorkOK(w, h, since, time, newest)
<1>1. w \notin ScanWork /\ w \notin ReadWork
  BY DEF ScanWork, ReadWork, NoWork, Listing, Settled
<1> QED BY <1>1 DEF WorkOK, WorkItem

\* Time passes and sizes get newer: what a round relies on stays true.
LEMMA RoundAges ==
  ASSUME NEW r, NEW time \in Nat, NEW later \in Nat, time <= later,
         NEW newest, NEW newer,
         newest \in [Host -> [Volume -> Nat \cup {None}]],
         newer \in [Host -> [Volume -> Nat \cup {None}]],
         \A h \in Host, v \in Volume :
             newest[h][v] # None => newer[h][v] # None /\ newest[h][v] <= newer[h][v],
         RoundOK(r, time, newest)
  PROVE  RoundOK(r, later, newer)
<1>1. r.since \in Nat /\ r.since <= later /\ r.work \in [Host -> WorkItem]
  BY DEF RoundOK, RoundRecord
<1>2. ASSUME NEW h \in Host PROVE WorkOK(r.work[h], h, r.since, later, newer)
  <2> DEFINE w == r.work[h]
  <2>1. WorkOK(w, h, r.since, time, newest)
    BY DEF RoundOK
  <2> HIDE DEF w
  <2>2. ASSUME w \in ScanWork, NEW v \in w.measured
        PROVE  newer[h][v] # None /\ newer[h][v] >= r.since
    <3>1. v \in Volume
      BY <2>2 DEF ScanWork
    <3>2. newest[h][v] # None /\ newest[h][v] >= r.since
      BY <2>1, <2>2 DEF WorkOK
    <3>3. newest[h][v] \in Nat /\ newer[h][v] # None /\ newest[h][v] <= newer[h][v]
          /\ newer[h][v] \in Nat
      BY <3>1, <3>2
    <3> QED BY <1>1, <3>2, <3>3
  <2>3. ASSUME w \in ReadWork PROVE w.at <= later /\ w.used \subseteq Listed(h)
    <3>1. w.at \in Nat /\ w.at <= time /\ w.used \subseteq Listed(h)
      BY <2>1, <2>3 DEF WorkOK, ReadWork
    <3> QED BY <3>1
  <2> QED BY <2>2, <2>3 DEF WorkOK, w
<1> QED BY <1>1, <1>2 DEF RoundOK

\* One host of the batch gets on with its work.
LEMMA WorkReplaced ==
  ASSUME NEW r, NEW time, NEW newest, RoundOK(r, time, newest),
         NEW h \in Host, r.work[h].stage # "out",
         NEW w \in WorkItem, w.stage # "out", WorkOK(w, h, r.since, time, newest)
  PROVE  /\ RoundOK([r EXCEPT !.work[h] = w], time, newest)
         /\ [r EXCEPT !.work[h] = w].running = r.running
<1> DEFINE s == [r EXCEPT !.work[h] = w]
           work == [r.work EXCEPT ![h] = w]
<1>1. r \in RoundRecord /\ r.work \in [Host -> WorkItem]
  BY DEF RoundOK, RoundRecord
<1>2. /\ work \in [Host -> WorkItem] /\ work[h] = w
      /\ \A g \in Host : g # h => work[g] = r.work[g]
  BY <1>1
<1>3. s \in RoundRecord /\ s.work = work /\ s.since = r.since /\ s.running = r.running
  BY <1>1, <1>2 DEF RoundRecord
<1> HIDE DEF s, work
<1>4. \A g \in Host : WorkOK(s.work[g], g, s.since, time, newest)
  BY <1>2, <1>3 DEF RoundOK
<1>5. Busy(s.work) = Busy(r.work)
  BY <1>2, <1>3 DEF Busy
<1> QED BY <1>3, <1>4, <1>5 DEF RoundOK, s

\* The first hosts of a sequence, no more than n of them.
LEMMA FewFirst ==
  ASSUME NEW S, NEW q \in Seq(S), NEW n \in Nat, n <= Len(q)
  PROVE  /\ IsFiniteSet(ToSet(SubSeq(q, 1, n)))
         /\ Cardinality(ToSet(SubSeq(q, 1, n))) <= n
         /\ ToSet(SubSeq(q, 1, n)) \subseteq S
         /\ SubSeq(q, n + 1, Len(q)) \in Seq(S)
<1> DEFINE s == SubSeq(q, 1, n)
<1>1. Len(q) \in Nat /\ DOMAIN q = 1 .. Len(q) /\ \A i \in 1 .. Len(q) : q[i] \in S
  BY LenProperties, ElementOfSeq
<1>2. s \in Seq(S) /\ Len(s) = n
  BY <1>1, SubSeqProperties
<1>3. SubSeq(q, n + 1, Len(q)) \in Seq(S)
  <2>1. n + 1 \in Int /\ Len(q) \in Int /\ \A i \in n + 1 .. Len(q) : q[i] \in S
    BY <1>1
  <2> QED BY <2>1, SubSeqProperties
<1> HIDE DEF s
<1>4. s \in [1 .. n -> S]
  BY <1>2, LenProperties
<1>5. ToSet(s) = {s[i] : i \in 1 .. n} /\ ToSet(s) \subseteq S
  BY <1>4 DEF ToSet
<1>6. s \in Surjection(1 .. n, ToSet(s))
  BY <1>4, <1>5 DEF Surjection
<1>7. IsFiniteSet(1 .. n) /\ Cardinality(1 .. n) = n
  BY FS_Interval
<1>8. IsFiniteSet(ToSet(s)) /\ Cardinality(ToSet(s)) <= n
  BY <1>6, <1>7, FS_Surjection
<1> QED BY <1>3, <1>5, <1>8 DEF s

LEMMA BatchFits ==
  ASSUME NEW left \in Seq(Host)
  PROVE  LET b == NextBatch(left, Listing)
         IN  /\ b.left \in Seq(Host)
             /\ b.work \in [Host -> {NoWork, Listing}]
             /\ Cardinality(Busy(b.work)) <= SweepConcurrency
<1> DEFINE size == IF Len(left) < SweepConcurrency THEN Len(left) ELSE SweepConcurrency
           batch == ToSet(SubSeq(left, 1, size))
           b == NextBatch(left, Listing)
<1>1. size \in Nat /\ size <= Len(left) /\ size <= SweepConcurrency /\ SweepConcurrency \in Nat
  BY LenProperties, HistoryOptions
<1>2. /\ b.left = SubSeq(left, size + 1, Len(left))
      /\ b.work = [h \in Host |-> IF h \in batch THEN Listing ELSE NoWork]
  BY DEF NextBatch
<1> HIDE DEF size, b
<1>3. /\ IsFiniteSet(batch) /\ Cardinality(batch) <= size /\ batch \subseteq Host
      /\ SubSeq(left, size + 1, Len(left)) \in Seq(Host)
  BY <1>1, FewFirst
<1> HIDE DEF batch
<1>4. Busy(b.work) = batch
  BY <1>2, <1>3 DEF Busy, NoWork, Listing
<1>5. Cardinality(batch) \in Nat
  BY <1>3, FS_CardinalityType
<1> QED BY <1>1, <1>2, <1>3, <1>4, <1>5 DEF b

\* A round with a new batch at work.
LEMMA NewBatchOK ==
  ASSUME NEW r \in RoundRecord, NEW left \in Seq(Host),
         r.left = NextBatch(left, Listing).left, r.work = NextBatch(left, Listing).work,
         NEW time, r.since <= time
  PROVE  \A newest : RoundOK(r, time, newest)
<1>1. /\ r.work \in [Host -> {NoWork, Listing}]
      /\ Cardinality(Busy(r.work)) <= SweepConcurrency
  BY BatchFits
<1>2. \A h \in Host : \A newest : WorkOK(r.work[h], h, r.since, time, newest)
  BY <1>1, PlainWork
<1> QED BY <1>1, <1>2 DEF RoundOK

\* A round that is over has nothing at work.
LEMMA IdleOK ==
  /\ Idle \in RoundRecord /\ ~ Idle.running
  /\ \A time \in Nat : \A newest : RoundOK(Idle, time, newest)
<1>1. /\ Idle.work = [h \in Host |-> NoWork] /\ Idle.since = 0 /\ ~ Idle.running
      /\ Idle.left = <<>> /\ Idle.running = FALSE
  BY DEF Idle
<1>2. Idle \in RoundRecord
  <2>1. NoWork \in WorkItem /\ <<>> \in Seq(Host)
    BY EmptySeq DEF WorkItem
  <2>2. [h \in Host |-> NoWork] \in [Host -> WorkItem]
    BY <2>1
  <2> QED BY <2>1, <2>2 DEF Idle, RoundRecord
<1>3. Cardinality(Busy(Idle.work)) <= SweepConcurrency
  <2>1. Busy(Idle.work) = {}
    BY <1>1 DEF Busy, NoWork
  <2> QED BY <2>1, FS_EmptySet, HistoryOptions
<1>4. \A h \in Host : \A time, newest : WorkOK(Idle.work[h], h, Idle.since, time, newest)
  BY <1>1, PlainWork
<1> QED BY <1>1, <1>2, <1>3, <1>4 DEF RoundOK

-----------------------------------------------------------------------------
(* What the steps of a round have in common.                               *)

LEMMA FlagKept ==
  ASSUME FlagIsTheRound, snapshotRunning' = snapshotRunning,
         \A m \in SnapshotRound : round'[m].running = round[m].running
  PROVE  FlagIsTheRound'
BY DEF FlagIsTheRound

\* One round is replaced, its successor being sound and still running.
LEMMA RoundStep ==
  ASSUME RoundsOK, FlagIsTheRound, NEW n \in Round, NEW r,
         RoundOK(r, now, known), r.running = round[n].running,
         round' = [round EXCEPT ![n] = r],
         now' = now, known' = known, snapshotRunning' = snapshotRunning
  PROVE  RoundsOK' /\ FlagIsTheRound'
<1>1. DOMAIN round' = Round /\ round'[n] = r /\ \A m \in Round : m # n => round'[m] = round[m]
  BY DEF RoundsOK
<1>2. \A m \in Round : RoundOK(round'[m], now, known) /\ round'[m].running = round[m].running
  BY <1>1 DEF RoundsOK
<1>3. RoundsOK'
  BY <1>1, <1>2 DEF RoundsOK
<1>4. FlagIsTheRound'
  BY <1>2, FlagKept DEF Round
<1> QED BY <1>3, <1>4

\* A host of the batch gets on with its work.
LEMMA WorkStep ==
  ASSUME RoundsOK, FlagIsTheRound, NEW n \in Round, NEW h \in Host,
         round[n].work[h].stage # "out",
         NEW w \in WorkItem, w.stage # "out",
         WorkOK(w, h, round[n].since, now, known),
         round' = [round EXCEPT ![n].work[h] = w],
         now' = now, known' = known, snapshotRunning' = snapshotRunning
  PROVE  RoundsOK' /\ FlagIsTheRound'
<1> DEFINE r == [round[n] EXCEPT !.work[h] = w]
<1>1. RoundOK(round[n], now, known)
  BY DEF RoundsOK
<1>2. RoundOK(r, now, known) /\ r.running = round[n].running
  BY <1>1, WorkReplaced
<1>3. round' = [round EXCEPT ![n] = r]
  BY DEF RoundsOK
<1> HIDE DEF r
<1> QED BY <1>2, <1>3, RoundStep

LEMMA TakeNextBatchKeeps ==
  ASSUME IInv, NEW n \in Round, TakeNextBatch(n)
  PROVE  IInv'
<1> DEFINE b == NextBatch(round[n].left, Listing)
           r == [round[n] EXCEPT !.left = b.left, !.work = b.work]
<1>1. RoundOK(round[n], now, known) /\ round[n] \in RoundRecord /\ round[n].left \in Seq(Host)
  BY DEF IInv, RoundsOK, RoundOK, RoundRecord
<1>2. b.left \in Seq(Host) /\ b.work \in [Host -> WorkItem]
  <2>1. b.work \in [Host -> {NoWork, Listing}]
    BY <1>1, BatchFits
  <2> QED BY <1>1, <2>1, BatchFits, PlainWork
<1> HIDE DEF b
<1>3. r \in RoundRecord /\ r.left = b.left /\ r.work = b.work
      /\ r.since = round[n].since /\ r.running = round[n].running
  BY <1>1, <1>2 DEF RoundRecord
<1>4. round' = [round EXCEPT ![n] = r] /\ UNCHANGED <<now, serving, world, snapshotRunning, live, store, ghosts>>
  BY DEF TakeNextBatch, IInv, RoundsOK, b
<1> HIDE DEF r
<1>5. RoundOK(r, now, known)
  <2>1. r.since <= now
    BY <1>1, <1>3 DEF RoundOK
  <2> QED BY <1>1, <1>3, <2>1, NewBatchOK DEF b
<1>6. RoundsOK' /\ FlagIsTheRound'
  BY <1>3, <1>4, <1>5, RoundStep DEF IInv, ghosts
<1> QED BY <1>4, <1>6 DEF IInv, Outside, Queues, SizesOK, LedgerOK, LedgerRowOK, world, store, ghosts

\* The start of a round, up to the flag.
LEMMA StartedOK ==
  ASSUME IInv, NEW n \in Round, Started(n), now' = now, known' = known
  PROVE  /\ RoundsOK'
         /\ round'[n].running
         /\ \A m \in Round : m # n => round'[m] = round[m]
<1> DEFINE b == NextBatch(Hosts, Listing)
           r == [running |-> TRUE, since |-> now, left |-> b.left, work |-> b.work]
<1>1. Hosts \in Seq(Host) /\ now \in Nat
  BY HostsAndVolumes, HistoryOptions DEF Host, IInv, Outside, Time
<1>2. b.left \in Seq(Host) /\ b.work \in [Host -> WorkItem]
  <2>1. b.work \in [Host -> {NoWork, Listing}]
    BY <1>1, BatchFits
  <2> QED BY <1>1, <2>1, BatchFits, PlainWork
<1> HIDE DEF b
<1>3. r \in RoundRecord /\ r.left = b.left /\ r.work = b.work /\ r.since = now /\ r.running
  BY <1>1, <1>2 DEF RoundRecord
<1>4. round' = [round EXCEPT ![n] = r]
  BY DEF Started, b
<1> HIDE DEF r
<1>5. RoundOK(r, now, known)
  <2>1. r.since <= now
    BY <1>1, <1>3
  <2> QED BY <1>1, <1>3, <2>1, NewBatchOK DEF b
<1>6. DOMAIN round' = Round /\ round'[n] = r /\ \A m \in Round : m # n => round'[m] = round[m]
  BY <1>4 DEF IInv, RoundsOK
<1> QED BY <1>3, <1>5, <1>6 DEF IInv, RoundsOK

LEMMA StartSnapshotKeeps ==
  ASSUME IInv, NEW n \in SnapshotRound, StartSnapshot(n)
  PROVE  IInv'
<1>1. n \in Round /\ UNCHANGED <<now, serving, world, live, store, ghosts>>
  BY DEF StartSnapshot, Round
<1>2. RoundsOK' /\ round'[n].running /\ \A m \in Round : m # n => round'[m] = round[m]
  BY <1>1, StartedOK DEF StartSnapshot, ghosts
<1>3. ~ snapshotRunning /\ snapshotRunning' = TRUE /\ FlagIsTheRound
  BY DEF StartSnapshot, IInv
<1>4. \A m \in SnapshotRound : m # n => ~ round'[m].running
  BY <1>2, <1>3 DEF FlagIsTheRound, Round
<1>5. FlagIsTheRound'
  BY <1>2, <1>3, <1>4 DEF FlagIsTheRound
<1> QED BY <1>1, <1>2, <1>5 DEF IInv, Outside, Queues, SizesOK, LedgerOK, LedgerRowOK, world, store, ghosts

LEMMA StartSightingsKeeps ==
  ASSUME IInv, NEW n \in LedgerRound, StartSightings(n)
  PROVE  IInv'
<1>1. n \in Round /\ n \notin SnapshotRound /\ SnapshotRound \subseteq Round
      /\ UNCHANGED <<now, serving, world, snapshotRunning, live, store, ghosts>>
  BY HistoryOptions DEF StartSightings, Round
<1>2. RoundsOK' /\ \A m \in Round : m # n => round'[m] = round[m]
  BY <1>1, StartedOK DEF StartSightings, ghosts
<1>3. FlagIsTheRound'
  BY <1>1, <1>2, FlagKept DEF IInv
<1> QED BY <1>1, <1>2, <1>3 DEF IInv, Outside, Queues, SizesOK, LedgerOK, LedgerRowOK, world, store, ghosts

\* A round leaves and is idle again.
LEMMA FinishedOK ==
  ASSUME IInv, NEW n \in Round, round' = [round EXCEPT ![n] = Idle], now' = now, known' = known
  PROVE  /\ RoundsOK'
         /\ ~ round'[n].running
         /\ \A m \in Round : m # n => round'[m] = round[m]
<1>1. RoundOK(Idle, now, known)
  BY IdleOK, HistoryOptions DEF IInv, Outside, Time
<1>2. DOMAIN round' = Round /\ round'[n] = Idle /\ \A m \in Round : m # n => round'[m] = round[m]
  BY DEF IInv, RoundsOK
<1> QED BY <1>1, <1>2, IdleOK DEF IInv, RoundsOK

\* The sweep only takes rows that are not the newest of their volume.
LEMMA SweepKeeps ==
  ASSUME SizesOK, NEW cutoff, measured' = Pruned(cutoff), known' = known, now' = now
  PROVE  SizesOK'
<1>1. measured' \subseteq measured
  BY DEF Pruned
<1>2. ASSUME NEW h \in Host, NEW v \in Volume, known[h][v] # None
      PROVE  [host |-> h, volume |-> v, at |-> known[h][v]] \in measured'
  <2> DEFINE r == [host |-> h, volume |-> v, at |-> known[h][v]]
  <2>1. r \in measured
    BY <1>2 DEF SizesOK
  <2>2. ASSUME NEW peer \in measured, peer.host = r.host, peer.volume = r.volume
        PROVE  peer.at <= r.at
    BY <2>2 DEF SizesOK
  <2>3. Newest(r)
    BY <2>2 DEF Newest
  <2> HIDE DEF r
  <2>4. r \in Pruned(cutoff)
    BY <2>1, <2>3 DEF Pruned
  <2> QED BY <2>4 DEF r
<1> QED BY <1>1, <1>2 DEF SizesOK

LEMMA FinishSnapshotKeeps ==
  ASSUME IInv, NEW n \in SnapshotRound, FinishSnapshot(n)
  PROVE  IInv'
<1>1. n \in Round /\ round' = [round EXCEPT ![n] = Idle] /\ snapshotRunning' = FALSE
      /\ round[n].running
      /\ UNCHANGED <<now, serving, world, live, sighted, ghosts>>
  BY DEF FinishSnapshot, AllHostsDone, BatchOver, Round
<1>2. RoundsOK' /\ ~ round'[n].running /\ \A m \in Round : m # n => round'[m] = round[m]
  BY <1>1, FinishedOK DEF ghosts
<1>3. FlagIsTheRound'
  <2>1. \A m \in SnapshotRound : m # n => ~ round[m].running
    BY <1>1 DEF IInv, FlagIsTheRound
  <2>2. \A m \in SnapshotRound : ~ round'[m].running
    BY <1>2, <2>1 DEF Round
  <2> QED BY <1>1, <2>2 DEF FlagIsTheRound
<1>4. SizesOK'
  <2>1. CASE measured' = measured
    BY <1>1, <2>1 DEF IInv, SizesOK, ghosts
  <2>2. CASE measured' = Pruned(now - Retention)
    BY <1>1, <2>2, SweepKeeps DEF IInv, ghosts
  <2> QED BY <2>1, <2>2 DEF FinishSnapshot
<1> QED BY <1>1, <1>2, <1>3, <1>4 DEF IInv, Outside, Queues, LedgerOK, LedgerRowOK, world, ghosts

LEMMA FinishSightingsKeeps ==
  ASSUME IInv, NEW n \in LedgerRound, FinishSightings(n)
  PROVE  IInv'
<1>1. n \in Round /\ n \notin SnapshotRound /\ SnapshotRound \subseteq Round
      /\ round' = [round EXCEPT ![n] = Idle]
      /\ UNCHANGED <<now, serving, world, snapshotRunning, live, store, ghosts>>
  BY HistoryOptions DEF FinishSightings, Round
<1>2. RoundsOK' /\ \A m \in Round : m # n => round'[m] = round[m]
  BY <1>1, FinishedOK DEF ghosts
<1>3. FlagIsTheRound'
  BY <1>1, <1>2, FlagKept DEF IInv
<1> QED BY <1>1, <1>2, <1>3 DEF IInv, Outside, Queues, SizesOK, LedgerOK, LedgerRowOK, world, store, ghosts

-----------------------------------------------------------------------------
(* The steps of a host's work.                                             *)

LEMMA WorkOf ==
  ASSUME IInv, NEW n \in Round, NEW h \in Host
  PROVE  round[n].work[h] \in WorkItem /\ WorkOK(round[n].work[h], h, round[n].since, now, known)
BY DEF IInv, RoundsOK, RoundOK, RoundRecord

LEMMA FailHostKeeps ==
  ASSUME IInv, NEW n \in Round, NEW h \in Host, FailHost(n, h)
  PROVE  IInv'
<1>1. /\ round[n].work[h].stage # "out"
      /\ round' = [round EXCEPT ![n].work[h] = Settled]
      /\ UNCHANGED <<now, serving, world, snapshotRunning, live, store, ghosts>>
  BY DEF FailHost
<1>2. Settled \in WorkItem /\ Settled.stage # "out"
      /\ WorkOK(Settled, h, round[n].since, now, known)
  <2>1. Settled.stage # "out"
    BY DEF Settled
  <2> QED BY <2>1, PlainWork
<1>3. RoundsOK' /\ FlagIsTheRound'
  BY <1>1, <1>2, WorkStep DEF IInv, ghosts
<1> QED BY <1>1, <1>3 DEF IInv, Outside, Queues, SizesOK, LedgerOK, LedgerRowOK, world, store, ghosts

\* What is admitted to a host's queue has room there.
LEMMA AdmittedFits ==
  ASSUME Queues, NEW h \in Host, NEW new \in SUBSET Volume, NEW a \in Admitted(h, new)
  PROVE  live[h] \cup a \in SUBSET Volume /\ Cardinality(live[h] \cup a) <= QueueRoom
<1> DEFINE q == live[h]
<1>1. q \in SUBSET Volume /\ a \in SUBSET Volume /\ Cardinality(q) <= QueueRoom
      /\ QueueRoom \in Nat
  BY HistoryOptions DEF Queues, Admitted
<1>2. Cardinality(a) <= QueueRoom - Cardinality(q)
  <2>1. Cardinality(a) \in Nat /\ Cardinality(q) \in Nat
    BY <1>1, HostsAndVolumes, FS_Subset, FS_CardinalityType
  <2>2. Cardinality(a) <= QueueRoom - Cardinality(q) \/ Cardinality(a) = QueueRoom - Cardinality(q)
    BY DEF Admitted
  <2> HIDE DEF q
  <2> QED BY <1>1, <2>1, <2>2
<1> HIDE DEF q
<1>3. IsFiniteSet(q) /\ IsFiniteSet(a) /\ Cardinality(a) \in Nat /\ Cardinality(q) \in Nat
  BY <1>1, HostsAndVolumes, FS_Subset, FS_CardinalityType
<1>4. Cardinality(q \cap a) \in Nat
  BY <1>3, FS_Intersection, FS_CardinalityType
<1>5. Cardinality(q \cup a) = Cardinality(q) + Cardinality(a) - Cardinality(q \cap a)
  BY <1>3, FS_Union
<1>6. Cardinality(q \cup a) <= QueueRoom
  BY <1>1, <1>2, <1>3, <1>4, <1>5
<1> QED BY <1>1, <1>6 DEF q

LEMMA SubmitAllKeeps ==
  ASSUME IInv, NEW n \in Round, NEW h \in Host, SubmitAll(n, h)
  PROVE  IInv'
<1>1. PICK admitted \in Admitted(h, Listed(h) \ live[h]) :
        /\ live' = [live EXCEPT ![h] = @ \cup admitted]
        /\ round' = [round EXCEPT ![n].work[h] =
              [stage |-> "scanning", waits |-> (live[h] \cup admitted) \cap Listed(h), measured |-> {}]]
  BY DEF SubmitAll
<1> DEFINE w == [stage |-> "scanning", waits |-> (live[h] \cup admitted) \cap Listed(h), measured |-> {}]
<1>2. /\ round[n].work[h].stage # "out"
      /\ UNCHANGED <<now, serving, world, snapshotRunning, store, ghosts>>
  BY DEF SubmitAll
<1>3. Listed(h) \ live[h] \in SUBSET Volume /\ Listed(h) \subseteq Volume
  BY DEF Listed
<1>4. live[h] \cup admitted \in SUBSET Volume /\ Cardinality(live[h] \cup admitted) <= QueueRoom
  BY <1>3, AdmittedFits DEF IInv
<1>5. w \in ScanWork /\ w.stage = "scanning" /\ w.measured = {}
  BY <1>3 DEF ScanWork
<1>6. round' = [round EXCEPT ![n].work[h] = w]
  BY <1>1
<1> HIDE DEF w
<1>7. w \in WorkItem /\ w.stage # "out" /\ WorkOK(w, h, round[n].since, now, known)
  BY <1>5 DEF WorkItem, WorkOK, ScanWork, ReadWork
<1>8. RoundsOK' /\ FlagIsTheRound'
  BY <1>2, <1>6, <1>7, WorkStep DEF IInv, ghosts
<1>9. Queues'
  BY <1>1, <1>4 DEF IInv, Queues
<1> QED BY <1>2, <1>8, <1>9 DEF IInv, Outside, SizesOK, LedgerOK, LedgerRowOK, world, store, ghosts

LEMMA SettleHostKeeps ==
  ASSUME IInv, NEW n \in Round, NEW h \in Host, SettleHost(n, h)
  PROVE  IInv'
<1> DEFINE old == round[n].work[h]
           w == [old EXCEPT !.stage = "settled"]
<1>1. old.stage = "scanning"
      /\ round' = [round EXCEPT ![n].work[h].stage = "settled"]
      /\ UNCHANGED <<now, serving, world, snapshotRunning, live, store, ghosts>>
  BY DEF SettleHost
<1>2. old \in ScanWork /\ WorkOK(old, h, round[n].since, now, known)
  BY <1>1, WorkOf, Shapes
<1>3. round' = [round EXCEPT ![n].work[h] = w]
  BY <1>1
<1> HIDE DEF old
<1>4. w \in ScanWork /\ w.measured = old.measured /\ w.stage = "settled"
  BY <1>2 DEF ScanWork
<1> HIDE DEF w
<1>5. w \in WorkItem /\ w.stage # "out" /\ WorkOK(w, h, round[n].since, now, known)
  BY <1>2, <1>4 DEF WorkItem, WorkOK, ReadWork
<1>6. RoundsOK' /\ FlagIsTheRound'
  BY <1>1, <1>3, <1>5, WorkStep DEF IInv, ghosts, old
<1> QED BY <1>1, <1>6 DEF IInv, Outside, Queues, SizesOK, LedgerOK, LedgerRowOK, world, store, ghosts

LEMMA ReadConsumersKeeps ==
  ASSUME IInv, NEW n \in Round, NEW h \in Host, ReadConsumers(n, h)
  PROVE  IInv'
<1> DEFINE w == [stage |-> "read", at |-> now, used |-> {v \in Volume : <<h, v>> \in inUse}]
<1>1. /\ round[n].work[h].stage # "out"
      /\ round' = [round EXCEPT ![n].work[h] = w]
      /\ UNCHANGED <<now, serving, world, snapshotRunning, live, store, ghosts>>
  BY DEF ReadConsumers
<1>2. now \in Nat /\ inUse \subseteq Mount
  BY HistoryOptions DEF IInv, Outside, Time
<1>3. w \in ReadWork /\ w.stage = "read" /\ w.at <= now /\ w.used \subseteq Listed(h)
  BY <1>2, HostsAndVolumes DEF ReadWork, Listed
<1> HIDE DEF w
<1>4. w \in WorkItem /\ w.stage # "out" /\ WorkOK(w, h, round[n].since, now, known)
  BY <1>3 DEF WorkItem, WorkOK, ScanWork
<1>5. RoundsOK' /\ FlagIsTheRound'
  BY <1>1, <1>4, WorkStep DEF IInv, ghosts
<1> QED BY <1>1, <1>5 DEF IInv, Outside, Queues, SizesOK, LedgerOK, LedgerRowOK, world, store, ghosts

\* One upsert keeps a row's times in order and its marker covers the listing.
LEMMA ObserveKeeps ==
  ASSUME NEW row \in {None} \cup LedgerRow, NEW seen \in {None} \cup Nat, LedgerRowOK(row, seen),
         now \in Nat, NEW attached \in BOOLEAN, NEW at \in Nat, at <= now
  PROVE  /\ Observe(row, attached, at) \in LedgerRow
         /\ LedgerRowOK(Observe(row, attached, at), IF attached THEN Later(seen, at) ELSE seen)
<1> DEFINE new == Observe(row, attached, at)
<1>1. /\ new.first = (IF row = None THEN now ELSE row.first)
      /\ new.last = now
      /\ new.attached = (IF attached THEN now ELSE IF row = None THEN None ELSE row.attached)
      /\ new = [first |-> new.first, last |-> new.last, attached |-> new.attached]
  BY DEF Observe, Sighting
<1> HIDE DEF new
<1>2. row # None => /\ row.first \in Nat /\ row.last \in Nat /\ row.attached \in Nat \cup {None}
                    /\ row.first <= row.last /\ row.last <= now
                    /\ row.attached # None => row.first <= row.attached /\ row.attached <= row.last
  BY DEF LedgerRow, LedgerRowOK
<1>3. None \notin Nat
  BY HistoryOptions
<1>4. new.first \in Nat /\ new.last \in Nat /\ new.attached \in Nat \cup {None}
  BY <1>1, <1>2
<1>5. new \in LedgerRow
  BY <1>1, <1>4 DEF LedgerRow
<1>6. new.first <= new.last /\ new.last <= now
  BY <1>1, <1>2
<1>7. new.attached # None => new.first <= new.attached /\ new.attached <= new.last
  BY <1>1, <1>2, <1>4
<1>8. new # None
  BY <1>5, HistoryOptions DEF LedgerRow
<1> DEFINE newer == IF attached THEN Later(seen, at) ELSE seen
<1>9. ASSUME newer # None PROVE newer \in Nat /\ new.attached # None /\ newer <= new.attached
  <2>1. seen # None => /\ seen \in Nat /\ row # None /\ row.attached # None
                       /\ seen <= row.attached
    BY DEF LedgerRowOK
  <2>2. CASE attached
    <3>1. newer = (IF seen = None \/ seen < at THEN at ELSE seen) /\ new.attached = now
      BY <1>1, <2>2 DEF Later
    <3>2. seen # None => seen \in Nat /\ seen <= now
      BY <1>2, <2>1
    <3> HIDE DEF newer
    <3> QED BY <1>3, <3>1, <3>2
  <2>3. CASE ~ attached
    <3>1. newer = seen /\ seen # None
      BY <1>9, <2>3
    <3>2. new.attached = row.attached
      BY <1>1, <2>1, <2>3, <3>1
    <3> QED BY <2>1, <3>1, <3>2
  <2> QED BY <2>2, <2>3
<1> HIDE DEF newer
<1>10. LedgerRowOK(new, newer)
  BY <1>5, <1>6, <1>7, <1>8, <1>9 DEF LedgerRowOK
<1> QED BY <1>5, <1>10 DEF new, newer

LEMMA WriteLedgerKeeps ==
  ASSUME IInv, NEW n \in Round, NEW h \in Host, WriteLedger(n, h)
  PROVE  IInv'
<1> DEFINE w == round[n].work[h]
           rows == [v \in Volume |->
                      IF v \in Listed(h) THEN Observe(sighted[h][v], v \in w.used, w.at) ELSE sighted[h][v]]
           seen == [v \in Volume |->
                      IF v \in w.used THEN Later(evidence[h][v], w.at) ELSE evidence[h][v]]
<1>1. /\ w.stage = "read"
      /\ sighted' = [sighted EXCEPT ![h] = rows]
      /\ evidence' = [evidence EXCEPT ![h] = seen]
      /\ round' = [round EXCEPT ![n].work[h] = Settled]
      /\ UNCHANGED <<now, serving, world, snapshotRunning, live, measured, known>>
  BY DEF WriteLedger
<1>2. w \in ReadWork /\ w.at \in Nat /\ w.at <= now /\ w.used \subseteq Listed(h)
  <2>1. w \in ReadWork /\ WorkOK(w, h, round[n].since, now, known)
    BY <1>1, WorkOf, Shapes
  <2> HIDE DEF w
  <2> QED BY <2>1 DEF WorkOK, ReadWork
<1>3. /\ now \in Nat
      /\ sighted \in [Host -> [Volume -> {None} \cup LedgerRow]]
      /\ evidence \in [Host -> [Volume -> {None} \cup Nat]]
      /\ \A g \in Host, v \in Volume : LedgerRowOK(sighted[g][v], evidence[g][v])
  BY HistoryOptions DEF IInv, Outside, Time, LedgerOK
<1>4. ASSUME NEW v \in Volume
      PROVE  rows[v] \in {None} \cup LedgerRow /\ seen[v] \in {None} \cup Nat
             /\ LedgerRowOK(rows[v], seen[v])
  <2> DEFINE row == sighted[h][v]
             old == evidence[h][v]
  <2>1. row \in {None} \cup LedgerRow /\ old \in {None} \cup Nat /\ LedgerRowOK(row, old)
    BY <1>3
  <2>2. CASE v \in Listed(h)
    <3>1. PICK attached \in BOOLEAN : attached <=> v \in w.used
      BY v \in w.used \/ v \notin w.used
    <3>2. rows[v] = Observe(row, attached, w.at) /\ seen[v] = IF attached THEN Later(old, w.at) ELSE old
      BY <2>2, <3>1 DEF Observe, Sighting
    <3>3. seen[v] \in {None} \cup Nat
      <4> HIDE DEF seen, old, w
      <4> QED BY <1>2, <2>1, <3>2 DEF Later
    <3> HIDE DEF rows, seen, row, old, w
    <3> QED BY <1>2, <1>3, <2>1, <3>2, <3>3, ObserveKeeps
  <2>3. CASE v \notin Listed(h)
    <3>1. rows[v] = row /\ seen[v] = old
      BY <1>2, <2>3
    <3> HIDE DEF rows, seen, row, old, w
    <3> QED BY <2>1, <3>1
  <2> QED BY <2>2, <2>3
<1>5. rows \in [Volume -> {None} \cup LedgerRow] /\ seen \in [Volume -> {None} \cup Nat]
  BY <1>4
<1> HIDE DEF rows, seen
<1>6. LedgerOK'
  BY <1>1, <1>3, <1>4, <1>5 DEF LedgerOK, LedgerRowOK
<1>7. RoundsOK' /\ FlagIsTheRound'
  <2>1. Settled \in WorkItem /\ Settled.stage # "out" /\ w.stage # "out"
        /\ WorkOK(Settled, h, round[n].since, now, known)
    <3>1. Settled.stage # "out"
      BY DEF Settled
    <3> QED BY <1>1, <3>1, PlainWork
  <2> QED BY <1>1, <2>1, WorkStep DEF IInv
<1> QED BY <1>1, <1>6, <1>7 DEF IInv, Outside, Queues, SizesOK, world

-----------------------------------------------------------------------------
(* Scans.                                                                  *)

AfterHearing(r, h, v, done) ==
    [r EXCEPT !.work[h] = [r.work[h] EXCEPT !.waits = @ \ {v}, !.measured = @ \cup done]]

\* Whoever waited for the scan of v hears of it; what counts as measured has
\* a size that is recent enough.
LEMMA HeardOne ==
  ASSUME NEW r, NEW time, NEW newest, RoundOK(r, time, newest),
         NEW h \in Host, NEW v \in Volume, NEW done \in SUBSET {v},
         done # {} => newest[h][v] # None /\ newest[h][v] >= r.since,
         r.work[h].stage = "scanning"
  PROVE  /\ RoundOK(AfterHearing(r, h, v, done), time, newest)
         /\ AfterHearing(r, h, v, done).running = r.running
<1> DEFINE old == r.work[h]
           w == [old EXCEPT !.waits = @ \ {v}, !.measured = @ \cup done]
<1>1. old \in WorkItem /\ WorkOK(old, h, r.since, time, newest)
  BY DEF RoundOK, RoundRecord
<1>2. old \in ScanWork
  BY <1>1, Shapes
<1>3. \A u \in old.measured : newest[h][u] # None /\ newest[h][u] >= r.since
  BY <1>1, <1>2 DEF WorkOK
<1> HIDE DEF old
<1>4. w \in ScanWork /\ w.stage = old.stage /\ w.measured = old.measured \cup done
  BY <1>2 DEF ScanWork
<1> HIDE DEF w
<1>5. w \in WorkItem /\ WorkOK(w, h, r.since, time, newest)
  BY <1>3, <1>4 DEF WorkItem, WorkOK, ScanWork, ReadWork
<1>6. w.stage # "out" /\ r.work[h].stage # "out"
  BY <1>4 DEF old
<1>7. RoundOK([r EXCEPT !.work[h] = w], time, newest) /\ [r EXCEPT !.work[h] = w].running = r.running
  BY <1>5, <1>6, WorkReplaced
<1> QED BY <1>7 DEF w, old, AfterHearing

LEMMA HeardOK ==
  ASSUME NEW h \in Host, NEW v \in Volume, NEW done \in SUBSET {v}, Heard(h, v, done),
         FlagIsTheRound, snapshotRunning' = snapshotRunning,
         NEW newest, known' = newest, NEW time, now' = time,
         \A n \in Round : RoundOK(round[n], time, newest),
         done # {} => newest[h][v] # None /\ \A n \in Round : newest[h][v] >= round[n].since
  PROVE  RoundsOK' /\ FlagIsTheRound'
<1>1. DOMAIN round' = Round
  BY DEF Heard
<1>2. ASSUME NEW n \in Round
      PROVE  RoundOK(round'[n], time, newest) /\ round'[n].running = round[n].running
  <2>0. PICK r : r = round[n]
    OBVIOUS
  <2> DEFINE s == AfterHearing(r, h, v, done)
  <2>1. CASE r.work[h].stage = "scanning" /\ v \in r.work[h].waits
    <3>1. round'[n] = s
      BY <2>0, <2>1 DEF Heard, AfterHearing
    <3>2. RoundOK(s, time, newest) /\ s.running = r.running
      <4>1. RoundOK(r, time, newest)
        BY <2>0
      <4>2. done # {} => newest[h][v] # None /\ newest[h][v] >= r.since
        BY <2>0
      <4> QED BY <2>1, <4>1, <4>2, HeardOne
    <3> QED BY <2>0, <3>1, <3>2
  <2>2. CASE ~ (r.work[h].stage = "scanning" /\ v \in r.work[h].waits)
    BY <2>0, <2>2 DEF Heard
  <2> QED BY <2>1, <2>2
<1>3. FlagIsTheRound'
  BY <1>2, FlagKept DEF Round
<1> QED BY <1>1, <1>2, <1>3 DEF RoundsOK

\* A scan leaves the queue.
LEMMA OneScanLess ==
  ASSUME Queues, NEW h \in Host, NEW v, live' = [live EXCEPT ![h] = @ \ {v}]
  PROVE  Queues'
<1> DEFINE q == live[h]
<1>1. q \in SUBSET Volume /\ Cardinality(q) <= QueueRoom /\ QueueRoom \in Nat
  BY HistoryOptions DEF Queues
<1> HIDE DEF q
<1>2. IsFiniteSet(q) /\ q \ {v} \in SUBSET q
  BY <1>1, HostsAndVolumes, FS_Subset
<1>3. Cardinality(q \ {v}) <= Cardinality(q) /\ Cardinality(q \ {v}) \in Nat /\ Cardinality(q) \in Nat
  BY <1>2, FS_Subset, FS_CardinalityType
<1>4. Cardinality(q \ {v}) <= QueueRoom
  BY <1>1, <1>3
<1>5. live' \in [Host -> SUBSET Volume] /\ live'[h] = q \ {v}
      /\ \A g \in Host : g # h => live'[g] = live[g]
  BY <1>1 DEF Queues, q
<1> QED BY <1>4, <1>5 DEF Queues

LEMMA MeasureKeeps ==
  ASSUME IInv, NEW h \in Host, NEW v \in Volume, Measure(h, v)
  PROVE  IInv'
<1> DEFINE newest == [known EXCEPT ![h][v] = now]
           row == [host |-> h, volume |-> v, at |-> now]
<1>1. /\ live' = [live EXCEPT ![h] = @ \ {v}]
      /\ measured' = measured \cup {row} /\ known' = newest
      /\ Heard(h, v, {v})
      /\ UNCHANGED <<now, serving, world, snapshotRunning, sighted, evidence>>
  BY DEF Measure
<1>2. now \in Nat /\ known \in [Host -> [Volume -> Nat \cup {None}]] /\ None \notin Nat
  BY HistoryOptions DEF IInv, Outside, Time, SizesOK
<1>3. /\ newest \in [Host -> [Volume -> Nat \cup {None}]]
      /\ newest[h][v] = now
      /\ \A g \in Host, u \in Volume : ~ (g = h /\ u = v) => newest[g][u] = known[g][u]
  BY <1>2
<1>4. row \in Row /\ row.host = h /\ row.volume = v /\ row.at = now
  BY <1>2 DEF Row
<1> HIDE DEF newest, row
<1>5. \A g \in Host, u \in Volume : known[g][u] # None =>
          newest[g][u] # None /\ known[g][u] <= newest[g][u]
  <2>1. known[h][v] # None => known[h][v] <= now
    BY DEF IInv, SizesOK
  <2>2. \A g \in Host, u \in Volume : known[g][u] # None => known[g][u] \in Nat
    BY <1>2
  <2> QED BY <1>2, <1>3, <2>1, <2>2
<1>6. \A n \in Round : RoundOK(round[n], now, newest)
  <2>1. now <= now
    BY <1>2
  <2> QED BY <1>2, <1>3, <1>5, <2>1, RoundAges DEF IInv, RoundsOK
<1>7. RoundsOK' /\ FlagIsTheRound'
  <2>1. \A n \in Round : newest[h][v] >= round[n].since
    BY <1>2, <1>3 DEF IInv, RoundsOK, RoundOK, RoundRecord
  <2>2. newest[h][v] # None
    BY <1>2, <1>3
  <2>3. PICK time : time = now
    OBVIOUS
  <2>4. PICK sizes : sizes = newest
    OBVIOUS
  <2> QED BY <1>1, <1>6, <2>1, <2>2, <2>3, <2>4, HeardOK DEF IInv
<1>8. SizesOK'
  <2>1. measured' \subseteq Row
    BY <1>1, <1>4 DEF IInv, SizesOK
  <2>2. ASSUME NEW r \in measured'
        PROVE  newest[r.host][r.volume] # None /\ r.at <= newest[r.host][r.volume]
    <3>1. CASE r = row
      BY <1>2, <1>3, <1>4, <3>1
    <3>2. CASE r \in measured
      <4>1. r.host \in Host /\ r.volume \in Volume /\ r.at \in Nat
        BY <3>2 DEF IInv, SizesOK, Row
      <4>2. known[r.host][r.volume] # None /\ r.at <= known[r.host][r.volume]
        BY <3>2 DEF IInv, SizesOK
      <4>3. known[r.host][r.volume] \in Nat /\ newest[r.host][r.volume] \in Nat \cup {None}
        BY <1>2, <1>3, <4>1, <4>2
      <4>4. newest[r.host][r.volume] # None /\ known[r.host][r.volume] <= newest[r.host][r.volume]
        BY <1>5, <4>1, <4>2
      <4> QED BY <4>1, <4>2, <4>3, <4>4
    <3> QED BY <1>1, <3>1, <3>2
  <2>3. ASSUME NEW g \in Host, NEW u \in Volume, newest[g][u] # None
        PROVE  newest[g][u] <= now /\ [host |-> g, volume |-> u, at |-> newest[g][u]] \in measured'
    <3>1. CASE g = h /\ u = v
      BY <1>1, <1>2, <1>3, <3>1 DEF row
    <3>2. CASE ~ (g = h /\ u = v)
      BY <1>1, <1>3, <2>3, <3>2 DEF IInv, SizesOK
    <3> QED BY <3>1, <3>2
  <2> QED BY <1>1, <1>3, <2>1, <2>2, <2>3 DEF SizesOK
<1>9. Queues'
  BY <1>1, OneScanLess DEF IInv
<1> QED BY <1>1, <1>7, <1>8, <1>9 DEF IInv, Outside, LedgerOK, LedgerRowOK, world

LEMMA FailScanKeeps ==
  ASSUME IInv, NEW h \in Host, NEW v \in Volume, FailScan(h, v)
  PROVE  IInv'
<1>1. /\ live' = [live EXCEPT ![h] = @ \ {v}]
      /\ Heard(h, v, {})
      /\ UNCHANGED <<now, serving, world, snapshotRunning, store, ghosts>>
  BY DEF FailScan
<1>2. RoundsOK' /\ FlagIsTheRound'
  <2>1. PICK time : time = now
    OBVIOUS
  <2>2. PICK sizes : sizes = known
    OBVIOUS
  <2>3. {} \in SUBSET {v}
    OBVIOUS
  <2> QED BY <1>1, <2>1, <2>2, <2>3, HeardOK DEF IInv, RoundsOK, ghosts
<1>3. Queues'
  BY <1>1, OneScanLess DEF IInv
<1> QED BY <1>1, <1>2, <1>3 DEF IInv, Outside, SizesOK, LedgerOK, LedgerRowOK, world, store, ghosts

LEMMA AskKeeps ==
  ASSUME IInv, NEW h \in Host, NEW v \in Volume, Ask(h, v)
  PROVE  IInv'
<1> DEFINE q == live[h]
<1>1. /\ live' = [live EXCEPT ![h] = q \cup {v}] /\ Cardinality(q) < QueueRoom
      /\ UNCHANGED <<now, serving, world, snapshotRunning, round, store, ghosts>>
  BY DEF Ask
<1>2. live \in [Host -> SUBSET Volume] /\ q \in SUBSET Volume /\ QueueRoom \in Nat
  BY HistoryOptions DEF IInv, Queues
<1> HIDE DEF q
<1>3. Cardinality(q \cup {v}) <= QueueRoom
  <2>1. IsFiniteSet(q) /\ Cardinality(q) \in Nat
    BY <1>2, HostsAndVolumes, FS_Subset, FS_CardinalityType
  <2>2. Cardinality(q \cup {v}) = IF v \in q THEN Cardinality(q) ELSE Cardinality(q) + 1
    BY <2>1, FS_AddElement
  <2> QED BY <1>1, <1>2, <2>1, <2>2
<1>4. live' \in [Host -> SUBSET Volume] /\ live'[h] = q \cup {v}
      /\ \A g \in Host : g # h => live'[g] = live[g]
  BY <1>1, <1>2
<1>5. Queues'
  BY <1>3, <1>4 DEF IInv, Queues
<1> QED BY <1>1, <1>5
  DEF IInv, Outside, RoundsOK, FlagIsTheRound, SizesOK, LedgerOK, LedgerRowOK, world, store, ghosts

-----------------------------------------------------------------------------
(* The clock, the world, the process.                                      *)

LEMMA TickKeeps ==
  ASSUME IInv, Tick
  PROVE  IInv'
<1>1. now' = now + 1 /\ now < MaxNow /\ UNCHANGED <<serving, world, snapshotRunning, round, live, store, ghosts>>
  BY DEF Tick
<1>2. now \in Nat /\ now' \in Nat /\ now <= now' /\ now' \in Time
      /\ known \in [Host -> [Volume -> Nat \cup {None}]]
  BY <1>1, HistoryOptions DEF IInv, Outside, Time, SizesOK
<1>3. RoundsOK'
  <2>1. ASSUME NEW n \in Round PROVE RoundOK(round[n], now', known)
    <3>1. RoundOK(round[n], now, known)
      BY DEF IInv, RoundsOK
    <3>2. \A h \in Host, v \in Volume : known[h][v] # None => known[h][v] \in Nat /\ known[h][v] <= known[h][v]
      BY <1>2
    <3> QED BY <1>2, <3>1, <3>2, RoundAges
  <2> QED BY <1>1, <2>1 DEF IInv, RoundsOK, ghosts
<1>4. SizesOK'
  <2>1. \A h \in Host, v \in Volume : known[h][v] # None => known[h][v] <= now'
    <3> SUFFICES ASSUME NEW h \in Host, NEW v \in Volume, known[h][v] # None
                 PROVE  known[h][v] <= now'
      OBVIOUS
    <3>1. known[h][v] \in Nat /\ known[h][v] <= now
      BY <1>2 DEF IInv, SizesOK
    <3> QED BY <1>2, <3>1
  <2> QED BY <1>1, <2>1 DEF IInv, SizesOK, store, ghosts
<1>5. LedgerOK'
  <2>1. ASSUME NEW h \in Host, NEW v \in Volume
        PROVE  LedgerRowOK(sighted[h][v], evidence[h][v])'
    <3>1. LedgerRowOK(sighted[h][v], evidence[h][v])
      BY DEF IInv, LedgerOK
    <3> QED BY <1>1, <1>2, <3>1 DEF LedgerRowOK, LedgerRow, store, ghosts
  <2> QED BY <1>1, <2>1 DEF IInv, LedgerOK, store, ghosts
<1> QED BY <1>1, <1>2, <1>3, <1>4, <1>5 DEF IInv, Outside, FlagIsTheRound, Queues, world

LEMMA AttachKeeps ==
  ASSUME IInv, NEW h \in Host, NEW v \in Volume, Attach(h, v)
  PROVE  IInv'
<1>1. /\ <<h, v>> \in Mount /\ inUse' \subseteq inUse \cup {<<h, v>>}
      /\ UNCHANGED <<now, serving, kind, answers, snapshotRunning, round, live, store, ghosts>>
  BY DEF Attach
<1>2. Outside'
  BY <1>1 DEF IInv, Outside
<1> QED BY <1>1, <1>2
  DEF IInv, RoundsOK, FlagIsTheRound, Queues, SizesOK, LedgerOK, LedgerRowOK, store, ghosts

LEMMA StopKeeps ==
  ASSUME IInv, Stop
  PROVE  IInv'
BY DEF Stop, IInv, Outside, RoundsOK, FlagIsTheRound, Queues, SizesOK, LedgerOK, LedgerRowOK, world, store, ghosts

LEMMA RestartKeeps ==
  ASSUME IInv, Restart
  PROVE  IInv'
<1>1. /\ serving' = TRUE /\ snapshotRunning' = FALSE
      /\ round' = [n \in Round |-> Idle] /\ live' = [h \in Host |-> {}]
      /\ UNCHANGED <<now, world, store, ghosts>>
  BY DEF Restart
<1>2. RoundsOK' /\ FlagIsTheRound'
  <2>1. \A n \in Round : round'[n] = Idle
    BY <1>1
  <2>2. RoundOK(Idle, now, known)
    BY IdleOK, HistoryOptions DEF IInv, Outside, Time
  <2>3. RoundsOK'
    BY <1>1, <2>1, <2>2 DEF RoundsOK, ghosts
  <2> QED BY <1>1, <2>1, <2>3, IdleOK DEF FlagIsTheRound, Round
<1>3. Queues'
  BY <1>1, FS_EmptySet, HistoryOptions DEF Queues
<1> QED BY <1>1, <1>2, <1>3 DEF IInv, Outside, SizesOK, LedgerOK, LedgerRowOK, world, store, ghosts

LEMMA NextIInv == IInv /\ [Next]_vars => IInv'
<1> SUFFICES ASSUME IInv, [Next]_vars PROVE IInv'
  OBVIOUS
<1>1. CASE Tick \/ Stop \/ Restart
  BY <1>1, TickKeeps, StopKeeps, RestartKeeps
<1>2. ASSUME NEW h \in Host, NEW v \in Volume, Attach(h, v) \/ Ask(h, v) \/ Scan(h, v) PROVE IInv'
  BY <1>2, AttachKeeps, AskKeeps, MeasureKeeps, FailScanKeeps DEF Scan
<1>3. ASSUME NEW n \in SnapshotRound, StartSnapshot(n) \/ SnapshotStep(n) PROVE IInv'
  <2>1. n \in Round
    BY DEF Round
  <2> QED BY <1>3, <2>1, StartSnapshotKeeps, TakeNextBatchKeeps, FinishSnapshotKeeps, FailHostKeeps,
             SubmitAllKeeps, SettleHostKeeps DEF SnapshotStep
<1>4. ASSUME NEW n \in LedgerRound, StartSightings(n) \/ LedgerStep(n) PROVE IInv'
  <2>1. n \in Round
    BY DEF Round
  <2> QED BY <1>4, <2>1, StartSightingsKeeps, TakeNextBatchKeeps, FinishSightingsKeeps, FailHostKeeps,
             ReadConsumersKeeps, WriteLedgerKeeps DEF LedgerStep
<1>5. CASE UNCHANGED vars
  BY <1>5 DEF vars, IInv, Outside, RoundsOK, FlagIsTheRound, Queues, SizesOK, LedgerOK, LedgerRowOK,
              world, store, ghosts
<1> QED BY <1>1, <1>2, <1>3, <1>4, <1>5 DEF Next

LEMMA InitIInv == Init => IInv
<1> SUFFICES ASSUME Init PROVE IInv
  OBVIOUS
<1>1. now = 0 /\ 0 \in Time /\ None \notin Nat
  BY HistoryOptions DEF Init, Time
<1>2. Outside
  BY <1>1 DEF Init, Outside
<1>3. RoundsOK /\ FlagIsTheRound
  <2>1. DOMAIN round = Round /\ (\A n \in Round : round[n] = Idle) /\ snapshotRunning = FALSE
    BY DEF Init
  <2>2. RoundOK(Idle, now, known)
    BY <1>1, IdleOK
  <2> QED BY <2>1, <2>2, IdleOK DEF RoundsOK, FlagIsTheRound, Round
<1>4. Queues
  BY FS_EmptySet, HistoryOptions DEF Init, Queues
<1>5. SizesOK
  BY DEF Init, SizesOK
<1>6. LedgerOK
  BY DEF Init, LedgerOK, LedgerRowOK
<1> QED BY <1>2, <1>3, <1>4, <1>5, <1>6 DEF IInv

(* The inductive invariant holds throughout. *)
THEOREM Inductive == Spec => []IInv
BY InitIInv, NextIInv, PTL DEF Spec

-----------------------------------------------------------------------------
(* The running rounds are counted by the flag, queues stay within their    *)
(* limit, no sweep takes the newest size of a volume, and what a snapshot  *)
(* round counts as measured is no older than the round.                    *)
THEOREM HistoryInvariant == Spec => []HistoryInv
<1>1. IInv => TypeOK
  <2> SUFFICES ASSUME IInv PROVE TypeOK
    OBVIOUS
  <2>1. now \in Time /\ Time = 0 .. MaxNow /\ MaxNow \in Nat
    BY HistoryOptions DEF IInv, Outside, Time
  <2>2. \A t \in Nat : t <= now => t \in Time
    BY <2>1
  <2>3. {serving, snapshotRunning} \subseteq BOOLEAN /\ answers \in [Host -> {"yes", "no", "never"}]
        /\ inUse \subseteq Host \X Volume /\ live \in [Host -> SUBSET Volume]
    BY DEF IInv, Outside, FlagIsTheRound, Queues
  <2>4. \A n \in Round : round[n].running \in BOOLEAN /\ round[n].since \in Time
    BY <2>2 DEF IInv, RoundsOK, RoundOK, RoundRecord
  <2>5. measured \subseteq [host : Host, volume : Volume, at : Time]
    <3>1. ASSUME NEW r \in measured PROVE r \in Row /\ r.at \in Time
      <4>1. r \in Row /\ r.host \in Host /\ r.volume \in Volume /\ r.at \in Nat
        BY DEF IInv, SizesOK, Row
      <4>2. known[r.host][r.volume] # None /\ r.at <= known[r.host][r.volume]
            /\ known[r.host][r.volume] <= now
        BY <4>1 DEF IInv, SizesOK
      <4>3. known[r.host][r.volume] \in Nat
        BY <4>1, <4>2 DEF IInv, SizesOK
      <4> QED BY <2>1, <2>2, <4>1, <4>2, <4>3
    <3> QED BY <3>1 DEF Row
  <2>6. sighted \in [Host -> [Volume -> {None} \cup
            [first : Time, last : Time, attached : Time \cup {None}]]]
    <3>1. ASSUME NEW h \in Host, NEW v \in Volume, sighted[h][v] # None
          PROVE  sighted[h][v] \in [first : Time, last : Time, attached : Time \cup {None}]
      <4> DEFINE row == sighted[h][v]
      <4>1. /\ row \in LedgerRow
            /\ row.first <= row.last /\ row.last <= now
            /\ row.attached # None => row.first <= row.attached /\ row.attached <= row.last
        BY <3>1 DEF IInv, LedgerOK, LedgerRowOK
      <4> HIDE DEF row
      <4>2. row.first \in Nat /\ row.last \in Nat /\ row.attached \in Nat \cup {None}
        BY <4>1 DEF LedgerRow
      <4>3. row.first \in Time /\ row.last \in Time /\ row.attached \in Time \cup {None}
        BY <2>1, <2>2, <4>1, <4>2
      <4> QED BY <4>1, <4>3 DEF LedgerRow, row
    <3>2. sighted \in [Host -> [Volume -> {None} \cup LedgerRow]]
      BY DEF IInv, LedgerOK
    <3> QED BY <3>1, <3>2
  <2> QED BY <2>1, <2>3, <2>4, <2>5, <2>6 DEF TypeOK
<1>2. IInv => OneSnapshot
  <2> SUFFICES ASSUME IInv PROVE OneSnapshot
    OBVIOUS
  <2> DEFINE running == {n \in SnapshotRound : round[n].running}
  <2>1. CASE snapshotRunning
    <3>1. PICK n \in SnapshotRound : round[n].running
      BY <2>1 DEF IInv, FlagIsTheRound
    <3>2. running = {n}
      BY <3>1 DEF IInv, FlagIsTheRound
    <3> QED BY <2>1, <3>2, FS_Singleton DEF IInv, RoundsOK, RoundOK, Busy, OneSnapshot
  <2>2. CASE ~ snapshotRunning
    <3>1. running = {}
      BY <2>2 DEF IInv, FlagIsTheRound
    <3> QED BY <2>2, <3>1, FS_EmptySet DEF IInv, RoundsOK, RoundOK, Busy, OneSnapshot
  <2> QED BY <2>1, <2>2
<1>3. IInv => QueueBounded
  BY DEF IInv, Queues, QueueBounded
<1>4. IInv => LastSizeKept
  BY DEF IInv, SizesOK, LastSizeKept
<1>5. IInv => RoundLeavesFreshSizes
  <2> SUFFICES ASSUME IInv, NEW n \in SnapshotRound, NEW h \in Host,
                      "measured" \in DOMAIN round[n].work[h], NEW v \in round[n].work[h].measured
               PROVE  known[h][v] # None /\ known[h][v] >= round[n].since
    BY DEF RoundLeavesFreshSizes
  <2>1. n \in Round
    BY DEF Round
  <2> DEFINE w == round[n].work[h]
  <2>2. w \in ScanWork /\ WorkOK(w, h, round[n].since, now, known)
    BY <2>1, WorkOf, Shapes
  <2> HIDE DEF w
  <2> QED BY <2>2 DEF WorkOK, w
<1> QED BY <1>1, <1>2, <1>3, <1>4, <1>5, Inductive, PTL DEF HistoryInv

(* However many ledger rounds overlap, and in whatever order they write,   *)
(* a page never says that a volume has been idle for longer than the age   *)
(* of a written listing that found it in use.                              *)
THEOREM IdleTimes == Spec => []IdleNeverOverstated
<1>1. IInv => IdleNeverOverstated
  <2> SUFFICES ASSUME IInv, NEW h \in Host, NEW v \in Volume
               PROVE  LET row == sighted[h][v]
                          seen == evidence[h][v]
                      IN  /\ seen # None => row # None /\ Idleness(row) # None /\ Idleness(row) <= now - seen
                          /\ row # None =>
                                /\ row.first <= row.last /\ row.last <= now
                                /\ row.attached # None => row.first <= row.attached /\ row.attached <= row.last
    BY DEF IdleNeverOverstated
  <2> DEFINE row == sighted[h][v]
             seen == evidence[h][v]
  <2>1. LedgerRowOK(row, seen) /\ now \in Nat /\ None \notin Nat
    BY HistoryOptions DEF IInv, LedgerOK, Outside, Time
  <2> HIDE DEF row, seen
  <2>2. row # None => row.first <= row.last /\ row.last <= now
                      /\ (row.attached # None => row.first <= row.attached /\ row.attached <= row.last)
    BY <2>1 DEF LedgerRowOK
  <2>3. ASSUME seen # None PROVE row # None /\ Idleness(row) # None /\ Idleness(row) <= now - seen
    <3>1. seen \in Nat /\ row # None /\ row.attached # None /\ seen <= row.attached
          /\ row \in LedgerRow
      BY <2>1, <2>3 DEF LedgerRowOK
    <3>2. row.attached \in Nat /\ row.last \in Nat
      BY <3>1 DEF LedgerRow
    <3>3. row.attached <= now
      BY <2>1, <2>2, <3>1, <3>2
    <3>4. Idleness(row) = now - row.attached
      BY <3>1 DEF Idleness
    <3>5. now - row.attached \in Nat /\ now - row.attached <= now - seen
      BY <2>1, <3>1, <3>2, <3>3
    <3> QED BY <2>1, <3>1, <3>4, <3>5
  <2> QED BY <2>2, <2>3 DEF row, seen
<1> QED BY <1>1, Inductive, PTL

-----------------------------------------------------------------------------
(* The series of measurements.                                             *)

Item(r) == <<<<r.host, r.volume>>, r.at>>
Items(rows) == {Item(r) : r \in rows}

\* Dropping expired rows that are not the newest of their volume trims the
\* series: the newest one stays for each of them.
LEMMA SweepTrims ==
  ASSUME IInv, now >= Retention, measured' = Pruned(now - Retention), now' = now
  PROVE  Series!Trim
<1>1. measured' \subseteq measured /\ now \in Nat /\ Retention \in Nat
  BY HistoryOptions DEF Pruned, IInv, Outside, Time
<1>2. ASSUME NEW lost \in Items(measured) \ Items(measured')
      PROVE  /\ lost[2] + Retention < now
             /\ \E kept \in Items(measured') : kept[1] = lost[1] /\ lost[2] < kept[2]
  <2>1. PICK r \in measured : lost = Item(r)
    BY <1>2 DEF Items
  <2>2. PICK h, v, t : h = r.host /\ v = r.volume /\ t = r.at
    OBVIOUS
  <2>3. h \in Host /\ v \in Volume /\ t \in Nat
    BY <2>1, <2>2 DEF IInv, SizesOK, Row
  <2>4. PICK newest : newest = known[h][v]
    OBVIOUS
  <2>5. /\ newest \in Nat /\ newest # None
        /\ \A peer \in measured : peer.host = h /\ peer.volume = v => peer.at <= newest
        /\ [host |-> h, volume |-> v, at |-> newest] \in measured
    <3>1. newest # None
      BY <2>1, <2>2, <2>4 DEF IInv, SizesOK
    <3> QED BY <2>3, <2>4, <3>1 DEF IInv, SizesOK
  <2>6. PICK last : last = [host |-> h, volume |-> v, at |-> newest]
    OBVIOUS
  <2>7. last.host = h /\ last.volume = v /\ last.at = newest /\ last \in measured
    BY <2>5, <2>6
  <2>8. last \in measured'
    <3>1. Newest(last)
      BY <2>5, <2>7 DEF Newest
    <3> QED BY <2>7, <3>1 DEF Pruned
  <2>9. r \notin measured'
    BY <1>2, <2>1 DEF Items
  <2>10. t < now - Retention /\ \E peer \in measured : peer.host = h /\ peer.volume = v /\ t < peer.at
    <3>1. ~ (t >= now - Retention) /\ ~ Newest(r)
      BY <2>1, <2>2, <2>9 DEF Pruned
    <3>2. PICK peer \in measured : peer.host = h /\ peer.volume = v /\ ~ (peer.at <= t)
      BY <2>2, <3>1 DEF Newest
    <3>3. peer.at \in Nat
      BY DEF IInv, SizesOK, Row
    <3> QED BY <1>1, <2>3, <3>1, <3>2, <3>3
  <2>11. t < newest
    <3>1. PICK peer \in measured : peer.host = h /\ peer.volume = v /\ t < peer.at
      BY <2>10
    <3>2. peer.at \in Nat /\ peer.at <= newest
      BY <2>5, <3>1 DEF IInv, SizesOK, Row
    <3> QED BY <2>3, <2>5, <3>1, <3>2
  <2>12. Item(last) \in Items(measured') /\ Item(last) = <<<<h, v>>, newest>>
    BY <2>7, <2>8 DEF Items, Item
  <2>13. lost = <<<<h, v>>, t>>
    BY <2>1, <2>2 DEF Item
  <2>14. t + Retention < now
    BY <1>1, <2>3, <2>10
  <2> QED BY <2>11, <2>12, <2>13, <2>14
<1>3. Items(measured') \subseteq Items(measured)
  BY <1>1 DEF Items
<1> QED BY <1>2, <1>3 DEF Series!Trim, Series!Expired, Items, Item

LEMMA MeasureRecords ==
  ASSUME NEW h \in Host, NEW v \in Volume, Measure(h, v)
  PROVE  \E k \in Host \X Volume : Series!Record(k)
<1>1. measured' = measured \cup {[host |-> h, volume |-> v, at |-> now]} /\ now' = now
  BY DEF Measure
<1>2. Items(measured') = Items(measured) \cup {<<<<h, v>>, now>>}
  <2>1. PICK row : row = [host |-> h, volume |-> v, at |-> now]
    OBVIOUS
  <2>2. Item(row) = <<<<h, v>>, now>>
    BY <2>1 DEF Item
  <2>3. measured' = measured \cup {row}
    BY <1>1, <2>1
  <2> QED BY <2>2, <2>3 DEF Items
<1>3. Series!Record(<<h, v>>)
  BY <1>1, <1>2 DEF Series!Record, Items, Item
<1> QED BY <1>3

(* Rounds, refusals, failing sweeps and crashes taken away, the store is   *)
(* the abstract series of measurements: it is appended to with the present *)
(* time, and loses only what has left the retention, never a last size.    *)
THEOREM RefinesSeries == Spec => ImplementsSeries
<1>1. Init => Series!Init
  BY DEF Init, Series!Init
<1>2. IInv /\ [Next]_vars => [Series!Next]_(Series!seriesVars)
  <2> SUFFICES ASSUME IInv, [Next]_vars PROVE [Series!Next]_(Series!seriesVars)
    OBVIOUS
  <2> USE DEF Series!seriesVars
  <2>1. ASSUME now' = now, measured' = measured PROVE UNCHANGED Series!seriesVars
    BY <2>1
  <2>2. CASE Tick
    BY <2>2 DEF Tick, store, Series!Next, Series!Advance
  <2>3. CASE Stop \/ Restart
    BY <2>1, <2>3 DEF Stop, Restart, store
  <2>4. ASSUME NEW h \in Host, NEW v \in Volume, Attach(h, v) \/ Ask(h, v) \/ FailScan(h, v)
        PROVE  UNCHANGED Series!seriesVars
    BY <2>1, <2>4 DEF Attach, Ask, FailScan, store
  <2>5. ASSUME NEW h \in Host, NEW v \in Volume, Measure(h, v) PROVE Series!Next
    BY <2>5, MeasureRecords DEF Series!Next
  <2>6. ASSUME NEW n \in Round, NEW h \in Host,
               FailHost(n, h) \/ SubmitAll(n, h) \/ SettleHost(n, h) \/ ReadConsumers(n, h) \/ WriteLedger(n, h)
        PROVE  UNCHANGED Series!seriesVars
    BY <2>1, <2>6 DEF FailHost, SubmitAll, SettleHost, ReadConsumers, WriteLedger, store
  <2>7. ASSUME NEW n \in Round,
               StartSnapshot(n) \/ StartSightings(n) \/ TakeNextBatch(n) \/ FinishSightings(n)
        PROVE  UNCHANGED Series!seriesVars
    BY <2>1, <2>7 DEF StartSnapshot, StartSightings, TakeNextBatch, FinishSightings, store
  <2>8. ASSUME NEW n \in Round, FinishSnapshot(n)
        PROVE  Series!Trim \/ UNCHANGED Series!seriesVars
    BY <2>1, <2>8, SweepTrims DEF FinishSnapshot
  <2>9. CASE UNCHANGED vars
    BY <2>1, <2>9 DEF vars, store
  <2> QED BY <2>2, <2>3, <2>4, <2>5, <2>6, <2>7, <2>8, <2>9
          DEF Next, Scan, SnapshotStep, LedgerStep, Round, Series!Next
<1> QED BY <1>1, <1>2, Inductive, PTL DEF Spec, ImplementsSeries, Series!Spec
=============================================================================
