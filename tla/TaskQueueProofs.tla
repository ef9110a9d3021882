-------------------------- MODULE TaskQueueProofs ---------------------------
(***************************************************************************)
(* Proofs about TaskQueue for every set of tasks, every concurrency and    *)
(* every limit.                                                            *)
(***************************************************************************)
EXTENDS TaskQueue, TLAPS, FiniteSetTheorems, SequenceTheorems

-----------------------------------------------------------------------------
(* Facts about sequences the proofs use.                                   *)

\* Appending adds one element at the end and to the range.
LEMMA AppendFacts ==
  ASSUME NEW T, NEW s \in Seq(T), NEW e \in T
  PROVE  /\ Append(s, e) \in Seq(T)
         /\ Len(Append(s, e)) = Len(s) + 1
         /\ Append(s, e) # <<>>
         /\ Range(Append(s, e)) = Range(s) \cup {e}
<1>1. /\ Append(s, e) \in Seq(T)
      /\ Len(Append(s, e)) = Len(s) + 1
      /\ Append(s, e) # <<>>
  BY AppendProperties
<1>2. ASSUME NEW x
      PROVE  x \in Range(Append(s, e)) <=> x \in Range(s) \cup {e}
  <2>1. /\ DOMAIN Append(s, e) = 1 .. Len(s) + 1
        /\ DOMAIN s = 1 .. Len(s)
        /\ Len(s) \in Nat
    OBVIOUS
  <2>2. /\ \A i \in 1 .. Len(s) : Append(s, e)[i] = s[i]
        /\ Append(s, e)[Len(s) + 1] = e
    BY AppendProperties
  <2> QED BY <2>1, <2>2 DEF Range
<1> QED BY <1>1, <1>2

\* Taking the head off leaves a shorter sequence.
LEMMA TailFacts ==
  ASSUME NEW T, NEW s \in Seq(T), s # <<>>
  PROVE  /\ Head(s) \in T
         /\ Tail(s) \in Seq(T)
         /\ Len(Tail(s)) = Len(s) - 1
         /\ Len(s) \in Nat \ {0}
BY HeadTailProperties, EmptySeq

\* A sequence has no more elements than places.
LEMMA RangeCardinality ==
  ASSUME NEW T, NEW s \in Seq(T)
  PROVE  IsFiniteSet(Range(s)) /\ Cardinality(Range(s)) <= Len(s)
<1>1. Len(s) \in Nat /\ s \in [1 .. Len(s) -> T]
  BY LenProperties
<1>2. s \in Surjection(1 .. Len(s), Range(s))
  BY <1>1 DEF Surjection, Range
<1>3. IsFiniteSet(1 .. Len(s)) /\ Cardinality(1 .. Len(s)) = Len(s)
  BY <1>1, FS_Interval
<1> QED BY <1>2, <1>3, FS_Surjection

-----------------------------------------------------------------------------
(***************************************************************************)
(* The inductive invariant.  SlotsAccounted needs released to be finite    *)
(* before its cardinality means anything.  Bounded alone is not inductive: *)
(* a Release must know that running is not already 0 or above Concurrency, *)
(* which comes from SlotsAccounted, and a Submit that pumps must know that *)
(* it leaves the backlog empty, which is WorkConserving.                   *)
(***************************************************************************)
IInv ==
    /\ TypeOK
    /\ IsFiniteSet(settled)
    /\ SlotsAccounted
    /\ Bounded
    /\ WorkConserving

(* pump() conserves what its caller hands it: it moves at most the head of *)
(* the backlog into a slot, and stops only when it has to.                 *)
LEMMA PumpConserves ==
  ASSUME TypeOK,
         NEW queue \in Seq(Task), NEW busy \in Nat,
         busy <= Concurrency,
         Pump(queue, busy)
  PROVE  /\ pending' \in Seq(Task) /\ running' \in Nat /\ started' \in Seq(Task)
         /\ Range(started) \subseteq Range(started')
         /\ Len(started') - running' = Len(started) - busy
         /\ running' <= Concurrency
         /\ Len(pending') <= Len(queue)
         /\ (busy = Concurrency \/ Len(queue) <= 1 \/ busy + 1 = Concurrency)
                => (running' < Concurrency => pending' = <<>>)
<1> USE QueueOptions DEF TypeOK
<1>1. CASE Idle(queue, busy)
  BY <1>1 DEF Idle
<1>2. CASE StartHead(queue, busy)
  <2>1. /\ Head(queue) \in Task
        /\ Tail(queue) \in Seq(Task)
        /\ Len(Tail(queue)) = Len(queue) - 1
        /\ Len(queue) \in Nat \ {0}
    BY <1>2, TailFacts DEF StartHead
  <2>2. /\ Append(started, Head(queue)) \in Seq(Task)
        /\ Len(Append(started, Head(queue))) = Len(started) + 1
        /\ Range(started) \subseteq Range(Append(started, Head(queue)))
    BY <2>1, AppendFacts
  <2>3. Len(Tail(queue)) = 0 => Tail(queue) = <<>>
    BY <2>1, EmptySeq
  <2> QED BY <1>2, <2>1, <2>2, <2>3 DEF StartHead
<1> QED BY <1>1, <1>2 DEF Pump

LEMMA InitIInv == Init => IInv
BY QueueOptions, EmptySeq, FS_EmptySet
   DEF Init, IInv, TypeOK, SlotsAccounted, Bounded, WorkConserving

LEMMA SubmitIInv ==
  ASSUME IInv, NEW t \in Task, Submit(t)
  PROVE  IInv'
<1> DEFINE queue == Append(pending, t)
<1>1. queue \in Seq(Task) /\ Len(queue) = Len(pending) + 1
  BY AppendFacts DEF IInv, TypeOK
<1>2. Len(pending) < Limit
  BY QueueOptions DEF IInv, TypeOK, Submit, IsSaturated
<1>3. running \in Nat /\ running <= Concurrency /\ Pump(queue, running)
  BY DEF IInv, TypeOK, Bounded, Submit
<1>4. running = Concurrency \/ Len(queue) <= 1
  BY <1>1, <1>3, QueueOptions DEF IInv, WorkConserving
<1>5. /\ pending' \in Seq(Task) /\ running' \in Nat /\ started' \in Seq(Task)
      /\ Range(started) \subseteq Range(started')
      /\ Len(started') - running' = Len(started) - running
      /\ running' <= Concurrency
      /\ Len(pending') <= Len(queue)
      /\ running' < Concurrency => pending' = <<>>
  BY <1>1, <1>3, <1>4, PumpConserves DEF IInv
<1>6. Len(pending') <= Limit
  BY <1>1, <1>2, <1>5, QueueOptions, EmptySeq
<1>7. UNCHANGED <<completed, failed, settled, released, refused>>
  BY DEF Submit
<1>8. Cardinality(released) \in Nat /\ Cardinality(settled) \in Nat
  BY FS_Subset, FS_CardinalityType DEF IInv, SlotsAccounted
<1>9. TypeOK' /\ IsFiniteSet(settled)'
  BY <1>5, <1>7 DEF IInv, TypeOK
<1>10. SlotsAccounted'
  <2>1. /\ released \subseteq settled /\ settled \subseteq Range(started)
        /\ running = Len(started) - Cardinality(released)
        /\ completed + failed = Cardinality(settled)
        /\ Len(started) \in Nat
    BY DEF IInv, TypeOK, SlotsAccounted
  <2>2. Len(started') \in Nat
    BY <1>5
  <2>3. running' = Len(started') - Cardinality(released)
    BY <1>3, <1>5, <1>8, <2>1, <2>2
  <2>4. /\ released' = released /\ settled' = settled
        /\ completed' = completed /\ failed' = failed
    BY <1>7
  <2> QED BY <1>5, <2>1, <2>3, <2>4 DEF SlotsAccounted
<1> QED
  BY <1>5, <1>6, <1>9, <1>10 DEF IInv, Bounded, WorkConserving

LEMMA SettleIInv ==
  ASSUME IInv, NEW t \in Task, Settle(t)
  PROVE  IInv'
<1>1. settled' = settled \cup {t} /\ t \notin settled
  BY DEF Settle
<1>2. IsFiniteSet(settled') /\ Cardinality(settled') = Cardinality(settled) + 1
      /\ Cardinality(settled) \in Nat
  BY <1>1, FS_AddElement, FS_CardinalityType DEF IInv
<1> QED
  BY <1>1, <1>2
  DEF IInv, TypeOK, SlotsAccounted, Bounded, WorkConserving, Settle

LEMMA ReleaseIInv ==
  ASSUME IInv, NEW t \in Task, Release(t)
  PROVE  IInv'
<1>1. IsFiniteSet(released)
  BY FS_Subset DEF IInv, SlotsAccounted
<1>2. /\ released' = released \cup {t}
      /\ Cardinality(released') = Cardinality(released) + 1
      /\ Cardinality(released) \in Nat
  BY <1>1, FS_AddElement, FS_CardinalityType DEF Release
<1>3. running >= 1
  \* t is settled and not released, so released is a proper subset of the
  \* tasks started, and there are at most Len(started) of those.
  <2>1. released \cup {t} \subseteq Range(started)
    BY DEF IInv, SlotsAccounted, Release
  <2>2. Cardinality(released') <= Len(started)
    BY <1>2, <2>1, RangeCardinality, FS_Subset, FS_CardinalityType DEF IInv, TypeOK
  <2> QED BY <1>2, <2>2 DEF IInv, TypeOK, SlotsAccounted
<1>4. running - 1 \in Nat /\ running - 1 < Concurrency /\ pending \in Seq(Task)
      /\ Len(pending) \in Nat /\ Pump(pending, running - 1)
  BY <1>3, QueueOptions DEF IInv, TypeOK, Bounded, Release
<1>5. running - 1 + 1 = Concurrency \/ Len(pending) = 0
  BY <1>3, QueueOptions DEF IInv, TypeOK, Bounded, WorkConserving
<1>6. /\ pending' \in Seq(Task) /\ running' \in Nat /\ started' \in Seq(Task)
      /\ Range(started) \subseteq Range(started')
      /\ Len(started') - running' = Len(started) - (running - 1)
      /\ running' <= Concurrency
      /\ Len(pending') <= Len(pending)
      /\ running' < Concurrency => pending' = <<>>
  BY <1>4, <1>5, PumpConserves, QueueOptions DEF IInv
<1>7. Len(pending') <= Limit /\ Len(pending') \in Nat
  BY <1>4, <1>6, QueueOptions DEF IInv, Bounded
<1>8. running' = Len(started') - Cardinality(released')
  BY <1>2, <1>6 DEF IInv, TypeOK, SlotsAccounted
<1>9. /\ settled' = settled /\ t \in settled
      /\ UNCHANGED <<completed, failed, refused>>
  BY DEF Release
<1> QED
  BY <1>2, <1>6, <1>7, <1>8, <1>9
  DEF IInv, TypeOK, SlotsAccounted, Bounded, WorkConserving

LEMMA NextIInv == IInv /\ [Next]_vars => IInv'
<1> SUFFICES ASSUME IInv, [Next]_vars PROVE IInv'
  OBVIOUS
<1>1. ASSUME NEW t \in Task, Refuse(t) PROVE IInv'
  BY <1>1 DEF IInv, TypeOK, SlotsAccounted, Bounded, WorkConserving, Refuse
<1>2. ASSUME NEW t \in Task, Submit(t) PROVE IInv'
  BY <1>2, SubmitIInv
<1>3. ASSUME NEW t \in Task, Settle(t) PROVE IInv'
  BY <1>3, SettleIInv
<1>4. ASSUME NEW t \in Task, Release(t) PROVE IInv'
  BY <1>4, ReleaseIInv
<1>5. CASE UNCHANGED vars
  BY <1>5 DEF IInv, TypeOK, SlotsAccounted, Bounded, WorkConserving, vars
<1> QED BY <1>1, <1>2, <1>3, <1>4, <1>5 DEF Next

(* The inductive invariant holds throughout. *)
THEOREM Invariance == Safety => []IInv
<1>1. Init => IInv
  BY InitIInv
<1>2. IInv /\ [Next]_vars => IInv'
  BY NextIInv
<1> QED BY <1>1, <1>2, PTL DEF Safety

(* Every variable keeps its type (pump() in task.queue.ts). *)
THEOREM TypeCorrect == Safety => []TypeOK
BY Invariance, PTL DEF IInv

(* No slot is leaked by a failed task or given back twice. *)
THEOREM SlotsAreAccounted == Safety => []SlotsAccounted
BY Invariance, PTL DEF IInv

(* At most options.concurrency tasks hold a slot, at most options.limit wait. *)
THEOREM BoundsHold == Safety => []Bounded
BY Invariance, PTL DEF IInv

(* Nobody waits while a slot is free, though pump() starts one task per call. *)
THEOREM NeverIdle == Safety => []WorkConserving
BY Invariance, PTL DEF IInv

-----------------------------------------------------------------------------
(***************************************************************************)
(* FIFO.  The acceptance order is started followed by pending; only an     *)
(* accepted submit() changes it, by appending.                             *)
(***************************************************************************)

\* A sequence is its head in front of its tail.
LEMMA HeadThenTail ==
  ASSUME NEW T, NEW s \in Seq(T), s # <<>>
  PROVE  s = <<Head(s)>> \o Tail(s)
<1>1. Len(s) \in 1 .. Len(s) /\ 1 \in 1 .. Len(s)
  BY TailFacts
<1>2. SubSeq(s, 1, Len(s)) = <<s[1]>> \o SubSeq(s, 2, Len(s))
  BY <1>1, SubSeqRecursiveFirst
<1>3. SubSeq(s, 1, Len(s)) = s /\ Tail(s) = SubSeq(s, 2, Len(s)) /\ Head(s) = s[1]
  BY SubSeqFull, TailIsSubSeq, HeadTailProperties
<1> QED BY <1>2, <1>3

\* pump() keeps the acceptance order.
LEMMA PumpKeepsOrder ==
  ASSUME NEW busy, NEW queue \in Seq(Task), started \in Seq(Task), Pump(queue, busy)
  PROVE  started' \o pending' = started \o queue
<1>1. CASE Idle(queue, busy)
  BY <1>1 DEF Idle
<1>2. CASE StartHead(queue, busy)
  <2>1. Head(queue) \in Task /\ Tail(queue) \in Seq(Task)
    BY <1>2, TailFacts DEF StartHead
  <2>2. <<Head(queue)>> \in Seq(Task)
    BY <2>1
  <2>3. Append(started, Head(queue)) = started \o <<Head(queue)>>
    BY <2>1, AppendIsConcat
  <2>4. (started \o <<Head(queue)>>) \o Tail(queue)
          = started \o (<<Head(queue)>> \o Tail(queue))
    BY <2>1, <2>2, ConcatAssociative
  <2>5. queue = <<Head(queue)>> \o Tail(queue)
    BY <1>2, HeadThenTail DEF StartHead
  <2> QED BY <1>2, <2>3, <2>4, <2>5 DEF StartHead
<1> QED BY <1>1, <1>2 DEF Pump

\* The elements of a concatenation.
LEMMA ConcatRange ==
  ASSUME NEW T, NEW s \in Seq(T), NEW u \in Seq(T)
  PROVE  Range(s \o u) = Range(s) \cup Range(u)
<1>1. /\ Len(s) \in Nat /\ DOMAIN s = 1 .. Len(s)
      /\ Len(u) \in Nat /\ DOMAIN u = 1 .. Len(u)
      /\ DOMAIN (s \o u) = 1 .. Len(s) + Len(u)
  BY LenProperties, ConcatProperties
<1>2. \A i \in 1 .. Len(s) + Len(u) :
          (s \o u)[i] = IF i <= Len(s) THEN s[i] ELSE u[i - Len(s)]
  BY ConcatProperties
<1>3. ASSUME NEW x \in Range(s \o u) PROVE x \in Range(s) \cup Range(u)
  BY <1>1, <1>2 DEF Range
<1>4. ASSUME NEW x \in Range(s) PROVE x \in Range(s \o u)
  BY <1>1, <1>2 DEF Range
<1>5. ASSUME NEW x \in Range(u) PROVE x \in Range(s \o u)
  <2>1. PICK i \in 1 .. Len(u) : u[i] = x
    BY <1>1 DEF Range
  <2>2. Len(s) + i \in 1 .. Len(s) + Len(u) /\ (s \o u)[Len(s) + i] = x
    BY <1>1, <1>2, <2>1
  <2> QED BY <1>1, <2>2 DEF Range
<1> QED BY <1>3, <1>4, <1>5

\* Appending a new element keeps a sequence free of repetitions.
LEMMA AppendDistinct ==
  ASSUME NEW T, NEW s \in Seq(T), NEW e \in T, e \notin Range(s), IsInjective(s)
  PROVE  IsInjective(Append(s, e))
<1> DEFINE u == Append(s, e)
<1>1. /\ Len(s) \in Nat /\ DOMAIN s = 1 .. Len(s)
      /\ DOMAIN u = 1 .. Len(s) + 1
      /\ u[Len(s) + 1] = e
      /\ \A i \in 1 .. Len(s) : u[i] = s[i]
  BY AppendProperties, LenProperties
<1>2. \A i \in 1 .. Len(s) : u[i] # e
  BY <1>1 DEF Range
<1> HIDE DEF u
<1>3. ASSUME NEW a \in DOMAIN u, NEW b \in DOMAIN u, u[a] = u[b]
      PROVE  a = b
  <2>1. CASE a \in 1 .. Len(s) /\ b \in 1 .. Len(s)
    BY <1>1, <1>3, <2>1 DEF IsInjective
  <2>2. CASE a = Len(s) + 1 \/ b = Len(s) + 1
    BY <1>1, <1>2, <1>3, <2>2
  <2> QED BY <1>1, <2>1, <2>2
<1>4. IsInjective(u)
  BY <1>3 DEF IsInjective
<1> QED BY <1>4 DEF u

\* How an accepted submit() and a finally-callback change the order.
LEMMA OrderSteps ==
  ASSUME TypeOK, NEW t \in Task
  PROVE  /\ Submit(t) => started' \o pending' = Append(started \o pending, t)
         /\ Release(t) => started' \o pending' = started \o pending
<1>1. <<t>> \in Seq(Task) /\ started \o pending \in Seq(Task)
  BY ConcatProperties DEF TypeOK
<1>2. ASSUME Submit(t) PROVE started' \o pending' = Append(started \o pending, t)
  <2>1. Append(pending, t) \in Seq(Task) /\ Append(pending, t) = pending \o <<t>>
    BY AppendFacts, AppendIsConcat DEF TypeOK
  <2>2. started' \o pending' = started \o (pending \o <<t>>)
    BY <1>2, <2>1, PumpKeepsOrder DEF TypeOK, Submit
  <2>3. started \o (pending \o <<t>>) = (started \o pending) \o <<t>>
    BY <1>1, ConcatAssociative DEF TypeOK
  <2> QED BY <1>1, <2>2, <2>3, AppendIsConcat
<1>3. ASSUME Release(t) PROVE started' \o pending' = started \o pending
  BY <1>3, PumpKeepsOrder DEF TypeOK, Release
<1> QED BY <1>2, <1>3

-----------------------------------------------------------------------------
(* No task is waiting twice, started twice, or both refused and accepted.  *)

LEMMA NextNoTaskTwice ==
  TypeOK /\ NoTaskTwice /\ [Next]_vars => NoTaskTwice'
<1> SUFFICES ASSUME TypeOK, NoTaskTwice, [Next]_vars PROVE NoTaskTwice'
  OBVIOUS
<1> DEFINE accepted == started \o pending
<1>1. /\ accepted \in Seq(Task) /\ Len(accepted) \in Nat
      /\ DOMAIN accepted = 1 .. Len(accepted)
      /\ Range(accepted) = Range(started) \cup Range(pending)
  BY ConcatProperties, ConcatRange, LenProperties DEF TypeOK
<1>2. ASSUME NEW t \in Task, Refuse(t) PROVE NoTaskTwice'
  BY <1>1, <1>2 DEF NoTaskTwice, Refuse, Submitted
<1>3. ASSUME NEW t \in Task, Submit(t) PROVE NoTaskTwice'
  <2>1. accepted' = Append(accepted, t) /\ t \notin Range(accepted) /\ t \notin refused
        /\ refused' = refused
    BY <1>1, <1>3, OrderSteps DEF Submit, Submitted
  <2>2. IsInjective(accepted)
    BY DEF NoTaskTwice
  <2> HIDE DEF accepted
  <2>3. Range(Append(accepted, t)) = Range(accepted) \cup {t}
    BY <1>1, AppendFacts
  <2>4. IsInjective(Append(accepted, t))
    BY <1>1, <2>1, <2>2, AppendDistinct
  <2> QED BY <2>1, <2>3, <2>4 DEF NoTaskTwice, accepted
<1>4. ASSUME NEW t \in Task, Settle(t) PROVE NoTaskTwice'
  BY <1>4 DEF NoTaskTwice, Settle
<1>5. ASSUME NEW t \in Task, Release(t) PROVE NoTaskTwice'
  <2>1. accepted' = accepted /\ refused' = refused
    BY <1>5, OrderSteps DEF Release
  <2> QED BY <2>1 DEF NoTaskTwice
<1>6. CASE UNCHANGED vars
  BY <1>6 DEF NoTaskTwice, vars
<1> QED BY <1>2, <1>3, <1>4, <1>5, <1>6 DEF Next

(* Every task is in one place: waiting once, started once, or refused. *)
THEOREM TasksHandledOnce == Safety => []NoTaskTwice
<1>1. Init => NoTaskTwice
  <2> SUFFICES ASSUME Init PROVE NoTaskTwice
    OBVIOUS
  <2>1. started \o pending = <<>> /\ DOMAIN <<>> = {}
    BY EmptySeq, ConcatEmptySeq DEF Init
  <2> QED BY <2>1 DEF Init, NoTaskTwice, IsInjective
<1> QED BY <1>1, NextNoTaskTwice, TypeCorrect, PTL DEF Safety

(* Counters, backlog and started tasks agree: the five invariants in one.  *)
THEOREM QueueIsCoherent == Safety => []QueueInv
<1>1. TypeOK /\ SlotsAccounted /\ Bounded /\ WorkConserving /\ NoTaskTwice => QueueInv
  BY DEF QueueInv
<1> QED BY <1>1, TypeCorrect, SlotsAreAccounted, BoundsHold, NeverIdle, TasksHandledOnce, PTL

-----------------------------------------------------------------------------
(***************************************************************************)
(* Refinement.  At every moment the tasks started are exactly those the    *)
(* pool admits: this is SlotsAccounted, Bounded and WorkConserving read    *)
(* together.                                                               *)
(***************************************************************************)
LEMMA StartedAreAdmitted ==
  ASSUME IInv
  PROVE  /\ Pool!Admitted = Len(started)
         /\ Len(started \o pending) = Len(started) + Len(pending)
         /\ Pool!InService = Range(started) \ released
<1>1. /\ Len(started) \in Nat /\ Len(pending) \in Nat
      /\ DOMAIN started = 1 .. Len(started)
      /\ Len(started \o pending) = Len(started) + Len(pending)
      /\ \A i \in 1 .. Len(started) : (started \o pending)[i] = started[i]
  BY LenProperties, ConcatProperties DEF IInv, TypeOK
<1>2. Cardinality(released) \in Nat
  BY FS_Subset, FS_CardinalityType DEF IInv, SlotsAccounted
<1>3. Len(pending) = 0 \/ running = Concurrency
  BY QueueOptions, EmptySeq DEF IInv, TypeOK, Bounded, WorkConserving
<1>4. Pool!Admitted = Len(started)
  <2>1. Pool!Cardinality(released) = Cardinality(released)
    BY DEF Pool!Cardinality, Cardinality
  <2>2. /\ running \in Nat /\ running <= Concurrency
        /\ running + Cardinality(released) = Len(started)
    BY <1>1, <1>2 DEF IInv, TypeOK, SlotsAccounted, Bounded
  <2>3. Pool!Admitted = IF Len(started) + Len(pending) <= Cardinality(released) + Concurrency
                        THEN Len(started) + Len(pending)
                        ELSE Cardinality(released) + Concurrency
    BY <1>1, <2>1 DEF Pool!Admitted
  <2>4. CASE Len(pending) = 0
    <3>1. /\ Len(started) + Len(pending) <= Cardinality(released) + Concurrency
          /\ Len(started) + Len(pending) = Len(started)
      BY <1>1, <1>2, <2>2, <2>4, QueueOptions
    <3> QED BY <2>3, <3>1
  <2>5. CASE running = Concurrency
    <3>1. Cardinality(released) + Concurrency = Len(started)
      BY <1>1, <1>2, <2>2, <2>5, QueueOptions
    <3>2. Len(started) + Len(pending) <= Len(started) => Len(pending) = 0
      BY <1>1
    <3> QED BY <2>3, <2>4, <3>1, <3>2
  <2> QED BY <1>3, <2>4, <2>5
<1>5. Pool!InService = Range(started) \ released
  BY <1>1, <1>4 DEF Pool!InService, Range
<1> QED BY <1>1, <1>4, <1>5

(* The queue implements the pool: an accepted submit() accepts, a          *)
(* finally-callback finishes, everything else stutters.                    *)
THEOREM RefinesFifoPool == Safety => ImplementsFifoPool
<1>1. Init => Pool!Init
  BY EmptySeq, ConcatEmptySeq DEF Init, Pool!Init
<1>2. IInv /\ [Next]_vars => [Pool!Next]_(Pool!poolVars)
  <2> SUFFICES ASSUME IInv, [Next]_vars PROVE [Pool!Next]_(Pool!poolVars)
    OBVIOUS
  <2> USE DEF Pool!poolVars
  <2>1. ASSUME NEW t \in Task, Refuse(t) PROVE UNCHANGED Pool!poolVars
    BY <2>1 DEF Refuse
  <2>2. ASSUME NEW t \in Task, Submit(t) PROVE Pool!Accept(t)
    <3>1. started' \o pending' = Append(started \o pending, t) /\ released' = released
      BY <2>2, OrderSteps DEF IInv, Submit
    <3>2. t \notin Range(started \o pending)
      BY <2>2, ConcatRange DEF IInv, TypeOK, Submit, Submitted
    <3>3. Len(started \o pending) - Pool!Admitted < Limit
      BY <2>2, StartedAreAdmitted, QueueOptions, LenProperties
      DEF IInv, TypeOK, Submit, IsSaturated
    <3> QED BY <3>1, <3>2, <3>3 DEF Pool!Accept, Pool!Range, Range
  <2>3. ASSUME NEW t \in Task, Settle(t) PROVE UNCHANGED Pool!poolVars
    BY <2>3 DEF Settle
  <2>4. ASSUME NEW t \in Task, Release(t) PROVE Pool!Finish(t)
    <3>1. started' \o pending' = started \o pending /\ released' = released \cup {t}
      BY <2>4, OrderSteps DEF IInv, Release
    <3>2. t \in Pool!InService
      BY <2>4, StartedAreAdmitted DEF IInv, SlotsAccounted, Release
    <3> QED BY <3>1, <3>2 DEF Pool!Finish
  <2>5. CASE UNCHANGED vars
    BY <2>5 DEF vars
  <2> QED BY <2>1, <2>2, <2>3, <2>4, <2>5 DEF Next, Pool!Next
<1> QED BY <1>1, <1>2, Invariance, PTL DEF Safety, ImplementsFifoPool, Pool!Spec
=============================================================================
