----------------------------- MODULE TaskQueue ------------------------------
(***************************************************************************)
(* backend/src/queue/task.queue.ts: one bounded-concurrency FIFO queue.    *)
(*                                                                         *)
(* JavaScript runs a turn to completion, so submit() with the pump() it    *)
(* calls is one step, and so is the finally-callback with its pump().  The *)
(* then-callback that counts a task and the finally-callback that gives    *)
(* its slot back are two microtasks: anything may run between them.        *)
(*                                                                         *)
(* pending, running, completed and failed are the closure's variables.     *)
(* started, settled, released and refused record what became of each task; *)
(* the code keeps them in promises and closures.                           *)
(***************************************************************************)
EXTENDS Naturals, Sequences, FiniteSets, Functions

CONSTANTS
    Task,         \* the closures callers submit, each of them once
    Concurrency,  \* options.concurrency
    Limit         \* options.limit

ASSUME QueueOptions == Concurrency \in Nat \ {0} /\ Limit \in Nat \ {0}

VARIABLES
    pending,      \* the backlog, oldest first
    running,      \* slots taken
    completed,    \* counter of tasks whose promise was fulfilled
    failed,       \* counter of tasks whose promise was rejected
    started,      \* tasks whose start closure was called, in that order
    settled,      \* tasks whose then-callback ran
    released,     \* tasks whose finally-callback ran
    refused       \* tasks answered with QUEUE_SATURATED

vars == <<pending, running, completed, failed, started, settled, released, refused>>

Submitted == Range(pending) \cup Range(started) \cup refused

Init ==
    /\ pending = <<>> /\ running = 0 /\ completed = 0 /\ failed = 0
    /\ started = <<>> /\ settled = {} /\ released = {} /\ refused = {}

IsSaturated == Len(pending) >= Limit

-----------------------------------------------------------------------------
(* pump(), called with the backlog and the slot count its caller left.     *)

Idle(queue, busy) ==
    /\ busy >= Concurrency \/ queue = <<>>
    /\ pending' = queue
    /\ running' = busy
    /\ UNCHANGED started

StartHead(queue, busy) ==
    /\ busy < Concurrency
    /\ queue # <<>>
    /\ pending' = Tail(queue)
    /\ running' = busy + 1
    /\ started' = Append(started, Head(queue))

\* Mutant: pop() instead of shift().
PumpNewest(queue, busy) ==
    \/ Idle(queue, busy)
    \/ /\ busy < Concurrency /\ queue # <<>>
       /\ pending' = SubSeq(queue, 1, Len(queue) - 1)
       /\ running' = busy + 1 /\ started' = Append(started, queue[Len(queue)])

Pump(queue, busy) == Idle(queue, busy) \/ StartHead(queue, busy)

-----------------------------------------------------------------------------
\* submit() of a task the queue has no room for.
Refuse(t) ==
    /\ t \notin Submitted
    /\ IsSaturated
    /\ refused' = refused \cup {t}
    /\ UNCHANGED <<pending, running, completed, failed, started, settled, released>>

\* submit() of a task there is room for: push, then pump.
Submit(t) ==
    /\ t \notin Submitted
    /\ ~ IsSaturated
    /\ Pump(Append(pending, t), running)
    /\ UNCHANGED <<completed, failed, settled, released, refused>>

\* The then-callbacks: the task's promise is fulfilled or rejected.
Settle(t) ==
    /\ t \in Range(started) \ settled
    /\ settled' = settled \cup {t}
    /\ \/ completed' = completed + 1 /\ UNCHANGED failed
       \/ failed' = failed + 1 /\ UNCHANGED completed
    /\ UNCHANGED <<pending, running, started, released, refused>>

\* Mutant: the slot is given back but nobody is started in it.
ReleaseWithoutPump(t) ==
    /\ t \in settled \ released
    /\ released' = released \cup {t}
    /\ running' = running - 1
    /\ UNCHANGED <<pending, completed, failed, started, settled, refused>>

\* Mutant: the slot is given back only while no task has failed.
ReleaseOnSuccessOnly(t) ==
    /\ t \in settled \ released
    /\ released' = released \cup {t}
    /\ Pump(pending, IF failed > 0 THEN running ELSE running - 1)
    /\ UNCHANGED <<completed, failed, settled, refused>>

\* The finally-callback: give the slot back, then pump.
Release(t) ==
    /\ t \in settled \ released
    /\ released' = released \cup {t}
    /\ Pump(pending, running - 1)
    /\ UNCHANGED <<completed, failed, settled, refused>>

Next == \E t \in Task : Refuse(t) \/ Submit(t) \/ Settle(t) \/ Release(t)

(***************************************************************************)
(* A finally-callback is a microtask and always runs.  That every task     *)
(* settles is the callers' obligation: the queue has no timeout of its     *)
(* own.  Nobody is obliged to submit.                                      *)
(***************************************************************************)
Fairness == \A t \in Task : WF_vars(Settle(t)) /\ WF_vars(Release(t))

Safety == Init /\ [][Next]_vars
Spec == Safety /\ Fairness

-----------------------------------------------------------------------------
(* Type invariant: what each of the closure's variables holds.             *)
TypeOK ==
    /\ pending \in Seq(Task)
    /\ running \in Nat /\ completed \in Nat /\ failed \in Nat
    /\ started \in Seq(Task)
    /\ settled \in SUBSET Task /\ released \in SUBSET Task /\ refused \in SUBSET Task

(* running, which the code only ever adds to and subtracts from, is the    *)
(* number of started tasks whose finally-callback has not run: no slot is  *)
(* leaked by a failed task and none is given back twice.  The counters of  *)
(* stats() partition the tasks that settled.                               *)
SlotsAccounted ==
    /\ released \subseteq settled /\ settled \subseteq Range(started)
    /\ running = Len(started) - Cardinality(released)
    /\ completed + failed = Cardinality(settled)

(* The two bounds the options promise: at most Concurrency tasks hold a    *)
(* slot and at most Limit wait for one.                                    *)
Bounded == running <= Concurrency /\ Len(pending) <= Limit

(* Work conservation: a task waits only while every slot is taken.  pump() *)
(* starts at most one task per call, so this says one call is enough.      *)
WorkConserving == running < Concurrency => pending = <<>>

(* No task is in the backlog twice, started twice, or started while it     *)
(* still waits or after it was refused.                                    *)
NoTaskTwice ==
    /\ IsInjective(started \o pending)
    /\ refused \cap Range(started \o pending) = {}

(* The counters, the backlog and the started tasks agree, and nobody waits *)
(* beside a free slot.                                                     *)
QueueInv == TypeOK /\ SlotsAccounted /\ Bounded /\ WorkConserving /\ NoTaskTwice

(* The queue is a FIFO pool: acceptance order is started followed by       *)
(* pending, and a task is done for the pool when its slot is free again.   *)
Pool == INSTANCE FifoPool WITH order <- started \o pending, done <- released
ImplementsFifoPool == Pool!Spec

(* Every accepted task is eventually settled, whatever is accepted before  *)
(* and after it, provided the tasks in front of it settle.                 *)
AcceptedTaskSettles ==
    \A t \in Task : t \in Range(pending) \cup Range(started) ~> t \in settled
=============================================================================
