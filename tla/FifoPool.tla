------------------------------ MODULE FifoPool ------------------------------
(***************************************************************************)
(* What a bounded-concurrency FIFO queue promises, with no queue in it.    *)
(*                                                                         *)
(* The state is the order in which tasks were accepted and the set of      *)
(* tasks whose slot has been given back.  Which tasks are in service is    *)
(* not state at all: it is always the longest prefix of the acceptance     *)
(* order that Concurrency slots allow.  An implementation of this module   *)
(* is therefore FIFO and never leaves a slot idle while somebody waits.    *)
(***************************************************************************)
EXTENDS Naturals, Sequences, FiniteSets, Functions

CONSTANTS Task, Concurrency, Limit

VARIABLES order, done

poolVars == <<order, done>>

\* How many of the accepted tasks have been started.
Admitted ==
    LET slots == Cardinality(done) + Concurrency
    IN  IF Len(order) <= slots THEN Len(order) ELSE slots

InService == {order[i] : i \in 1..Admitted} \ done

Init == order = <<>> /\ done = {}

Accept(t) ==
    /\ t \notin Range(order)
    /\ Len(order) - Admitted < Limit
    /\ order' = Append(order, t)
    /\ UNCHANGED done

Finish(t) ==
    /\ t \in InService
    /\ done' = done \cup {t}
    /\ UNCHANGED order

Next == \E t \in Task : Accept(t) \/ Finish(t)

Spec == Init /\ [][Next]_poolVars
=============================================================================
