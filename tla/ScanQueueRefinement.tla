------------------------ MODULE ScanQueueRefinement -------------------------
(***************************************************************************)
(* Every host's part of ScanQueue is a TaskQueue: what is proved of that   *)
(* module holds for each host on its own.  The task of the queue is the    *)
(* job's number.  Its promise settles at Complete, its finally-callback is *)
(* Release; what comes later on the chain is none of the queue's business. *)
(***************************************************************************)
EXTENDS ScanQueue, SequencesExt

Of(h) == {j \in DOMAIN job : job[j].host = h}
SettledOf(h) == {j \in Of(h) : job[j].stage \in {"completed", "released", "concluded", "cleaned"}}

\* The elements of a finite set of numbers, in their order.
InOrder(S) ==
    CHOOSE s \in [1 .. Cardinality(S) -> S] :
        ToSet(s) = S /\ \A i, j \in DOMAIN s : i < j => s[i] < s[j]

\* Jobs were submitted in the order of their numbers.
StartedOf(h) == InOrder(Of(h) \ ToSet(pending[h]))

TQ(h) == INSTANCE TaskQueue WITH
    Task      <- 1 .. MaxJobs,
    Limit     <- QueueLimit,
    pending   <- pending[h],
    running   <- running[h],
    completed <- Cardinality({j \in SettledOf(h) : job[j].ok}),
    failed    <- Cardinality({j \in SettledOf(h) : ~ job[j].ok}),
    started   <- StartedOf(h),
    settled   <- SettledOf(h),
    released  <- {j \in SettledOf(h) : job[j].stage # "completed"},
    refused   <- {}

(* Each host has a bounded FIFO queue of its own: nothing another host     *)
(* does changes, delays or refuses a task of this one (the comment above   *)
(* queuesByHost).                                                          *)
EveryHostHasItsQueue ==
    /\ \A h \in Host : TQ(h)!Init
    /\ [][\A h \in Host : [TQ(h)!Next]_(TQ(h)!vars)]_vars
=============================================================================
