SPECIFICATION Spec
CONSTANTS
    Task = {t1, t2, t3, t4, t5}
    Concurrency = 2
    Limit = 2
INVARIANTS
    QueueInv
PROPERTIES
    ImplementsFifoPool
    AcceptedTaskSettles
\* Every task is submitted once: when all have been released or refused the
\* model has nothing left to do, as the queue has when nobody calls it.
CHECK_DEADLOCK FALSE
