SPECIFICATION Spec
CONSTANTS
    Hosts <- HostOrder
    h1 = h1
    h2 = h2
    v1 = v1
    v2 = v2
    Has <- Volumes
    Mount <- Mounts
    Volume = {v1, v2}
    SnapshotRound = {s1, s2}
    LedgerRound = {l1, l2}
    SweepConcurrency = 1
    QueueRoom = 1
    Retention = 1
    MaxNow = 2
    None = None
INVARIANTS
    HistoryInv
    IdleNeverOverstated
PROPERTIES
    ImplementsSeries
    RoundsEnd
CHECK_DEADLOCK FALSE
