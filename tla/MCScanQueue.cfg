SPECIFICATION Spec
CONSTANTS
    Host = {h1, h2}
    Volume = {v1, v2, v3}
    Concurrency = 1
    QueueLimit = 1
    RetainedJobLimit = 1
    MaxJobs = 3
    LiveHost = {h1}
INVARIANTS
    QueueInv
    OneLiveJobPerVolume
    LiveJobIsFindable
PROPERTIES
    AcceptedJobRuns
    EveryHostHasItsQueue
    LiveHostAnswers
CHECK_DEADLOCK FALSE
