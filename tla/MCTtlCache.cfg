SPECIFICATION Safety
CONSTANTS
    Host = {h1, h2}
    Kind = {inventory}
    Caller = {c1, c2}
    TtlMs = 2
    Latency = 1
    MaxNow = 4
    MaxFlights = 2
    MaxInvalidations = 1
    Absent = Absent
    Failed = Failed
SYMMETRY Symmetry
INVARIANTS
    CacheInv
    AnswerIsAboutTheAsker
    AgeBounded
    InvalidationForgets
\* The bounds on time, flights and invalidations end every behaviour.
CHECK_DEADLOCK FALSE
