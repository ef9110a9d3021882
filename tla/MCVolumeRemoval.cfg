SPECIFICATION Safety
CONSTANTS
    Volume = {v1}
    Container = {c1}
    Request = {r1, r2}
    Round = {n1}
    MaxGen = 2
    Absent = Absent
SYMMETRY Symmetry
INVARIANTS
    RemovalInv
    DeletedAuditedOnce
PROPERTIES
    HistoryLostOnlyToRemoval
\* Requests are sent once and generations run out.
CHECK_DEADLOCK FALSE
