SPECIFICATION Spec
CONSTANTS
    Req = {r1, r2, r3}
    old = old
    new = new
    HostKey = {old, new}
    NoPin = NoPin
    KnownHosts <- MCKnownHosts
    MaxConn = 2
    MaxDestroy = 1
INVARIANTS
    AgentInv
    ServedByTrustedHost
PROPERTIES
    RefusedKeyIsReported
    EveryCallIsAnswered
\* All calls are answered and the bounds are reached.
CHECK_DEADLOCK FALSE
