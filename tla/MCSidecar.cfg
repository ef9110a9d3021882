SPECIFICATION Spec
CONSTANTS
    r1 = r1
    r2 = r2
    Run <- Runs
    AutoPull = TRUE
    SocketTimeout = TRUE
    MaxChecks = 3
    MaxForgets = 1
    MaxBoots = 2
CHECK_DEADLOCK FALSE
INVARIANTS
    SidecarInv
    SidecarRemoved
    ReaperClearsTheDead
PROPERTIES
    RunEnds
