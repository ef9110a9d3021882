SPECIFICATION Spec
CONSTANTS
    r1 = r1
    r2 = r2
    Run <- Runs
    AutoPull = TRUE
    SocketTimeout = FALSE
    MaxChecks = 3
    MaxForgets = 1
    MaxBoots = 1
CHECK_DEADLOCK FALSE
PROPERTIES
    TimedOutRunIsRemoved
