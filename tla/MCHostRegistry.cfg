SPECIFICATION Spec
CONSTANTS
    Host = {vps}
    Address = {a, b}
    KeyPath = {k}
    Job = {j1, j2}
    None = None
    MaxContext = 2
    MaxRows = 1
    MaxCrash = 1
SYMMETRY Symmetry
INVARIANTS
    RegistryInv
    HistoryHasItsHost
PROPERTIES
    FiledFromTheRecordedMachine
    PinnedMachineAnswers
CHECK_DEADLOCK FALSE
