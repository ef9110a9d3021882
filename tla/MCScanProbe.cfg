SPECIFICATION MCSpec
CONSTANTS
    Children <- Names
    MaxEntries = 2
INVARIANTS
    ProbeInv
    WholeUnlessFlagged
CHECK_DEADLOCK FALSE
