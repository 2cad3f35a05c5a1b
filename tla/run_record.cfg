SPECIFICATION FairSpec
CONSTANTS
    a1 = a1
    Replica = {a1}
    MaxStops = 1
    MaxFaults = 2
    StoreMayFail = TRUE
INVARIANTS
    TypeOK
    NoGreenWithoutRun
PROPERTIES
    RecordSettles
CHECK_DEADLOCK FALSE
