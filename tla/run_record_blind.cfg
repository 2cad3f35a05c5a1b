SPECIFICATION FairSpec
CONSTANTS
    a1 = a1
    Replica = {a1}
    MaxStops = 0
    MaxFaults = 2
    StoreMayFail = FALSE
PROPERTIES
    LiveIsNotGreen
CHECK_DEADLOCK FALSE
