SPECIFICATION Spec
CONSTANTS
    w1 = w1
    w2 = w2
    r1 = r1
    r2 = r2
    r3 = r3
    Worker = {w1}
    Run = {r1}
    MaxRuns = 2
    Desired <- AskAll
    Guarded = {}
    Overloadable = {}
    SendMayFail = FALSE
    MaxStops = 0
    BadPlan = {}
    BufferMayFill = FALSE
    Faults = {"restart"}
    MaxFaults = 1
INVARIANTS
    SlotAccounting
CHECK_DEADLOCK FALSE
