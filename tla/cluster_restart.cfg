SPECIFICATION NoRedialSpec
CONSTANTS
    w1 = w1
    w2 = w2
    r1 = r1
    r2 = r2
    r3 = r3
    Worker = {w1}
    Run = {r1, r2}
    MaxRuns = 1
    Desired <- AskAll
    Guarded = {}
    Overloadable = {w1}
    SendMayFail = FALSE
    MaxStops = 0
    BadPlan = {r2}
    BufferMayFill = TRUE
    Faults = {"restart", "crash"}
    MaxFaults = 2
INVARIANTS
    NoUnderflow
PROPERTIES
    OrphansAreReaped
CHECK_DEADLOCK FALSE
