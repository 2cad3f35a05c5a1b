SPECIFICATION FairSpec
CONSTANTS
    w1 = w1
    w2 = w2
    r1 = r1
    r2 = r2
    r3 = r3
    Worker = {w1}
    Run = {r1, r2}
    MaxRuns = 1
    Desired <- AskAll
    Guarded = {}
    Overloadable = {}
    SendMayFail = FALSE
    MaxStops = 1
    BadPlan = {r2}
    BufferMayFill = FALSE
    Faults = {}
    MaxFaults = 0
INVARIANTS
    TypeOK
    AdmissionIsSound
PROPERTIES
    Lifecycle
    RunsProgress
CHECK_DEADLOCK FALSE
