SPECIFICATION LifetimeSpec
CONSTANTS
    w1 = w1
    w2 = w2
    r1 = r1
    r2 = r2
    r3 = r3
    Worker = {w1, w2}
    Run = {r1}
    MaxRuns = 1
    Desired <- AskAll
    Guarded = {r1}
    Overloadable = {}
    SendMayFail = TRUE
    MaxStops = 1
    BadPlan = {}
    BufferMayFill = FALSE
    Faults = {"break", "crash"}
    MaxFaults = 1
SYMMETRY WorkerSymmetry
INVARIANTS
    CompletedIsQuiet
    RunsHaveAggregators
    NoDoubleExecution
    LiveWorkerRegistered
PROPERTIES
    Lifecycle
CHECK_DEADLOCK FALSE
