SPECIFICATION MCSpec
CONSTANTS
    Parts = {"script"}
    r1 = r1
    r2 = r2
    MaxVUs = 3
    Targets = {0, 1, 4}
    Target = 3
    MaxSpawn = 3
    MaxGen = 2
    MaxPool = 3
    Due = {0, 1, 3, 4}
    MaxDue = 5
    RunId = {r1, r2}
    SendCap = 1
    MaxResults = 1
    MaxTicks = 1
    Gor = {1, 2}
    OpenModel = TRUE
    Setup = 1
    Work = 2
    Mode = "sequence"
    MaxIter = 2
INVARIANT RuntimeIsOwned
CHECK_DEADLOCK FALSE
