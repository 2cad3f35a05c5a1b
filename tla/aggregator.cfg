SPECIFICATION FairSpec
CONSTANTS
    Batch <- Mixed
    Client = {c1}
    Grace = 2
    ChanCap = 1
    Armed = TRUE
    Window = 2
    MinRequests = 2
    RatePct = 50
    StallSec = 2
    MaxNow = 5
INVARIANTS
    TypeOK
    BatchesAccounted
    TicksInOrder
PROPERTIES
    InGraceIsMerged
    BreakerIsExact
    EarlyStreamsClose
CHECK_DEADLOCK FALSE
