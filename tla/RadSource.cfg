SPECIFICATION FairSpec
CONSTANTS
    MinInterval = 2
    MaxRequests = 28
    Retries = 2
    BackoffInitial = 2
    BackoffFactor = 2
    Durations = {0}
    Days = 2
    Queue = 2
    WantReading = TRUE
    MaxContinuations = 1
CHECK_DEADLOCK FALSE
INVARIANTS TypeOK Paced Patient DocumentCost
PROPERTIES RunEnds WalkCostsNoDelivery
