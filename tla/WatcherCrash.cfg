SPECIFICATION HistorySpec
CONSTANTS
    Docs = {1}
    DeliveredOn <- OneDate
    Retention = 2
    Discovery = 2
    Monitor = 1
    MaxAttempts = 2
    Places = {p1, p2}
    Members = {pdf, xml}
    Imposed = pdf
    Criteria <- All
    WatchLists <- All
    Reinstates = FALSE
    Faults = {"crash", "oserror", "hash", "rmtree", "document", "contract", "unlink"}
    MaxFaults = 3
    LastDay = 2
INVARIANTS TypeOK AvailableIsOnDisk NothingLeftInFlight  AvailableIsWhole QueuedHasBudget
    FlagsEnactedBeforeFetch
PROPERTY OnlyPurgeTakesAvailable
