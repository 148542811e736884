SPECIFICATION Spec
CONSTANTS
    Docs = {1}
    DeliveredOn <- OneDate
    Retention = 2
    Discovery = 2
    Monitor = 1
    MaxAttempts = 2
    Places = {p1}
    Members = {pdf}
    Imposed = pdf
    Criteria <- All
    WatchLists <- All
    Reinstates = TRUE
    Faults = {"document"}
    MaxFaults = 2
    LastDay = 2
INVARIANT QueuedHasBudget
