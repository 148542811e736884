SPECIFICATION Spec
CONSTANTS
    Docs = {1}
    DeliveredOn <- OneDate
    Retention = 2
    Discovery = 2
    Monitor = 1
    MaxAttempts = 2
    Places = {p1}
    Members = {pdf}
    Imposed = pdf
    Criteria <- All
    WatchLists <- All
    Reinstates = TRUE
    Faults = {"crash"}
    MaxFaults = 1
    LastDay = 2
INVARIANT WithdrawnIsGone
