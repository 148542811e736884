SPECIFICATION FairSpec
CONSTANTS
    Docs = {1}
    DeliveredOn <- OneDate
    Retention = 2
    Discovery = 2
    Monitor = 1
    MaxAttempts = 2
    Places = {p1}
    Members = {pdf, xml}
    Imposed = pdf
    Criteria <- All
    WatchLists <- All
    Reinstates = TRUE
    Faults = {"crash", "document", "unlink", "rmtree", "contract", "hash", "budget", "index"}
    MaxFaults = 2
    LastDay = 2
PROPERTIES MovesAreLegal ImplementsShelf PublicationIsArchived WithdrawalIsEnacted AgedOutLeaves
