SPECIFICATION Spec
CONSTANTS
    Docs = {1, 2}
    DeliveredOn <- TwoDates
    Retention = 2
    Discovery = 2
    Monitor = 1
    MaxAttempts = 2
    Places = {p1}
    Members = {pdf}
    Imposed = pdf
    Criteria <- AllOrNone
    WatchLists <- AllOrNone
    Reinstates = TRUE
    Faults = {"captcha", "budget", "transient", "oserror"}
    MaxFaults = 2
    LastDay = 2
ACTION_CONSTRAINT WorldMovesWhenIdle
INVARIANTS RefusalsAreFree WithdrawnIsGone IndexTellsTruth PurgedForgetsFiles
