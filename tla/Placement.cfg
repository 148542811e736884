SPECIFICATION FairSpec
CONSTANTS
    Docs = {1, 2}
    Version <- FirstVersionTwice
    Tries = 3
    Faults = {"crash", "archive", "staging"}
    MaxFaults = 3
INVARIANTS TypeOK PlacedIsDelivery
PROPERTIES OthersUntouched DebrisLeaves
