SPECIFICATION SpecRefusing
CONSTANTS
    Docs = {1, 2}
    Version <- FirstVersionTwice
    Tries = 3
    Faults = {"archive", "unlink"}
    MaxFaults = 3
PROPERTY OthersUntouched
