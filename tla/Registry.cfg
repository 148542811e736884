SPECIFICATION Spec
CONSTANTS
    Procs = {p1, p2}
    Missing = missing
    Blank = blank
    Torn = torn
    c1 = c1
    c2 = c2
    Companies = {c1, c2}
    MaxAge = 1
    Filed <- Filings
INVARIANTS TypeOK CacheIsWhole AnswersNeverAge RegistryIsCurrent
SYMMETRY Symmetry
