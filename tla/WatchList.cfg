SPECIFICATION Spec
CONSTANTS
    Procs = {p1, p2}
    Codes = {c1}
    Edits = {e1, e2}
    Missing = missing
    Blank = blank
    Torn = torn
    Nothing = nothing
INVARIANTS TypeOK ListIsWhole RunFollowsTheList
PROPERTY SaveIsMinimal
