SPECIFICATION Spec
CONSTANTS
    MaxRuns = 3
    Clients = {c1}
    Overlap = TRUE
    RconMayFail = FALSE
INVARIANTS
    OneChild
