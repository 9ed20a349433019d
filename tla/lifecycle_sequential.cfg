SPECIFICATION FairSpec
CONSTANTS
    MaxRuns = 2
    Clients = {c1, c2}
    Overlap = FALSE
    RconMayFail = TRUE
INVARIANTS
    RunServed
PROPERTIES
    OneInterrupt
    KeepsPromise
    StopsEnd
