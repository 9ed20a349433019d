SPECIFICATION PrintingSpec
CONSTANTS
    MaxRuns = 1
    Clients = {c1}
    Overlap = FALSE
    RconMayFail = TRUE
PROPERTIES
    StopCompletes
