SPECIFICATION Spec
CONSTANTS
    MaxRuns = 2
    Clients = {c1, c2}
    Overlap = TRUE
    RconMayFail = FALSE
SYMMETRY Symmetry
INVARIANTS
    TypeOK
    ReservationSound
    StopNeverLost
PROPERTIES
    CommandKeepsConsole
