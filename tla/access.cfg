SPECIFICATION AccessSpec
CONSTANTS
    admin = admin
    bob = bob
    Names = {admin, bob}
    AdminName = admin
    Clients = {c1, c2}
    LegacyCases <- OldDatabases
    Legacies = 1
    MaxSecrets = 2
    MaxCrashes = 1
    None = None
    Logins = {l1, l2, l3}
    Addresses = {a1, a2}
    UserNames = {n1}
    Limit = 2
    MaxKeys = 2
    Sockets = {w1, w2}
    Senders = {s1}
    Rooms = {"gamelog"}
    Wanted <- AllWanted
    Capacity = 1
    CacheSize = 1
    MaxMessages <- TwoEach
    NoSocket = NoSocket
SYMMETRY Symmetry
INVARIANTS
    AccessTypes
    AdministratorRemains
    CredentialsKept
    AttemptsBounded
    RoomsWork
    RevokedHearNothingNew
CHECK_DEADLOCK FALSE
