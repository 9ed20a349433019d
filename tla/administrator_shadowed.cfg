SPECIFICATION AccessSpec
CONSTANTS
    admin = admin
    bob = bob
    Names = {admin, bob}
    AdminName = admin
    Clients = {c1}
    LegacyCases <- OldDatabases
    Legacies = 1
    MaxSecrets = 3
    MaxCrashes = 0
    None = None
    Logins = {l1}
    Addresses = {a1}
    UserNames = {n1}
    Limit = 2
    MaxKeys = 2
    Sockets = {w1}
    Senders = {s1}
    Rooms = {"gamelog"}
    Wanted <- AllWanted
    Capacity = 1
    CacheSize = 1
    MaxMessages <- TwoEach
    NoSocket = NoSocket
INVARIANTS
    AdministratorCanAct
CHECK_DEADLOCK FALSE
