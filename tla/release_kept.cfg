SPECIFICATION Spec
CONSTANTS
    p1 = p1
    p2 = p2
    p3 = p3
    v1 = v1
    v2 = v2
    Directories = {"saves", "mods", "config"}
    Names = {"world", "other", "list", "mod", "settings"}
    Profiles = {p1, p2, p3}
    Versions = {v1, v2}
    Contents <- MCContents
    Order <- MCOrder
    FirstFiles <- MCFirstFiles
    FirstVersion <- MCFirstVersion
    FirstActive = p1
    MaxOps = 2
    MaxPlays = 1
    MaxFaults = 1
    MaxCrashes = 0
INVARIANT VersionInPlace
CHECK_DEADLOCK FALSE
