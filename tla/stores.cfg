SPECIFICATION StoresSpec
CONSTANTS
    p1 = p1
    p2 = p2
    Profiles = {p1, p2}
    FirstActive = p1
    Retentions = {0, 1}
    DefaultRetention = 1
    Cooldown = 2
    MaxTime = 4
    MaxFaults = 2
    MaxCrashes = 1
    Owners = {p1, p2}
    FirstOwner = p1
    NoOwner = NoOwner
    MaxSnapshotFaults = 2
    MaxSnapshotCrashes = 1
    Admins = {u1, u2}
    ModFiles = {"a1", "a2", "b1"}
    ModOf <- TwoMods
    ModLists <- Uploads
    NoFile = NoFile
    NoAdmin = NoAdmin
    NoList = NoList
    MaxRequests = 2
    MaxModFaults = 1
    Portals <- AllPortals
    BuiltIn <- GameData
    Shelves <- AllShelves
    Root = "root"
    RootVersion <- FirstVersion
    Choices = {{}, {"b"}}
    MaximumItems = 3
    ActiveSets <- ActiveDirs
    PackSets <- PackDirs
    Games <- Factorios
    DataMods <- DataDir
    NoEntries = NoEntries
    MaxEdits = 2
    v1 = v1
    v2 = v2
    GameReleases = {v1, v2}
    FirstRelease = v1
    TopLevel <- ReleaseEntries
    Metadata = {"bin", "data"}
    PlainFiles = {"path"}
    MaxInstalls = 2
    MaxInstallFaults = 6
    MaxInstallCrashes = 1
    nobody = nobody
    one = one
    Bodies = {"example", "own"}
    Example = "example"
    AdminLists = {nobody, one}
    NoAdmins = nobody
    Null = Null
    Absent = Absent
    MaxUpdates = 2
    MaxWriteFaults = 4
    MaxSettingsCrashes = 1
    SaveNames = {s1, s2}
    FirstSave = s1
    Uploaders = {x1, x2}
    NoSave = NoSave
    MaxWrites = 2
    MaxSaveFaults = 2
    MaxSaveCrashes = 1
    PackNames = {k1}
    PackUsers = {u1, u2}
    PackArchives = {"a"}
    MaxPackRequests = 2
    MaxLists = 1
    MaxPackFaults = 1
    MaxPackCrashes = 1
    Ids = {"i1", "i2", "i3", "i4"}
    ProfileTexts = {"n1", "n2", "n3"}
    KnownProfiles <- KnownAtFirst
    Backups <- Selections
    MaxImports = 2
    MaxImportFaults = 2
    MaxImportCrashes = 1
    Editors = {u1, u2}
    Options = {"speed", "size"}
    OptionValues = {"low", "high"}
    Unset = Unset
    OptionOf <- DefinedBy
    Default = "low"
    Surroundings = {"one", "two"}
    Strict = "s"
    ExtremeIn <- Excluded
    Evaluations = 2
    NoForm = NoForm
    MaxEvents = 5
    MaxEdited = 2
    MaxStartupFaults = 1
SYMMETRY Symmetry
CONSTRAINT FewDisruptions
INVARIANTS
    StoresTypes
    BoundToProfile
    StateSound
    PlanWorks
    MapsKept
    OldReleaseKept
    SettingsAgree
    PacksAsMade
    ImportAllOrNothing
PROPERTIES
    RetentionKeepsNewest
    OnlyAsked
    MergeSound
    KeepsRelease
    SavesKept
    StartupSound
    PlanEnds
CHECK_DEADLOCK FALSE
