---------------------------- MODULE ProfileStore ----------------------------
(***************************************************************************)
(* The profile library on disk: the active directories, the stored copy of *)
(* every profile, the manifest, the installed release and the server's     *)
(* loaded settings, under CreateProfile, DeleteProfile and ActivateProfile *)
(* with failing file operations, and crashes of the manager.  The manifest *)
(* mutex and the gate let one of these operations run at a time.           *)
(*                                                                         *)
(* A setup is what the three directories hold.  stored and the manifest    *)
(* are functions from the profiles that have a data directory or an entry. *)
(***************************************************************************)
EXTENDS DirectorySwap, ReleasePromise, Sequences

CONSTANTS
    Profiles,     \* profile identifiers
    Order,        \* the directories as prepareProfileSwaps lists them
    FirstFiles,   \* names in the directories of the profiles there at first
    FirstVersion, \* and their releases
    FirstActive,
    MaxOps, MaxPlays, MaxFaults, MaxCrashes \* bounds on what happens

ASSUME StoreConstants ==
    /\ Contents = Profiles \X (0..MaxPlays) \* who made the file, and how often he changed it
    /\ \A d \in Directories : \E i \in DOMAIN Order : Order[i] = d
    /\ MaxOps \in Nat /\ MaxPlays \in Nat /\ MaxFaults \in Nat /\ MaxCrashes \in Nat
    /\ FirstActive \in DOMAIN FirstFiles /\ DOMAIN FirstFiles \subseteq Profiles
    /\ \A p \in DOMAIN FirstFiles : FirstFiles[p] \in [Directories -> SUBSET Names]
    /\ FirstVersion \in [DOMAIN FirstFiles -> Versions]

VARIABLES
    manifest,   \* manifest.json: the active profile and the release each profile records
    stored,     \* profiles/<id>
    moved,      \* the data directory that is renamed aside while it is replaced or deleted
    litter,     \* entries in directories left beside the profiles
    server,     \* the profile whose settings the singleton has loaded
    pc, target, captured,        \* the operation: its step, its profile, captured release
    latest,     \* history: what the user last saw of each profile
    damage,     \* history: what a failed rollback or a crash left half done
    ops

libraryVars == <<manifest, stored, moved, litter>>
operationVars == <<pc, target, captured, ops>>
vars == <<swapVars, libraryVars, releaseVars, server, operationVars, latest, damage,
          faults, crashes>>

Known == DOMAIN manifest.version
Active == manifest.active
Partial(S, T) == UNION {[U -> T] : U \in SUBSET S}
Without(f, x) == [y \in DOMAIN f \ {x} |-> f[y]]
Merge(f, g) == [x \in DOMAIN f \cup DOMAIN g |-> IF x \in DOMAIN f THEN f[x] ELSE g[x]]
Only(x, v) == [y \in {x} |-> v]
With(f, x, v) == Merge(Only(x, v), f)
Nothing == <<>>

Steps == {"idle", "down", "snapshot", "place", "discard", "stage", "install", "activate",
          "builtIns", "reload", "persist", "save", "commit", "rollback", "undoRelease",
          "undoReload", "cleanup", "createSave", "deleteSave"}

StoreTypeOK ==
    /\ TypeOK
    /\ manifest.active \in Known /\ manifest.version \in Partial(Profiles, Versions)
    /\ DOMAIN stored \subseteq Profiles /\ \A p \in DOMAIN stored : stored[p] \in EntrySets
    /\ DOMAIN moved \subseteq Profiles /\ \A p \in DOMAIN moved : moved[p] \in EntrySets
    /\ litter \subseteq File
    /\ engine \in Versions \cup {Mixed} /\ runtime \in Versions \cup {Broken}
    /\ unresolved \in BOOLEAN
    /\ server \in Profiles /\ target \in Profiles /\ captured \in Versions
    /\ pc \in Steps /\ damage \subseteq {"files", "server"}
    /\ DOMAIN latest = Known
    /\ ops \in 0..MaxOps /\ faults \in 0..MaxFaults /\ crashes \in 0..MaxCrashes

FirstSetup(p) == [d \in Directories |->
    {[name |-> n, content |-> <<p, 0>>, leftover |-> FALSE] : n \in FirstFiles[p][d]}]

Init ==
    /\ InitWith(FirstSetup(FirstActive))
    /\ manifest = [active |-> FirstActive, version |-> FirstVersion]
    /\ stored = [p \in DOMAIN FirstFiles |-> FirstSetup(p)]
    /\ moved = Nothing /\ litter = {}
    /\ engine = FirstVersion[FirstActive] /\ runtime = engine /\ unresolved = FALSE
    /\ server = FirstActive /\ target = FirstActive /\ captured = engine
    /\ latest = [p \in DOMAIN FirstFiles |->
                    [files |-> FirstSetup(p), version |-> FirstVersion[p]]]
    /\ pc = "idle" /\ damage = {} /\ ops = 0 /\ faults = 0 /\ crashes = 0

-----------------------------------------------------------------------------
Goto(step) == pc' = step /\ UNCHANGED <<target, captured, ops>>
Step(from, to) == pc = from /\ Goto(to)
Sure == UNCHANGED <<faults, crashes>>
Fault(n) == faults + n <= MaxFaults /\ faults' = faults + n /\ UNCHANGED crashes
Harmed(what) == damage' = damage \cup {what}

Entries(data) == UNION {data[p][d] : p \in DOMAIN data, d \in Directories}
Visible(setup) == [d \in Directories |-> {f \in setup[d] : ~f.leftover}]

\* loadProfileManifest: every profile it names has its directory.
Loadable == Known \subseteq DOMAIN stored

\* The operations that take profileMutex, one at a time.  They read runtime-state.json.
Begin(p, step) ==
    /\ pc = "idle" /\ Loadable /\ runtime # Broken /\ ops < MaxOps
    /\ pc' = step /\ ops' = ops + 1 /\ target' = p /\ captured' = runtime

Changed(f) ==
    [name |-> f.name, content |-> <<f.content[1], f.content[2] + 1>>, leftover |-> f.leftover]

\* The server runs, or its owner edits the setup: only the active directories change.
Play ==
    /\ pc = "idle" /\ damage = {}
    /\ \A d \in Directories : \A f \in destination[d] : f.content[2] < MaxPlays
    /\ Edit([d \in Directories |-> {IF f.leftover THEN f ELSE Changed(f) : f \in destination[d]}])
    /\ latest' = [latest EXCEPT ![Active].files = Visible(destination')]
    /\ UNCHANGED <<libraryVars, releaseVars, server, operationVars, damage>> /\ Sure

-----------------------------------------------------------------------------
(* CreateProfile and DeleteProfile.                                        *)

\* A clone copies the active directories, an empty profile only the configuration.
Create(p, source) ==
    /\ p \notin Known \cup DOMAIN stored /\ Begin(p, "createSave")
    /\ stored' = With(stored, p, [d \in Directories |->
           IF source = "clone" \/ d = "config" THEN destination[d] ELSE {}])
    /\ UNCHANGED <<swapVars, manifest, moved, litter, releaseVars, server, latest, damage>>
    /\ Sure

CreateSave ==
    /\ Step("createSave", "idle") /\ Sure
    /\ manifest' = [active |-> Active, version |-> With(manifest.version, target, captured)]
    /\ latest' = With(latest, target,
                      [files |-> Visible(stored[target]), version |-> captured])
    /\ UNCHANGED <<swapVars, stored, moved, litter, releaseVars, server, damage>>

CreateSaveFails ==
    /\ Step("createSave", "idle") /\ Fault(1)
    /\ stored' = Without(stored, target)
    /\ UNCHANGED <<swapVars, manifest, moved, litter, releaseVars, server, latest, damage>>

\* Mutant of Delete: the active profile is not refused.
DeleteAny(p) ==
    /\ p \in Known /\ Begin(p, "deleteSave")
    /\ moved' = Only(p, stored[p]) /\ stored' = Without(stored, p)
    /\ UNCHANGED <<swapVars, manifest, litter, releaseVars, server, latest, damage>> /\ Sure

\* The directory becomes a tombstone before the manifest forgets the profile.
Delete(p) ==
    /\ p \in Known \ {Active} /\ Begin(p, "deleteSave")
    /\ moved' = Only(p, stored[p]) /\ stored' = Without(stored, p)
    /\ UNCHANGED <<swapVars, manifest, litter, releaseVars, server, latest, damage>> /\ Sure

DeleteSave ==
    /\ Step("deleteSave", "idle") /\ Sure
    /\ manifest' = [active |-> Active, version |-> Without(manifest.version, target)]
    /\ latest' = Without(latest, target) /\ moved' = Nothing
    /\ UNCHANGED <<swapVars, stored, litter, releaseVars, server, damage>>

\* The directory renamed aside comes back, as in a failed snapshot.
PutBack == stored' = Merge(moved, stored) /\ moved' = Nothing /\ UNCHANGED <<litter, damage>>
\* Unless that rename fails too.
LeaveAside ==
    /\ litter' = litter \cup Entries(moved) /\ moved' = Nothing
    /\ Harmed("files") /\ UNCHANGED stored

DeleteSaveFails ==
    /\ Step("deleteSave", "idle")
    /\ \/ Fault(1) /\ PutBack
       \/ Fault(2) /\ LeaveAside
    /\ UNCHANGED <<swapVars, manifest, releaseVars, server, latest>>

-----------------------------------------------------------------------------
(* ActivateProfile: first the snapshot of the active profile.              *)

BeginSwitch(p) ==
    /\ p \in Known \ {Active} /\ Begin(p, "snapshot")
    /\ UNCHANGED <<swapVars, libraryVars, releaseVars, server, latest, damage>> /\ Sure

\* Nothing has changed yet when the directories cannot be copied.
SnapshotFails ==
    /\ Step("snapshot", "idle") /\ Fault(1)
    /\ UNCHANGED <<swapVars, libraryVars, releaseVars, server, latest, damage>>

SnapshotAside ==
    /\ Step("snapshot", "place") /\ Sure
    /\ moved' = Only(Active, stored[Active]) /\ stored' = Without(stored, Active)
    /\ UNCHANGED <<swapVars, manifest, litter, releaseVars, server, latest, damage>>

SnapshotPlace ==
    /\ Step("place", "discard") /\ Sure
    /\ stored' = With(stored, Active, destination)
    /\ UNCHANGED <<swapVars, manifest, moved, litter, releaseVars, server, latest, damage>>

SnapshotPlaceFails ==
    /\ Step("place", "idle")
    /\ \/ Fault(1) /\ PutBack
       \/ Fault(2) /\ LeaveAside
    /\ UNCHANGED <<swapVars, manifest, releaseVars, server, latest>>

SnapshotDiscard ==
    /\ Step("discard", "stage") /\ Sure
    /\ moved' = Nothing
    /\ UNCHANGED <<swapVars, manifest, stored, litter, releaseVars, server, latest, damage>>

\* writeProfileData fails although the snapshot is in place.
SnapshotDiscardFails ==
    /\ Step("discard", "idle") /\ Fault(1)
    /\ litter' = litter \cup Entries(moved) /\ moved' = Nothing
    /\ UNCHANGED <<swapVars, manifest, stored, releaseVars, server, latest, damage>>

-----------------------------------------------------------------------------
(* The target is staged, its release installed, the swaps activated.       *)

Before(d) == {Order[i] : i \in {j \in DOMAIN Order : \A k \in 1..j : Order[k] # d}}
After(d) == Directories \ (Before(d) \cup {d})
AllIn(S, phases) == \A d \in S : phase[d] \in phases
restVars == <<libraryVars, releaseVars, server, latest>>

StageSwap(d) ==
    /\ Step("stage", "stage") /\ AllIn(Before(d), {"staged"})
    /\ Prepare(d, stored[target][d])
    /\ UNCHANGED <<restVars, damage>> /\ Sure

\* Also when the stored target is not valid: no swap is staged then.
StageFails ==
    /\ Step("stage", "cleanup") /\ ~AllIn(Directories, {"staged"}) /\ Fault(1)
    /\ UNCHANGED <<swapVars, restVars, damage>>

ReleaseChanged == captured # manifest.version[target]

Staged ==
    /\ AllIn(Directories, {"staged"})
    /\ Step("stage", IF ReleaseChanged THEN "install" ELSE "activate") /\ Sure
    /\ UNCHANGED <<swapVars, restVars, damage>>

\* InstallProfileRelease, in one step: see ReleaseInstall.
Installs(v) == Ends(Installed(v)) /\ Sure
InstallFails(v) == \E n \in 0..MaxFaults : Fault(n) /\ Ends(NotInstalled(v, n))
InstallCut(v) == \E n \in 0..MaxFaults :
    faults + n <= MaxFaults /\ faults' = faults + n /\ Ends(Cut(v, n))

InstallTarget ==
    /\ \/ Step("install", "activate") /\ Installs(manifest.version[target])
       \/ Step("install", "cleanup") /\ InstallFails(manifest.version[target])
    /\ UNCHANGED <<swapVars, libraryVars, server, latest, damage>>

\* A swap whose activation fails undoes itself before the others are rolled back.
ActivateSwap(d) ==
    /\ pc = "activate" /\ AllIn(Before(d), {"active"})
    /\ \/ (Activate(d) \/ Advance(d)) /\ Sure /\ UNCHANGED damage
       \/ /\ Stumble(d) /\ Fault(1)
          /\ damage' = IF preserveRecovery'[d] THEN damage \cup {"files"} ELSE damage
    /\ UNCHANGED <<operationVars, restVars>>

Activated ==
    /\ \/ AllIn(Directories, {"active"}) /\ Step("activate", "builtIns")
       \/ ~AllIn(Directories, Phases \ {"rolledBack"}) /\ Step("activate", "rollback")
    /\ UNCHANGED <<swapVars, restVars, damage>> /\ Sure

\* The list that was activated already enables what the profile records.
SetBuiltIns ==
    /\ \/ Step("builtIns", "reload") /\ Sure
       \/ Step("builtIns", "rollback") /\ Fault(1)
    /\ UNCHANGED <<swapVars, restVars, damage>>

ReloadTarget ==
    /\ \/ Step("reload", "persist") /\ server' = target /\ Sure
       \/ Step("reload", "rollback") /\ UNCHANGED server /\ Fault(1)
    /\ UNCHANGED <<swapVars, libraryVars, releaseVars, latest, damage>>

\* A failure may come after the rename: the legacy marker is written last.
PersistTarget ==
    /\ \/ Step("persist", "save") /\ runtime' = manifest.version[target] /\ Sure
       \/ Step("persist", "rollback") /\ Fault(1)
          /\ runtime' \in {runtime, manifest.version[target]}
    /\ UNCHANGED <<swapVars, libraryVars, engine, unresolved, server, latest, damage>>

\* The manifest is renamed into place: the switch is committed.
SaveManifest ==
    /\ Step("save", "commit") /\ Sure
    /\ manifest' = [active |-> target, version |-> [manifest.version EXCEPT ![Active] = captured]]
    /\ damage' = damage \ {"server"}
    /\ UNCHANGED <<swapVars, stored, moved, litter, releaseVars, server, latest>>

\* Mutant of SaveManifestFails: the error is logged and the swaps are committed.
SaveErrorIgnored ==
    /\ Step("save", "commit") /\ Fault(1)
    /\ UNCHANGED <<swapVars, restVars, damage>>

SaveManifestFails ==
    /\ Step("save", "rollback") /\ Fault(1)
    /\ UNCHANGED <<swapVars, restVars, damage>>

CommitSwap(d) ==
    /\ Step("commit", "commit") /\ AllIn(Before(d), {"none"})
    /\ Commit(d) /\ UNCHANGED <<restVars, damage>> /\ Sure

-----------------------------------------------------------------------------
(* rollbackProfileSwitch, and the deferred cleanupProfileSwaps.            *)

RollbackSwap(d) ==
    /\ pc = "rollback" /\ AllIn(After(d), {"staged", "rolledBack"})
    /\ \/ (Rollback(d) \/ Advance(d)) /\ Sure /\ UNCHANGED damage
       \/ Stumble(d) /\ Fault(1) /\ Harmed("files")
    /\ UNCHANGED <<operationVars, restVars>>

RolledBack ==
    /\ Step("rollback", "undoRelease") /\ AllIn(Directories, {"staged", "rolledBack"})
    /\ UNCHANGED <<swapVars, restVars, damage>> /\ Sure

\* Each part is tried whether or not the one before it failed.
UndoRelease ==
    /\ Step("undoRelease", "undoReload")
    /\ IF ReleaseChanged THEN Installs(captured) \/ InstallFails(captured)
       ELSE /\ \/ Sure /\ runtime' = captured
               \/ Fault(1) /\ runtime' \in {runtime, captured}
            /\ UNCHANGED <<engine, unresolved>>
    /\ UNCHANGED <<swapVars, libraryVars, server, latest, damage>>

\* Mutant of UndoReload: the settings of the target stay loaded.
UndoReloadForgotten ==
    /\ Step("undoReload", "cleanup")
    /\ UNCHANGED <<swapVars, restVars, damage>> /\ Sure

UndoReload ==
    /\ Step("undoReload", "cleanup")
    /\ \/ Sure /\ server' = Active /\ UNCHANGED damage
       \/ Fault(1) /\ UNCHANGED server /\ Harmed("server")
    /\ UNCHANGED <<swapVars, libraryVars, releaseVars, latest>>

CleanUpSwap(d) ==
    /\ pc \in {"cleanup", "commit"} /\ AllIn(Before(d), {"none"})
    /\ \E left \in SUBSET backup[d] :
           /\ Cleanup(d, left)
           /\ IF left = {} \/ preserveRecovery[d] THEN Sure ELSE Fault(1)
    /\ UNCHANGED <<operationVars, restVars, damage>>

Finish ==
    /\ pc \in {"cleanup", "commit"} /\ AllIn(Directories, {"none"}) /\ Goto("idle")
    /\ UNCHANGED <<swapVars, restVars, damage>> /\ Sure

-----------------------------------------------------------------------------
(* The manager dies and is started again.                                  *)

\* The disk is between two setups.
Vulnerable ==
    \/ pc \in {"place", "deleteSave"}
    \/ pc \in {"activate", "rollback", "builtIns", "reload", "persist", "save"}
          /\ ~AllIn(Directories, {"staged"})

\* Temporary directories stay where they are; nobody knows of them any more.
Crash ==
    /\ pc \notin {"idle", "down"} /\ crashes < MaxCrashes
    /\ crashes' = crashes + 1 /\ Goto("down")
    /\ damage' = IF Vulnerable THEN damage \cup {"files"} ELSE damage
    /\ Abandon
    /\ litter' = litter \cup Entries(moved) /\ moved' = Nothing
    /\ \/ UNCHANGED <<releaseVars, faults>>
       \/ pc = "install" /\ InstallCut(manifest.version[target])
       \/ pc = "undoRelease" /\ ReleaseChanged /\ InstallCut(captured)
    /\ UNCHANGED <<manifest, stored, server, latest>>

\* InitializeProfiles: without a loadable manifest the manager does not come up.
Restart ==
    /\ Step("down", "idle") /\ Loadable
    /\ server' = Active /\ damage' = damage \ {"server"}
    /\ UNCHANGED <<swapVars, libraryVars, releaseVars, latest>> /\ Sure

-----------------------------------------------------------------------------
Next ==
    \/ Play \/ CreateSave \/ CreateSaveFails \/ DeleteSave \/ DeleteSaveFails
    \/ \E p \in Profiles :
          BeginSwitch(p) \/ Delete(p) \/ \E source \in {"clone", "empty"} : Create(p, source)
    \/ SnapshotFails \/ SnapshotAside \/ SnapshotPlace \/ SnapshotPlaceFails
    \/ SnapshotDiscard \/ SnapshotDiscardFails \/ StageFails \/ Staged \/ InstallTarget
    \/ \E d \in Directories :
          StageSwap(d) \/ ActivateSwap(d) \/ CommitSwap(d) \/ RollbackSwap(d) \/ CleanUpSwap(d)
    \/ Activated \/ SetBuiltIns \/ ReloadTarget \/ PersistTarget
    \/ SaveManifest \/ SaveManifestFails
    \/ RolledBack \/ UndoRelease \/ UndoReload \/ Finish \/ Crash \/ Restart

Spec == Init /\ [][Next]_vars

-----------------------------------------------------------------------------
Setup(p) == IF p = Active THEN destination ELSE stored[p]

\* Between operations, whatever failed, every profile is as its user last saw it: the
\* active one in its directories, the others in the library; the only exceptions are a
\* rollback that failed itself and a crash while the disk was between two setups.
SetupsInPlace ==
    pc = "idle" /\ "files" \notin damage =>
        Loadable /\ \A p \in Known : Visible(Setup(p)) = latest[p].files

\* Not even then does a file of a profile disappear from the disk.
OnDisk == {[f EXCEPT !.leftover = FALSE] : f \in litter \cup Entries(stored) \cup Entries(moved)
              \cup UNION {destination[d] \cup backup[d] : d \in Directories}}
FilesKept == \A p \in Known : \A d \in Directories : latest[p].files[d] \subseteq OnDisk

\* Setups are in place between operations and no file disappears even in a crash
\* (profiles_switch.go:63, profiles.go:192).
SetupsKept == SetupsInPlace /\ FilesKept

\* A manager at rest serves the settings of the profile the manifest names.
ServesActive == pc = "idle" /\ "server" \notin damage => server = Active

\* TECHNICAL-NOTES.md:113 "activation is rolled back as one operation if any version,
\* mod or file step fails": a failed switch leaves the release of the active profile.
VersionInPlace == pc = "idle" => engine = latest[Active].version /\ runtime = engine
=============================================================================
