--------------------------- MODULE ReleaseInstall ---------------------------
(***************************************************************************)
(* The program files of Factorio are exchanged in place: installRelease    *)
(* (factorio/release_install.go) stages the new release in the program     *)
(* directory, moves the old entries to a backup one by one, moves the new  *)
(* ones in, reads the version of the new binary, saves runtime-state.json  *)
(* and removes the backup.  Any of these steps may fail, those of the      *)
(* recovery too, and the manager may die between two of them.              *)
(* The archive is downloaded and extracted before anything changes.        *)
(***************************************************************************)
EXTENDS Naturals

CONSTANTS
    GameReleases, FirstRelease,
    TopLevel,      \* the top-level entries of each release
    Metadata,      \* the entries RefreshFactorioVersion reads: the binary, the base mod
    PlainFiles,    \* entries that are files: a rename replaces one
    MaxInstalls, MaxInstallFaults, MaxInstallCrashes   \* bounds

ASSUME InstallConstants ==
    /\ FirstRelease \in GameReleases
    /\ \A v \in GameReleases : Metadata \subseteq TopLevel[v]
    /\ Metadata # {}
    /\ {"mixed", "broken"} \cap GameReleases = {}

VARIABLES
    program, aside, staging, \* the entries of the directory, its backup and its staging
    asideKept,               \* the backup directory exists
    runtimeState,            \* what runtime-state.json names
    loaded,                  \* the versions the server was told: of the Metadata
    install,                 \* the installation, see ReleaseTypeOK
    installs, installFaults, installCrashes   \* counters

diskVars == <<program, aside, staging, asideKept>>
boundVars == <<installs, installFaults, installCrashes>>
releaseInstallVars == <<diskVars, runtimeState, loaded, install, boundVars>>

\* The entries e of a release, each as the version it belongs to.
Tree(v) == [e \in TopLevel[v] |-> v]
Empty == [e \in {} |-> FirstRelease]
Into(f, e, v) == [x \in DOMAIN f \cup {e} |-> IF x = e THEN v ELSE f[x]]
OutOf(f, e) == [x \in DOMAIN f \ {e} |-> f[x]]
Unreadable == "broken"

Names == UNION {TopLevel[v] : v \in GameReleases}
Trees == UNION {[S -> GameReleases] : S \in SUBSET Names}

InstallSteps == {"idle", "down", "stage", "backup", "place", "refresh", "persist", "discard",
                 "unplace", "restore", "clean", "metadata", "reload"}

ReleaseTypeOK ==
    /\ program \in Trees /\ aside \in Trees /\ staging \in Trees
    /\ asideKept \in BOOLEAN /\ (aside # Empty => asideKept)
    /\ runtimeState \in GameReleases \cup {Unreadable} /\ loaded \in [Metadata -> GameReleases]
    /\ install.step \in InstallSteps /\ install.version \in GameReleases
    /\ install.placed \subseteq Names /\ install.old \subseteq Names
    /\ install.persisting \in BOOLEAN  \* persistAttempted
    /\ install.stuck \in BOOLEAN       \* the rollback failed: cleanupBackup is false
    /\ install.stale \in BOOLEAN       \* the last RefreshFactorioVersion failed

VersionsOf(files) == [m \in Metadata |-> files[m]]

\* What the promise sees: history, as it was before the installation and since.
Now == [program |-> program, runtime |-> runtimeState, kept |-> asideKept,
        faults |-> installFaults, crashes |-> installCrashes]

ReleaseInstallInit ==
    /\ program = Tree(FirstRelease) /\ aside = Empty /\ staging = Empty /\ asideKept = FALSE
    /\ runtimeState = FirstRelease /\ loaded = VersionsOf(program)
    /\ installs = 0 /\ installFaults = 0 /\ installCrashes = 0
    /\ install = [step |-> "idle", version |-> FirstRelease, placed |-> {}, old |-> {},
                  persisting |-> FALSE, stuck |-> FALSE, stale |-> FALSE, before |-> Now]

----------------------------------------------------------------------------
Works == UNCHANGED boundVars
Fails ==
    /\ installFaults < MaxInstallFaults /\ installFaults' = installFaults + 1
    /\ UNCHANGED <<installs, installCrashes>>
AtStep(step) == install.step = step
GoTo(step) == install' = [install EXCEPT !.step = step]
Metadata0 == UNCHANGED <<runtimeState, loaded>>

\* rejectUnresolvedReleaseBackups, then the two directories.
BeginInstall(v) ==
    /\ AtStep("idle") /\ ~asideKept /\ installs < MaxInstalls
    /\ asideKept' = TRUE
    /\ install' = [install EXCEPT !.step = "stage", !.version = v, !.placed = {}, !.old = {},
                       !.persisting = FALSE, !.stuck = FALSE, !.stale = FALSE, !.before = Now]
    /\ installs' = installs + 1
    /\ Metadata0 /\ UNCHANGED <<program, aside, staging, installFaults, installCrashes>>

StageRelease ==
    /\ AtStep("stage")
    /\ \/ staging' = Tree(install.version) /\ GoTo("backup") /\ Works
       \/ UNCHANGED staging /\ GoTo("clean") /\ Fails
    /\ Metadata0 /\ UNCHANGED <<program, aside, asideKept>>

\* moveReleaseEntries to the backup: the first rename that fails ends it.
BackUpEntry(e) ==
    /\ AtStep("backup") /\ e \in DOMAIN program
    /\ \/ /\ aside' = Into(aside, e, program[e]) /\ program' = OutOf(program, e)
          /\ install' = [install EXCEPT !.old = @ \cup {e}] /\ Works
       \/ UNCHANGED <<program, aside>> /\ GoTo("restore") /\ Fails
    /\ Metadata0 /\ UNCHANGED <<staging, asideKept>>

AllBackedUp ==
    /\ AtStep("backup") /\ program = Empty /\ GoTo("place")
    /\ Metadata0 /\ UNCHANGED diskVars /\ Works

PlaceEntry(e) ==
    /\ AtStep("place") /\ e \in DOMAIN staging
    /\ \/ /\ program' = Into(program, e, staging[e]) /\ staging' = OutOf(staging, e)
          /\ install' = [install EXCEPT !.placed = @ \cup {e}] /\ Works
       \/ UNCHANGED <<program, staging>> /\ GoTo("unplace") /\ Fails
    /\ Metadata0 /\ UNCHANGED <<aside, asideKept>>

AllPlaced ==
    /\ AtStep("place") /\ staging = Empty /\ GoTo("refresh")
    /\ Metadata0 /\ UNCHANGED diskVars /\ Works

Refresh ==
    /\ AtStep("refresh")
    /\ \/ loaded' = VersionsOf(program) /\ GoTo("persist") /\ Works
       \/ UNCHANGED loaded /\ GoTo("unplace") /\ Fails
    /\ UNCHANGED <<diskVars, runtimeState>>

\* Mutant of Persist: the backup is removed although runtime-state.json was not saved.
PersistAnyway ==
    /\ AtStep("persist") /\ GoTo("discard")
    /\ \/ runtimeState' = install.version /\ Works
       \/ UNCHANGED runtimeState /\ Fails
    /\ UNCHANGED <<diskVars, loaded>>

\* persistRuntimeState: when the marker of older versions cannot be written it fails
\* with runtime-state.json renamed into place.
Persist ==
    /\ AtStep("persist")
    /\ \/ /\ runtimeState' = install.version /\ Works
          /\ install' = [install EXCEPT !.step = "discard", !.persisting = TRUE]
       \/ /\ runtimeState' \in {runtimeState, install.version} /\ Fails
          /\ install' = [install EXCEPT !.step = "unplace", !.persisting = TRUE]
    /\ UNCHANGED <<diskVars, loaded>>

\* The release is installed: an error here leaves some of the backup, and that is all.
Discard ==
    /\ AtStep("discard") /\ GoTo("idle")
    /\ \/ aside' = Empty /\ asideKept' = FALSE /\ Works
       \/ \E left \in SUBSET DOMAIN aside :
             aside' = [e \in left |-> aside[e]] /\ UNCHANGED asideKept /\ Fails
    /\ Metadata0 /\ UNCHANGED <<program, staging>>

----------------------------------------------------------------------------
(* rollbackReleaseActivation: every entry is tried, whatever failed before. *)

UnplaceEntry(e) ==
    /\ AtStep("unplace") /\ e \in install.placed
    /\ \/ /\ staging' = Into(staging, e, program[e]) /\ program' = OutOf(program, e)
          /\ install' = [install EXCEPT !.placed = @ \ {e}] /\ Works
       \/ /\ UNCHANGED <<program, staging>> /\ Fails
          /\ install' = [install EXCEPT !.placed = @ \ {e}, !.stuck = TRUE]
    /\ Metadata0 /\ UNCHANGED <<aside, asideKept>>

AllUnplaced ==
    /\ AtStep("unplace") /\ install.placed = {} /\ GoTo("restore")
    /\ Metadata0 /\ UNCHANGED diskVars /\ Works

\* A directory of the new release that could not be moved away is in the way.
RestoreEntry(e) ==
    /\ AtStep("restore") /\ e \in install.old
    /\ \/ /\ e \notin DOMAIN program \/ e \in PlainFiles
          /\ program' = Into(program, e, aside[e]) /\ aside' = OutOf(aside, e)
          /\ install' = [install EXCEPT !.old = @ \ {e}] /\ Works
       \/ /\ IF e \in DOMAIN program \ PlainFiles THEN Works ELSE Fails
          /\ install' = [install EXCEPT !.old = @ \ {e}, !.stuck = TRUE]
          /\ UNCHANGED <<program, aside>>
    /\ Metadata0 /\ UNCHANGED <<staging, asideKept>>

\* Mutant of AllRestored: the backup is removed even after a failed rollback.
AllRestoredAnyway ==
    /\ AtStep("restore") /\ install.old = {} /\ GoTo("clean")
    /\ Metadata0 /\ UNCHANGED diskVars /\ Works

AllRestored ==
    /\ AtStep("restore") /\ install.old = {}
    /\ GoTo(IF install.stuck THEN "metadata" ELSE "clean")
    /\ Metadata0 /\ UNCHANGED diskVars /\ Works

\* The deferred RemoveAll, whose error nobody sees; the staging goes with it.
Clean ==
    /\ AtStep("clean") /\ GoTo("metadata")
    /\ aside' = Empty /\ staging' = Empty
    /\ \/ asideKept' = FALSE /\ Works
       \/ UNCHANGED asideKept /\ Fails
    /\ Metadata0 /\ UNCHANGED program

\* restoreRuntimeStateFiles writes over the files.
RestoreMetadata ==
    /\ AtStep("metadata") /\ GoTo("reload") /\ staging' = Empty
    /\ IF install.persisting
       THEN \/ runtimeState' = install.before.runtime /\ Works
            \/ runtimeState' \in {runtimeState, Unreadable} /\ Fails
       ELSE UNCHANGED runtimeState /\ Works
    /\ UNCHANGED <<program, aside, asideKept, loaded>>

ReloadMetadata ==
    /\ AtStep("reload")
    /\ \/ /\ Metadata \subseteq DOMAIN program
          /\ loaded' = VersionsOf(program) /\ GoTo("idle") /\ Works
       \/ /\ IF Metadata \subseteq DOMAIN program THEN Fails ELSE Works
          /\ install' = [install EXCEPT !.step = "idle", !.stale = TRUE]
          /\ UNCHANGED loaded
    /\ UNCHANGED <<diskVars, runtimeState>>

----------------------------------------------------------------------------
(* The manager dies and is started again.                                  *)

\* What was being removed or written may be half done.
InstallCut ==
    /\ install.step \notin {"idle", "down"} /\ installCrashes < MaxInstallCrashes
    /\ installCrashes' = installCrashes + 1 /\ UNCHANGED <<installs, installFaults>>
    /\ \/ UNCHANGED <<aside, runtimeState>>
       \/ /\ AtStep("discard") /\ UNCHANGED runtimeState
          /\ \E left \in SUBSET DOMAIN aside : aside' = [e \in left |-> aside[e]]
       \/ /\ AtStep("metadata") /\ install.persisting /\ runtimeState' = Unreadable
          /\ UNCHANGED aside
    /\ GoTo("down") /\ staging' = Empty
    /\ UNCHANGED <<program, asideKept, loaded>>

\* NewFactorioServer runs the binary: without it the manager does not come up.
StartManager ==
    /\ AtStep("down") /\ Metadata \subseteq DOMAIN program
    /\ install' = [install EXCEPT !.step = "idle", !.stale = FALSE]
    /\ loaded' = VersionsOf(program)
    /\ UNCHANGED <<diskVars, runtimeState>> /\ Works

----------------------------------------------------------------------------
ReleaseInstallNext ==
    \/ \E v \in GameReleases : BeginInstall(v)
    \/ \E e \in Names : BackUpEntry(e) \/ PlaceEntry(e) \/ UnplaceEntry(e) \/ RestoreEntry(e)
    \/ StageRelease \/ AllBackedUp \/ AllPlaced \/ Refresh \/ Persist \/ Discard
    \/ AllUnplaced \/ AllRestored \/ Clean \/ RestoreMetadata \/ ReloadMetadata
    \/ InstallCut \/ StartManager

ReleaseInstallSpec == ReleaseInstallInit /\ [][ReleaseInstallNext]_releaseInstallVars

----------------------------------------------------------------------------
ReleaseOf(files) ==
    IF \E v \in GameReleases : files = Tree(v)
    THEN CHOOSE v \in GameReleases : files = Tree(v) ELSE "mixed"
Ended == install.step \in {"idle", "down"}
Seen == IF Ended THEN Now ELSE install.before

Promise == INSTANCE ReleasePromise WITH
    Versions <- GameReleases, engine <- ReleaseOf(Seen.program), runtime <- Seen.runtime,
    unresolved <- Seen.kept,
    faults <- Seen.faults, crashes <- Seen.crashes

\* An installation that fails halfway, is rolled back, or dies, leaves what the profile
\* switch relies on: one failure never leaves two releases mixed or a runtime-state.json of
\* the other release, and no mixture is left without its backup (release_install.go:138).
KeepsRelease == Promise!ReleaseSpec

\* Until the new release is in place and recorded every entry of the old one is in the
\* program directory or in the backup, whatever fails (release_files.go:66), and unless
\* the binary could not be read the server names the program files that are there.
OldReleaseKept ==
    /\ \/ Ended /\ ReleaseOf(program) # "mixed"
       \/ ReleaseOf(program) = install.version /\ runtimeState = install.version
       \/ \A e \in DOMAIN install.before.program :
             \/ e \in DOMAIN program /\ program[e] = install.before.program[e]
             \/ e \in DOMAIN aside /\ aside[e] = install.before.program[e]
    /\ AtStep("idle") /\ ~install.stale => \A m \in Metadata : m \in DOMAIN program
                                           => loaded[m] = program[m]
=============================================================================
