# Verification of the Factorio Server Manager

TLA+ specifications, TLC model checks and TLAPS proofs for the Factorio Server
Manager: a Go program (`src/src`) that owns one Factorio child process, its saves,
mods, settings and program files, and a library of profiles that swap all of
them. Paths below are relative to the repository's root directory, written `src/...` as
in `PROJECT.json`; `PROJECT.json` maps every definition to the lines it models.

Contents: [1 the system](#1-the-system) · [2 modules](#2-modules) ·
[3 model checks](#3-model-checks) · [4 fairness](#4-fairness) ·
[5 proofs](#5-proofs) · [6 disagreements found](#6-disagreements-found) ·
[7 what is not modelled](#7-what-is-not-modelled) · [8 plan](#8-plan) ·
[9 running it](#9-running-it)

## 1 The system

One process serves an HTTP API and WebSockets. Every request is a goroutine; so
are the startup of the child, each reader of its output, the checkpoint
monitor and the map snapshot worker. They share the `Server` singleton, the directories on
disk, and about a dozen locks.

### 1.1 Components

**Server lifecycle** (`server.go`, `server_lifecycle.go`, `server_process.go`,
`server_linux.go`, `server_console.go`, `rcon.go`).
State: `Running`, `Stopping`, `starting`, `startupReady`, `stopSignaled`, `Cmd`,
`Rcon`, all under `stateMutex`; the operating-system process.
Operations: start, publication, RCON connection, stop, force stop, exit.
Interaction: every API handler tests `IsBusy`; a start holds
`worldGenerationLock` and the read side of `profileDataGate` until the child is published.
Hard: the goroutine of a run, its output reader, and requests for stop and
force stop meet in any order; a stop may be requested before RCON is there; locals hold
a process or a console across blocking calls.
Correct when: there is one child; it is never reported as stopped while alive; a stop is
delivered exactly once and completes; nothing is replaced under a starting server.

**Lock coordination** (`routes.go`, `profiles.go`, `release_install.go`,
`map_snapshot.go`, `checkpoints.go`, `world_generation.go`, `mod_startup_settings.go`).
State: three `RWMutex`es (the profile data gate, the program files gate, the
snapshot store gate), four `Mutex`es that are waited for and four that are only tried.
Hard: Go's `RWMutex` is not reentrant and an announced writer keeps readers out;
orders differ between operations; checks in a middleware go stale.
Correct when: nobody deadlocks; a replacement of shared files is not observed; a child
never runs on data that is being changed.

**Directory swap** (`profiles_data.go`, used by the profile switch, mod packs,
merge, save-mod import, deletion of all mods, backup restore).
State: a mounted directory that cannot be renamed itself, a stage and a backup inside it, a phase.
Operations: prepare, activate entry by entry, roll back, commit, clean up.
Hard: any rename may fail, those of the rollback included.
Correct when: no entry is lost, and a swap is all or nothing.

**Profile library** (`profiles*.go`).
State: `manifest.json`, `profiles/<id>`, the active directories, `runtime-state.json`,
the selection loaded in the singleton.
Operations: create, clone, rename, delete, activate, list.
Interaction: activation changes three directories, the release, the built-in mods,
the singleton and the metadata, and commits with the manifest.
Hard: every step may fail, the undo may fail, the manager may die in between.
Correct when: each profile's files, release and settings stay together, and none are lost.

**Release install** (`release*.go`, `runtime_state.go`).
State: the program files, `runtime-state.json`, a possible recovery backup.
Operations: download, validate, replace, roll back.
Hard: replacing program files in place; metadata and files must agree; an unresolved backup blocks the next install.
Correct when: one failure never leaves two releases mixed, and no mixture is without its backup.

**Checkpoints** (`checkpoints*.go`).
State, per profile: `state.json` (settings, last error, time of the last checkpoint) and archives with metadata files.
Operations: create (manual, interval, last player left, clean stop, with a cooldown of two minutes),
restore, delete, settings; a monitor per run.
Interaction: asks the live child for a save over RCON, or copies the latest save; runs inside `Stop`.
Hard: archive, metadata and `state.json` are three writes; a queued stop's checkpoint runs outside the gate.
Correct when: an archive holds a world of its profile, retention keeps the newest, the cooldown is kept
and a failure stays visible.

**Map snapshots** (`map_snapshot*.go`).
State: one snapshot per profile, a `.previous` directory while it is replaced, the running operation.
Interaction: shares `mapSnapshotOperationMutex` with the evaluation of startup settings; waits for the gate.
Hard: recovery of `.previous` after a crash (`map_snapshot_store.go:106-160`), a long
operation that holds the gate, a profile that changes between the request and the job.
Correct when: a map, once stored, stays, whole and of its own profile, and one operation runs at a time.

**World generation** (`world_generation*.go`). State: `worldGenerationLock`, temporary
settings and preview files. Correct when: it excludes starts, installs and switches, and
replaces no save.

**Saves** (`saves.go`, `save.go`, `save_mod_*.go`). State: the save directory. Operations:
list, upload, remove, read the header, import its mods.
Hard: uploads, removals and generated worlds share names under the read side of the gate only.
Correct when: a save goes only by what was asked of its name, and is whole.

**Mods** (`mods.go`, `mod_*.go`). State: `mod-list.json`, the mod files, the cache of mod
information. Operations: upload, download, toggle, update, delete, delete all.
Hard: the list is read when a request begins and written under a lock taken later; one of
several steps fails; archives are read under a lock per file.
Correct when: list and files agree, and a request takes away only what it was asked to.

**Mod portal and dependency planner** (`mod_portal*.go`, `mod_dependenc*.go`,
`version.go`). A recursive algorithm that selects releases for a mod and its
dependencies, followed by downloads, mod by mod. It never takes a choice back.
Correct when: the plan meets every constraint, and what is enabled at the end works together.

**Mod packs and merge** (`mod_modpack.go`, `mod_pack_merge.go`). State: stored packs.
Operations: create, delete, load, change a mod of one, merge, with a revision check.
Hard: every request walks over all packs and writes into those without a list. Correct when: a pack
is what was asked of it, loading replaces the mods as a whole, and a merge does what its preview showed.

**Startup settings** (`mod_startup_*.go`, `mod_settings_property_tree.go`). State:
`mod-settings.dat`, its revision, a cache of what Factorio makes of a revision.
Operations: evaluate, update with an optimistic revision. Hard: an evaluation takes minutes.
Correct when: an update is made to what its form was made from, and what is remembered is true.

**Backups** (`profile_backup*.go`, `backup_archive.go`, `mod_backup.go`). Operations:
export and import of profiles with their checkpoints, restore of mods. Hard: several directories are
made before the manifest names one. Correct when: all selected profiles are imported or none.

**Autostart** (`autostart.go`). One start after a delay.

**Server settings and configuration** (`server_settings.go`, `server_config.go`,
`config.go`, `players.go`). State: two settings files and the singleton; an update of the
second file that fails writes the first one back (`server_settings.go:32-80`). Correct when: both
files hold what is served, after any single failure.

**Atomic file** (`atomic_file.go`). A write replaces the file by a rename; where a rename does
not replace, the old file is moved aside, and back when that fails.

**Log and console text** (`gamelog.go`, `log_line.go`). Bounded lines, redaction.

**WebSocket hub** (`api/websocket`). State: rooms, clients, unbuffered channels
between the hub and the rooms, the cached log lines. Hard: rooms and hub send to each other.
Correct when: they never wait for each other, a slow client is dropped, and a
new client sees each line once.

**File lock** (`lockfile`). Read and write counters per path, with retries.

**Authentication and accounts** (`api/auth.go`, `user_handler.go`, `bootstrap/user.go`).
State: accounts, sessions, the legacy database, two files with generated passwords, a table of failed logins.
Hard: the first start and the migration write files and database rows; deletions side by side. Correct when: an
administrator remains, a password nobody chose is written down while it opens an account, and failed logins are limited.

**Routes and middleware** (`api/routes*.go`). `ProfileDataMiddleware` takes the gate's
read side around every handler that does not lock it itself; `ServerOffMiddleware` tests
`IsBusy` once.

**Bootstrap and main**, **user interface**, **scripts and container**: wiring,
presentation, deployment.

### 1.2 How they interact

    request ── ProfileDataMiddleware (gate, shared) ── ServerOffMiddleware (IsBusy)
       │
       ├─ start ── claim (lifecycle) ── worldGenerationLock ── child ── reader ── RCON ── queued stop
       │                 └── holds the gate, shared, until published
       ├─ stop ── requestStop ── clean-stop checkpoint ── SIGINT
       ├─ mods, settings ── lifecycle ── files
       └─ switch, pack, backup ── gate, exclusive ── directory swaps ── release install ── reload ── manifest

    monitor, snapshot worker: gate, shared    queued stop, main's shutdown: no gate

The hazards each of these is exposed to are listed under `hazards` in
`PROJECT.json`, at the line where they bite and with the properties that watch them.

## 2 Modules

| Module | Models | Kind |
| --- | --- | --- |
| `ServerPromise` | what users of the lifecycle are promised | abstract specification |
| `ServerLifecycle` | the singleton, its goroutines, the child | implements `ServerPromise` |
| `LockCoordination` | the lock program of 29 operations | detailed specification |
| `DirectorySwap` | the replacement of mounted directories | component, reused |
| `ReleasePromise` | what an installation of a release promises | abstract specification |
| `ReleaseInstall` | the exchange of the program files | implements `ReleasePromise` |
| `ProfileStore` | profiles on disk, activation, failures, crashes | implements `DirectorySwap`, uses `ReleasePromise` |
| `Checkpoints` | archives, `state.json`, cooldown, retention | detailed specification |
| `MapSnapshots` | the job, the stored map and its `.previous` | detailed specification |
| `ModList` | mod archives, `mod-list.json`, the lock per file | detailed specification |
| `Versions`, `ModPlan` | version constraints; the dependency planner and its installation | algorithm |
| `ModPackMerge` | preview and merge of a pack | algorithm |
| `ModPacks` | the directory of mod packs | detailed specification |
| `StartupSettings` | forms, revisions, evaluations, the cache | detailed specification |
| `ServerSettings` | two settings files, atomic writes, the undo | detailed specification |
| `Saves` | the saves directory | detailed specification |
| `ProfileImport` | the import of profiles | detailed specification |
| `Accounts`, `LoginLimit` | the database of accounts; failed logins | detailed specifications |
| `WebsocketHub` | hub, rooms, pumps | detailed specification |
| `MCServerLifecycle`, `MCLockCoordination`, `MCProfileStore`, `MCStores`, `MCAccess` | | instances for TLC |
| `*Proofs` | [section 5](#5-proofs) | theorems |

Modules whose components share state are composed: `ProfileStore` extends `DirectorySwap`, and what the
lifecycle, the locks and the stores exclude from each other is in `ServerLifecycle` and
`LockCoordination`. The others touch neither each other's variables nor files - the two mutexes and the
gate between them are what `LockCoordination` is about - so their product would add states and no
behaviour. `MCStores` and `MCAccess` therefore let the first state choose the module that moves
(`part`) and keep the others at rest; one run checks them all.

### 2.1 ServerLifecycle and ServerPromise

`server` is the Go struct, field by field; `start[r]` is where the goroutine of
start r stands; `child[r]` is its process (a *zombie* has exited and is
not yet reaped by `Wait`); `pc` and `handle` belong to the output reader of each run and
to the clients that call `Stop` and `Kill`: `handle` is the process or the console a
goroutine has read into a local and uses later. A step is one critical section
of `stateMutex` or one blocking call. `serverLifecycleMutex` is held across
steps and so is a set of `pc` values (`HoldsLock`), not a variable.

Where the model is wider than the code, and why:

- API requests hold the gate's read side, the manager's own shutdown and
  the queued stop do not. A client of the model never holds it, so clients
  also act during a switch.
- `StopServer` answers 409 when `Stopping` is set, in a test before `Stop`.
  `RequestStop` may be taken although `Stopping` is set, as two requests
  may both pass that test.
- Two readers exist, for stdout and stderr. Only the one that sees the RCON line
  changes state, so a run has one.
- `BeginInstall` and `EndInstall` are the install of a release as far as starts are concerned, whether its own
  handler asks for it, which shares the gate with starts (`routes.go:50`), or a switch, which has the gate to itself: it tests
  `IsBusy` under the lifecycle mutex and holds `worldGenerationLock` (`installing`) after that, alone, until it ends.
  What it does to the files is `ReleaseInstall`.
- `ReloadServer` is the step of a switch that replaces the contents of the singleton while it is stopped.

`Overlap = TRUE` lets a start be claimed while goroutines of an ended run are still on their
way, which the code permits: the exit of a run closes the console, then `SetRunning(false)` clears the
flags, and only then is the monitor cancelled (`server.go:71`); the reader of the ended run may be later still.
With `Overlap = FALSE` a start is claimed only when nothing of an earlier run is under way, the usual case.
Properties are stated for the case in which the code keeps them, and the others are not
silently restricted: `two_children` shows what overlap breaks, and
[section 6](#6-disagreements-found) names a second case, readiness without a console.

`TypeOK` says besides the types that whoever is about to cancel a monitor, signal, undo a run, close a console or kill holds
the process or console it has read for that (`Holding`): a stop that claims the signal without a process, or a goroutine that reads
before it claims, would break it.

`ServerPromise` has two variables, the phase of the server and whether a stop was asked for. The
refinement maps `phase` to the flags and the state of the current child, `asked` to `Stopping`.

### 2.2 LockCoordination

An operation is a program: the sequence of its lock calls, its tests of the server's state and its
uses of data (`Read`, `Edit` one by one, `Replace` as a whole). One action per kind of
instruction; a `Return` releases everything the caller holds. A write lock
is announced (`owner`) and then drained of readers, as Go's `RWMutex` does it, which is
what makes a second read lock by the same goroutine dangerous. `TryLock`s refuse.
`TypeOK` includes that a lock has an owner or readers only while they have an operation under way, and nobody both sides of one.
A failing operation returns early and so takes a prefix of the locks; the error paths that take other
locks (`RollBackActivation`, `FailedStart`) are programs of their own.

### 2.3 DirectorySwap

`destination[d]` is what the mounted directory shows; `staging[d]` and `backup[d]` are
temporary directories inside it; `phase[d]` goes from *none* through *staged*,
*backingUp*, *placing*, *active* and *committed* back to *none*, or from any of the middle ones through
*unplacing* and *restoring* to *rolledBack*. `activated` and `backedUp` are the slices of the Go struct
from which a rollback works. `previous` and `replacement` are history variables. `Stumble` is a failing
rename in any phase; in a rollback it sets `preserveRecovery`, and the
deferred cleanup leaves such a backup alone. An entry is a name and a content: two entries of one name
are what makes a careless restore lose data. `Edit` is the change of the directories by the
server or a user between swaps.

The callers with one swap (loading and merging packs, importing the mods of a save, deleting all
mods) are covered by `SwapSpec` and its proofs: what they stage is an arbitrary set of entries. It
has no run of its own; `profile_store` exercises every action of it, and the proofs are for it.

### 2.4 ProfileStore

`manifest` and `stored` are functions from the profiles that have an entry or a
directory. `moved` is the directory renamed aside while a snapshot is replaced, or a profile's tombstone while
it is deleted. `engine`, `runtime` and
`unresolved` are the program files, `runtime-state.json` and a backup that an install left.
`server` is the profile whose settings the singleton has loaded. The operation in progress is `pc`
and `target`; the mutex and the gate let one run at a time, which `LockCoordination` is about.

Three history variables say what to expect. `latest[p]` is what the user last saw of a profile.
`damage` holds `"files"` once a rename of a rollback itself failed or the manager died while the disk was between two
setups, and `"server"` once the reload of a rollback failed until the next commit or
restart. `litter` are entries in directories nobody knows of any more.

A file's content is its owner and how often he changed it. That is enough to tell a file of another profile, or
an older version, from the right one. Failures are counted: one failing file
operation is one fault, and a rename whose undo fails as well is two.
An install is one step here, to one of the outcomes that `ReleasePromise` allows it: installed, undone,
in place with an error, half undone, cut off by a crash (2.6).

### 2.5 Checkpoints

`archives[p]` and `state[p]` are what is on disk for profile p. `op` is the operation that holds
`checkpointOperationMutex`: its step, the values it has read (`store`, `at`, `source`) and what it has left to do
(`excess`). A creation goes through *source*, *copy*, *describe* (the metadata), *note* (`state.json`),
*retain* and, after a failure, *record*; a deletion through *undescribe* and *renote*. `gated` says
whether the operation holds the gate: requests and the monitor do, the clean-stop checkpoint of a
queued stop and of the manager's shutdown does not. A save is known by the profile whose world it is, which
is all that tells a checkpoint apart from one of another profile.

Four history variables and fields say what to expect. `strayed`: an ungated operation copied from the
saves of another profile than its own. `unnoted`: profiles for which a write or a crash kept `state.json` from following
the archives, until the next creation or deletion. `failed`: profiles whose last failure could be
recorded. An archive is `noted` once a `state.json` mentioned it.

Which trigger asks is left open: any automatic checkpoint may come at any time, so what holds in
the model holds whenever the monitor ticks. The clock advances with each creation and on its own. An operation that fails
before it changes anything is not a step.

### 2.6 ReleaseInstall and ReleasePromise

`program`, `aside` and `staging` are the entries of the program directory, of the backup and of the staging directory, each known by
the release it belongs to; two releases differ in an entry. An install stages, moves
the old entries out and the new ones in one by one, reads the version (`loaded`) and saves `runtime-state.json`; `unplace`,
`restore`, `clean`, `metadata` and `reload` undo it, each step failing or not. What `install` saw before it
began (`before`) is history. The refinement shows `ReleasePromise` the state before an
operation until it ends, so that an installation with all its steps is one step of the promise, and the promise says which outcome
which number of failures permits: it is the interface over which `ProfileStore` relies on the installation.

### 2.7 MapSnapshots

`operation` is `mapSnapshotOperationMutex`, `generating` the profile a status request shows as being
rendered, `job` the goroutine. A job notes its profile when it is asked for, waits for the gate, looks again
(`CheckProfile`), exports into a workspace of its own and exchanges `current` and `previous` by two renames with their recovery.
`stored` is history: the profiles that have had a map. The rendering is data, and whether the
interval has passed is left open.

### 2.8 ModList, ModPlan, ModPackMerge, ModPacks

`ModList`: `zips` and `list` are the directory, `locked` is the per-file lock, `task[c]` a request: what it has read, what it is
about to write. A step is one file operation. Requests read before they take the lifecycle mutex and write the
whole list afterwards. `spoiled` marks a request that was overtaken or failed between an archive and its entry, the excuse of `ListAgrees`.

`ModPlan`: `calls` is the stack of the recursive `processNode`, a frame the dependencies still to be followed; the
constraints gathered per mod and the choices are `plan`. The order of the dependencies in a mod's description is open, so every order is
explored; so is the order of the installation, which the code sorts by name.
`Versions` has the order of version numbers and the constraint operators, dotted versions as tuples.

`ModPackMerge`: preview and merge are each one step under the exclusive gate; anything may change between them.
The revision, a digest, is the thing it digests.

`ModPacks`: `packs` is the directory, staging directories included. A request walks over it pack by pack, creates a missing list,
then does its own steps. Two requests overlap.

### 2.9 StartupSettings

`settingsFile` is the file's content, `remembered` the cache by revision, `forms[e]` what an editor has in his browser. An operation
(`editing`) reads, evaluates, compares, writes; a person with access to the volume edits the file between any
two steps, which is what the revision is for. What Factorio makes of a file is a function of the file and the `surrounding` release and mods, among them a mod
that refuses a value.

### 2.10 ServerSettings

`config` is the two files, `served` what the singleton has loaded of them. An update writes each file through the steps of
`writeFileAtomically` - temporary file, rename, and the fallback that moves the old file to `spare` - and undoes the first when
the second fails. A crash may leave any of these; the next start creates missing files from the example and the empty list.

### 2.11 Saves

A file is known by when it was written, which is also how the latest is found. Uploads copy into a temporary name and are
renamed, with a fallback through a moved-aside save; a world is generated for minutes between the look for
its name and its rename; the server writes its own save when it ends.

### 2.12 ProfileImport

`listed` is the manifest, `folders` and `points` the directories of profiles and checkpoints, with identifiers drawn at random
that may collide with a profile or with the leftovers of a crash. An import makes and fills them one after the other, then saves the manifest, or
removes what it made.

### 2.13 Accounts and LoginLimit

`rows` is the database, `credentials` and `initial` the two files with generated passwords, `boot` where the startup
stands; a crash may come between any two of its steps, and within the append of a record (`TearRecord`), after which the file no
longer parses (`torn`). Several rows may have one name: the tag of `Username` makes no unique index (`user.go:25`) and `addUser` does not ask.
A query for one of them (`Found`) gets the oldest, by the order of `First` or, for `Take`, of the table. A request is broken at each
access to the database: what it read may be old when it writes. `secret` stands for a password with its
salted hash, so an earlier password opens nothing. `mutation` is `authMutationMutex`.
`LoginLimit` is the table of failed logins, with its test, the slow comparison, and the count.

### 2.14 WebsocketHub

The goroutines of the hub, of each room, the two pumps of each client and the senders meet in unbuffered channels:
a step of the model is one hand-over, possible only when the receiver is at its select. A client's
queue has `Capacity`; a room drops a client whose queue is full. `capable` says whether the account still has its role.

## 3 Model checks

| Run | Question | Bound | Distinct states |
| --- | --- | --- | --- |
| `lifecycle_overlap` | what holds however late an ended run's goroutines finish | 2 runs, 2 clients | 2,080,096 |
| `lifecycle_sequential` | what holds when runs follow one another; refinement of `ServerPromise`; the end of stops and requests | 2 runs, 2 clients, RCON may fail | 69,010 |
| `lock_exclusion` | deadlock and mutual exclusion of any operations | 3 callers, 29 operations | 1,129,786 |
| `lock_progress` | does every operation end | 3 callers, 7 operations | 291,788 |
| `profile_store` | do setups survive failures and crashes | 3 operations, 2 faults, 1 crash | 1,678,098 |
| `stores` | eleven stores, each through overlap, failures and crashes | below | 1,554,641 |
| `access` | accounts, failed logins, WebSockets | below | 2,616,582 |

and five runs that find a disagreement between the code and what the repository says of it
([section 6](#6-disagreements-found)): `stop_queued_without_rcon`, `two_children`,
`mods_replaced_in_view`, `release_kept`, `administrator_shadowed`.

**lifecycle_overlap.** `ReservationSound`: the starting flag, the guards and the goroutine
that owns them agree, and nothing that replaces files runs meanwhile, a release install under the shared side of the gate included; no order of
exit, stop and failed start leaves a stopped server in `Stopping`, which no request could clear; a switch, an install and a generated world
find the server stopped and keep it so. `StopNeverLost`: an unsignalled stop of a living child always
has someone who will still deliver it: the handshake of `claimStopSignalIfReady` and
`markStartupReady`. `CommandKeepsConsole`: a console in use is not closed under its user.
Two runs are what an overlap needs (the leftovers of one and the startup of the next); two clients
are a stop and a force stop, or two stops, against them.

**lifecycle_sequential.** `RunServed`: one child, which is never reported as stopped while alive, is ready
only with its console, and keeps its monitor. `OneInterrupt` (a second SIGINT would abort Factorio's clean
shutdown) and `KeepsPromise`, the refinement. `StopsEnd`: an accepted stop ends with a server that can be started again - but for
a child whose RCON connection failed, see [section 6](#6-disagreements-found), and a child that never prints its RCON line, which nothing can
tell from one that is still loading - and every stop and force stop returns. A start of this run
finds nothing of an earlier one under way, so what leftovers can do is not its subject but that of the overlapping runs; the second
run shows that flags, console, monitor and `Cmd` as the first left them do the next no harm.

**lock_exclusion.** `NoDeadlock`: no group of callers waits for each other, counting announced writers.
`ModsChangeStopped` and `DataStable` say what each gate and mutex is for. Callers are symmetric and begin any operation again and again. Three callers are enough
for the cycles a reader/writer lock makes possible: a reader that holds,
a writer that has announced itself, and a third who comes behind the writer while holding what the first waits for.

**lock_progress.** `OpsFinish` with a switch, a start, a stop, a force stop, the monitor, a map snapshot and ordinary
readers: the operations that hold the gate longest, those that wait for it exclusively, and those that a waiting switch keeps out. A start lasts
as long as its child and is excepted.

**profile_store.** `NothingLost` and `AllOrNothing` are the swap's promises in its use by the
switch. `SetupsKept`: between operations, whatever failed, every profile is as its user
last saw it, and no file of a profile disappears, not even in a crash or a rollback that fails. `ServesActive`:
a manager at rest serves the settings of the profile that the manifest names. Three operations are a switch there and back and one
to spoil it, or a creation, a switch to it and a deletion. Two
faults are a failure and a failing rollback, anywhere. One crash may come at any step.
The instance starts with two profiles of different releases; a third may be created, as a clone or empty, with the
release of the active one. Their directories hold entries of the same name with different content and entries that
only one of them has; those of an empty profile hold none. Deadlock is not checked in `profile_store` and `release_kept`: operations are bounded,
and with a manifest that names a missing directory the manager really does not come up
(`InitializeProfiles` fails), which `SetupsKept` allows only after damage.

**stores.** Deadlock is not checked: every part has bounded counters. By part:

| Part | Bound | Properties |
| --- | --- | --- |
| checkpoints | 2 profiles, clock 4, cooldown 2, retention 0 or 1, 2 disruptions | `BoundToProfile`, `StateSound`, `RetentionKeepsNewest` |
| map snapshots | 2 profiles, 2 faults, 1 crash | `MapsKept` |
| active mods | 3 archives of 2 mods, 2 requests, 1 fault | `OnlyAsked` |
| dependency planner | 91 portals, 3 items | `PlanWorks`, `PlanEnds` |
| merge of a pack | 8 directories, 8 packs, 2 edits | `MergeSound` |
| release install | 2 releases, 2 installs, 6 faults, 1 crash | `KeepsRelease` (refinement), `OldReleaseKept` |
| settings | 2 updates, 4 faults, 1 crash | `SettingsAgree` |
| saves | 2 names, 2 uploads, 2 writes, 2 faults, 1 crash | `SavesKept` |
| mod packs | 2 requests, 1 fault, 1 crash | `PacksAsMade` |
| import | 4 identifiers, 2 imports, 2 faults, 1 crash | `ImportAllOrNothing` |
| startup settings | 2 editors, 2 options, 2 releases, 2 edits by hand, 5 events, 1 fault | `StartupSound` |

`BoundToProfile`: an archive and what is restored from it hold a world of their
profile; it fails as soon as a switch may come between the steps of a gated operation. `StateSound`: the time in `state.json` is
that of the newest archive left, unless a write failed or the manager died, and automatic
checkpoints lie a cooldown apart, across deletions, failures, switches and restarts; a recorded failure
stays until a checkpoint is made. `RetentionKeepsNewest`: nothing but a deletion removes
a checkpoint unless as many newer ones as the retention asks for remain. Four ticks are a checkpoint, its cooldown and another;
a retention of one is overflowed by the second, zero keeps all.

`MapsKept`: a map that was stored stays somewhere, whole, whatever fails or dies in the exchange, and is never one of another profile.
Two faults are a failing rename and a failing undo.

`OnlyAsked`: the last archive of a mod goes only when a deletion asked for it, a request that was
not overtaken leaves the entries of other mods, and list and archives agree at rest. Two requests are what an overtaking takes;
two archives of one mod are an update.

`PlanWorks`: the plan contains its root and meets every requirement at the versions it ends with,
although no choice is taken back, and what the installation enables works together. The portals
combine dependencies that are mutual, conflicting, optional, satisfied by a built-in mod and unsatisfiable; with the selections, the optional defaults and
the mods already there they make some thousand requests. `PlanEnds`: every step brings a request nearer to its end, by a distance of three
naturals of which the first that changes falls - the builds and the installation still to come, the releases not yet read or the items not yet installed, and
the calls with what they have to deal with. It fails if a release is gone into a second time, since mods may require each other in circles.

`MergeSound`: a merge adds what its preview named and keeps what was there, and what it writes loads.
Two edits between preview and merge change something and change it back.

`KeepsRelease` and `OldReleaseKept`: what fails leaves the old release, the new one, or a mixture with its backup
beside it, as far as the promise allows, and every old entry is somewhere until the new release is in place and recorded.
Six faults are a failing step, those of a recovery that fails in each of its parts, and some for the next installation.

`SettingsAgree`: between updates both files hold what is served, after any single failing write, and a file is missing only in or
after the fallback for platforms without a replacing rename. Four faults let the rename, the fallback and the undo fail.

`SavesKept`: a save that has a name is whole and goes only by what was asked of that name.

`PacksAsMade`: a pack is what was asked of it, except where two requests met in its directory or its removal was cut short.

`ImportAllOrNothing`: an import adds every selected profile with all its data or none, and leaves alone what was there, also
when an identifier is drawn twice.

`StartupSound`: an update changes the one setting of the file its form showed, and what is remembered for a revision is what
Factorio makes of it, unless somebody edits the files during the evaluation itself and puts them back.

**access.** Two clients, two names, four legacy databases, one crash: `AdministratorRemains` (a row is left, which is not yet somebody who can act, see
[section 6](#6-disagreements-found)), `CredentialsKept` (a password that nobody chose is written down as long as it opens an account,
and a repeated migration finds its own accounts unless a record was cut short). Three logins, two addresses and a limit of two:
`AttemptsBounded` (requests under way together pass the limit by less than their number; the table keeps its bound). Two sockets, one room, one
sender, a cache and a queue of one, two messages: `RoomsWork` (members hear each message once
and in order, the cached lines first, and nobody waits in a circle) and
`RevokedHearNothingNew`. A queue of one is full at the second message. Deadlock is not checked: logins and messages are bounded and a
conflict of the migration keeps the manager down.

Every property is accompanied by a mutant in `PROJECT.json`: a plausible error in a definition
that makes the run fail, such as a dropped recheck under the lock, a swapped lock order, or a
rollback that restores over entries of the same name. `Mutant of` marks them in the modules.

## 4 Fairness

`ServerLifecycle!FairSpec` (`lifecycle_sequential`, `stop_queued_without_rcon`). Strong fairness for the goroutine of a start, for a reader and for the
callers of Stop and Kill: goroutines are scheduled and `sync.Mutex` hands itself to a waiter that has
starved for a millisecond, so one that can have a lock again and again gets it. The reader's fairness is that of what it does once it has a line or the
end of the output (`Connect`): that the child prints its RCON line is not assumed, and `StopAnswered` excepts a child that stays silent. Weak fairness for
the exit of a child that has received SIGINT (Factorio saves and ends) and for the end
of an RCON command, which is an assumption about the RCON library: its reads have a deadline. Dialling ends, and may fail, which `StopAnswered` excepts and
`StopCompletes` does not. Nothing is assumed of users, of further starts, or of crashes of the child. `stop_queued_without_rcon` uses `PrintingSpec`, which adds that
every child prints its line: its counterexample is the failing dial and nothing else.

`LockCoordination!FairSpec` (`lock_progress`). Strong fairness for each caller's `Work`, for the same reason, and because file and network
operations end. None for `Begin` or `Exit`: nobody has to ask for anything and a child may run for
ever.

The other modules state no liveness: their bounds end every behaviour. That the hub's goroutines do not wait for each other is
the invariant `NobodyStuck`.

## 5 Proofs

All theorems are about the specifications as TLC checks them, for every value of the constants that the
named assumptions allow, and with no bound on operations, faults or crashes but those constants. Each rests
on an inductive invariant, which TLC checked first, on the instances of the runs or larger ones.

**ServerLifecycleProofs**, from `LifecycleConstants`: `TypeCorrect`, `ReservationSafe` (`ReservationSound`), `StopKept` (`StopNeverLost`),
`OwnChild` (`RunServed`), `SignalledOnce` (`OneInterrupt`), `PromiseKept` (`KeepsPromise`) and `ConsoleHeld` (`CommandKeepsConsole`). The first invariant is

    Inv == Typed /\ OneClaim /\ StartupReservation /\ StoppingNeedsRun /\ StoppedWhileReplaced

`OneClaim`, the strengthening, says that `Running` and `starting` are never set together. It is
needed because `SetRunning(false)` of an earlier run's exit clears both flags: without it that
exit could, as far as the other conjuncts know, take the reservation away from a startup in progress. `TypeCorrect` adds what the goroutines
have in hand (`HandlesStep`). The proof has one step per
action of `Next`; the result holds for any number of starts, any set of clients, and overlapping runs.
`StopKept` assumes that RCON connects to a living child (`~RconMayFail`; without it `stop_queued_without_rcon` refutes the property). Its
invariant is `Inv` with `Handshake`: once the reader of the published run has passed its mark the run is marked ready,
and then a stop that is not signalled is in the hands of a client that is about to look, or to kill this very process and no other.

`OwnChild`, `SignalledOnce` and `PromiseKept` assume `~Overlap`, without which `two_children` refutes the first. `SeqInv` adds to `Inv` that
one run at a time has a start or a reader on its way (`Alone`), where its child, its reader and the server are at each step of its start
(`Stages`), what is published (`Current`, `Begun`, `Ending`), that a signal is given once (`OneSignal`) and that a console is the one of its run
(`Console`). `PromiseKept` is the refinement of `ServerPromise`: initial states map to initial states and each action to
a step or a stutter (`Promised`). `ConsoleHeld` needs none of this and holds for overlapping runs too.

**LockCoordinationProofs**, from `LockConstants`, for any number of callers and any choice of operations: `LocksTypeCorrect`, `ModsChangedWhenStopped`
(`ModsChangeStopped`), `DataUsedStable` (`DataStable`) and `DeadlockFree` (`NoDeadlock`). What the proofs need of a program is
`Obeys` - it unlocks only what it holds, tests before it relies on a test, and takes locks in order - and is shown
for each of the programs, written out. `LockInv` says that the locks are held by the callers whose programs took them and did not give them
back (`LocksHeld`), that a drained lock has no readers (`ReadersGone`), that whoever found the server stopped and keeps starts out
still finds it so (`StaysStopped`), and that one start is under way at a time (`OneStart`). A caller that waits for a lock
waits for somebody who owns or shares it, and if that one waits in turn, it waits for a later lock. The order that proves this has two forms: the one of most operations (`Usual`) and the one of a
switch of profiles that has emptied the gate (`InSwitch`), beside which there are only callers outside the gate. So in any group of callers who wait
the one whose lock comes last waits for somebody outside the group.

**DirectorySwapProofs**, from `SwapSpec`: `SwapTypeCorrect`, `SwapLosesNothing`
(`NothingLost`), `SwapAllOrNothing` (`AllOrNothing`), for any directories, names and contents. The inductive
invariant `SwapInv` is the type invariant and, per directory, `Where` - which entries lie in which place in each
phase, and that the lists a rollback works through name what is really there - and
`NoDuplicates`: no two entries of one name in one place. The latter is needed because moving an entry
back overwrites one of its name.

**ProfileStoreProofs**, from `StoreConstants`: `StoreSwaps` proves that `ProfileStore`
implements `SwapSpec` - every step of the library is a step of a swap, an edit between
swaps, or leaves the directories alone. `StoreLosesNothing` and `StoreAllOrNothing` follow from it and the theorems
above. `StoreServesActive` is proved from
`StoreInv`: what is stored and moved fits the type of a directory's entries (so it may be
staged), the target of an operation is known, and `Served`, which says at each
step of the operation whose settings are loaded. `StoreTypeCorrect` (`StoreTypeOK`) and `StoreKeepsSetups` (`SetupsKept`) rest on `KeptInv`
besides: the phases of the swaps at each step of an operation (`PhasesAt`), which profile each directory and what it has aside hold (`InDirectories`)
and where the setups of the others are (`InLibrary`), with what a crash or a failed rename may have left out of place but never lost.

**ReleaseInstallProofs**, from `InstallConstants`: `InstallTypeCorrect`, `OldReleaseIsKept` (`OldReleaseKept`) and `ReleaseIsKept`
(`KeepsRelease`), the refinement of `ReleasePromise`, for any releases and any number of installations, faults and crashes. `InstallInv` says of a manager at
rest what it has (`InstallAtRest`), and of an installation how far it is and how many of its steps have failed (`Progress`), where the entries of the old release
(`OldEntries`) and of the new one (`NewEntries`) are, and what is recorded (`Recorded`). One lemma per action proves the invariant and
`Promised`, that the step is one of the promise. The attempt to prove it showed that the promise had been stated too strongly for an installation that
cannot put back what it moved, which takes more failures than the run allowed; the promise says so now, and the run has six.

**CheckpointsProofs**, from `CheckpointConstants`: `CheckpointsType`, `CheckpointsBound`
(`BoundToProfile`), `CheckpointErrorsKept` (its part `GapExposed`), `CheckpointStateSound` (`StateSound`) and `CheckpointsRetained` (`RetentionKeepsNewest`), for any
profiles, retentions and cooldown. The inductive invariant adds `GateKeepsProfile`: while an operation under the gate has not copied its source,
the active profile is its own. That is what `BoundToProfile` lacks to be inductive, and what the switch's wait for the gate maintains.
`CooldownInv` says for the other two that everything is older than the clock and what is being made is the newest (`Dated`), what `state.json` remembers
of the archives (`Remembered`, `Lasts`), that automatic checkpoints keep their distance (`Spaced`) and what the retention has left to look at (`Retaining`).
That a set of archives has a newest one follows from the library's well-foundedness of the natural numbers (`LeastNatural`),
without induction.

**StoresProofs**, what is stored beside the profiles. The module extends the run's `MCStores`, and `StoresParts` proves that every behaviour of `StoresSpec` is
one of each store, so what is proved of a store by itself holds in the run as well; `StoresTypeCorrect` (`StoresTypes`) combines the type invariants in this way.
Where a type invariant says more than the invariant of the component, the difference has an invariant of its own: `ViewsTyped` (what is remembered, shown and worked on
belongs to a revision, and the cache stays within its bound), `StoreTyped` and `SnapRest` for the maps, `HistoryTyped` for the packs, and `BaseStays` for a merge.
By component:

- from `SettingsConstants`, `SettingsTypeCorrect` (`ServerSettingsTypeOK`) and `SettingsStayTogether` (`SettingsAgree`). `SettingsInv` says where the two files are at each
  step of each phase of an update, that what it began with is still served (`ServesOld`), and how many writes must have failed
  to be where it is (`Failed`): the exception of the property, a torn update, needs two.
- from `StartupConstants`, `StartupTypeCorrect` (`StartupTypeOK`) and `StartupStaysSound` (`StartupSound`, an action property and an invariant). `StartupInv` relates the operation under
  way to its form (`UpdateOfForm`), to the files while nobody has edited them (`StillSo`) and to what Factorio has accepted
  (`Accepted`), and says that all remembered views are true (`AllTrue`).
- from `ImportConstants`, `ImportTypeCorrect` (`ImportTypeOK`) and `ImportsWhole` (`ImportAllOrNothing`), for any selections and identifiers. `ImportInv` says
  besides the types that names are unique in the manifest and in the one being built (`Unique`), what is stored for each listed
  profile (`Stored`), that the directories an import has made belong to nobody else (`MadeApart`), and how far those it has made
  are filled (`Completed`, `Filling`): `MadeApart` is what makes the undo remove its own directories only.
- from `SnapshotConstants`, `SnapshotsTypeCorrect` (`SnapshotsTypeOK`), `MapsAlwaysKept` (`MapsKept`) and `OneJobAtATime` (`OneJob`). `SnapshotsInv` says where the map of each profile and
  its predecessor are (`MapsOf`), at each step of an exchange (`Exchanged`) and after one that failed or was cut short (`Missed`).
- from `PackConstants`, `PacksTypeCorrect` (`PacksTypeOK`) and `PacksAlwaysAsMade` (`PacksAsMade`). `PacksInv` says what is in each pack that has a name (`NamedPack`), that a staging directory
  belongs to one request (`StagedByOne`), what a removal has left (`CutOff`) and what has been copied (`CopiedSoFar`).
- from `SavesConstants`, `SavesTypeCorrect` (`SavesTypeOK`) and `SavesAlwaysKept` (`SavesKept`), for any number of uploads at once.
  `SavesInv` adds that what an upload is about to move to its name is there and whole, and so is the save it moved aside (`UploadsWhole`):
  the names of temporary files are never those of saves, so no upload or removal touches the file of another.
- from `MergeConstants` (below `data/` there are only the mods of the expansion), `MergeTypeCorrect` (`MergeTypeOK`) and `MergesAsReviewed` (`MergeSound`, an action property and an invariant),
  for any mods, dependencies and versions. `MergeInv` says that what a preview named is determined by its revision (`Reviewed`). The core of the proof is
  `RunsAsPlanned`: the plan and the game agree on who runs and in which version, though the plan is made on combined states and the list is written from
  the raw entries of two lists. It needs that no archive has the name of a mod below `data/`, which `readMergeModInfo` demands.
- from `ModListConstants`, `ModListTypeCorrect` (`ModListTypeOK`) and `ModsOnlyAsAsked` (`OnlyAsked`, two action properties and an invariant), for any
  number of requests at once. `ModsInv` says of each request which operation it can be in the middle of (`OpOf`), that the archive it has locked and those that
  are to give way are of its mod and that another is there to replace them (`Handled`), and, of the one that holds the mutex and was not overtaken, what it knows of list and
  archives at each of its steps (`Sees`). While nobody holds the mutex, list and archives agree (`FreeAgrees`).
- from `PlanConstants` (a portal is finite, and dependencies are as they are parsed), `PlansTypeCorrect` (`PlanTypeOK`), `PlansAlwaysWork`
  (`PlanWorks`) and `PlansEnd` (`PlanEnds`), for any portal, requests and limits and any order in which dependencies are met. The recursion of the planner is a stack of calls in the
  model, so its result is an invariant and needs no induction over data. `PlanInv` says that each dependency of a release that was
  ever read either waits in some call or is settled for good (`Going`): its constraint is among those of its mod, or its incompatibility is noted. With what is
  chosen always meeting all that was gathered, and read (`Fits`), nothing can be missing once the last call returns, although
  a mod that is chosen again leaves the demands of its former release behind. `ChosenMeets` rests on `NewestExists`: finitely many versions have
  a newest one, from the library's well-foundedness of finite sets. `PlansEnd` needs beside
  `PlanInv` that what the calls have to deal with is finite (`PlanEndsInv`); one lemma per action shows that its step comes nearer to the end. A distance of three naturals
  cannot fall for ever, so no request has infinitely many steps; that it takes them is the fairness of one goroutine, which is not modelled here.

**AccountsProofs**, the manager's users:

- from `AccountConstants` and `LegacyDatabases`, `AdministratorAlways` (`AdministratorRemains`), for any number of clients.
  `AccountsInv` adds that a row held for writing back has the role of its account, and so have two requests that hold the same id
  (`RolesHeld`, because ids are never reused), that one deletion is under way at a time (`OneDeletion`) and that it spares an administrator (`Spares`): a change of
  a password may bring a deleted row back, but never with another role.
- `CredentialsAlwaysKept` (`CredentialsKept`). `CredentialsInv` says that rows of the old database are only met while it is being migrated
  (`MigratedFirst`), which names a request holds (`NamesHeld`), and that a generated password is in its file until it is replaced (`InitialKept`). No uniqueness of names
  is needed: the first administrator's row, while its password is only in the file, is the oldest of all rows and not younger than any row a request
  holds, because ids grow and it was made when there was no other; so whoever changes the password of `admin` changes this row before the file is removed.
- from `LimitConstants`, `AttemptsAlwaysBounded` (`AttemptsBounded`), for any number of logins and any size of the table: failures that count and logins that will be counted
  exceed the limit by less than the number of logins. That no key gets more than the limit is not so, since test and count are two steps.
- from `HubConstants`, `HubTypeCorrect` (`HubTypeOK`), `RevokedNeverHear` (`RevokedHearNothingNew`) and `RoomsAlwaysWork` (`RoomsWork`), for any clients, rooms, senders and messages and any sizes. `HubInv` says that the cache holds the last lines of the log (`Logged`), what a room is in the
  middle of (`AtWork`), what its members have heard (`HasHeard`), who is known to the hub and so may be in a room (`Known`), and that nothing new of the log is
  queued for a client without the right to it (`NothingNew`). `RoomsThere` adds that a room somebody waits for has a goroutine that serves it. `NobodyStuck` says so by the
  guards of that room's actions, not with `ENABLED`, which the prover has no rules for; their effects are assignments that are always possible.
- `AccountsTypeCorrect`, `LimitTypeCorrect` and, by `AccessParts`, `AccessTypeCorrect` (`AccessTypes`). As in the stores, the composed run behaves as each component does.

Only model-checked: liveness under fairness (`StopAnswered`, `StopCompletes`, `OpsFinish`, ...), which is out of the prover's reach. Every invariant and every
action property of the passing runs has a theorem. The prover reads `@` in an `EXCEPT` within an `EXCEPT` as the
value of the outer one, so the modules name that value instead.

## 6 Disagreements found

Each is a run that TLC ends with a counterexample; `PROJECT.json` quotes the lines.

- **A queued stop is never delivered when RCON fails** (`stop_queued_without_rcon`).
  `connectRC` returns on a failing dial without marking the server ready
  (`rcon.go:27-30`); the stop waits for that mark. `Stopping` stays set, further stops
  are answered 409, and only a force stop or a crash ends the run.
- **Two children** (`two_children`). A force stop accepted for one run and executed during the
  startup of the next works on the old, reaped `Cmd`; its error path
  (`server_process.go:33-36`) clears the flags of the run published in between. The child lives,
  is reported as stopped, and the next start makes a second one.
- **Replacement of the mods in view of others** (`mods_replaced_in_view`). `DeleteAllMods` and
  `ImportModsFromSave` replace the active mods under the shared side of the gate.
- **A failed switch keeps the target's release** (`release_kept`). An old backup that cannot be removed
  makes the install report an error with the new release in place, and the switch returns that
  error without a rollback.
- **An administrator in name only** (`administrator_shadowed`). `gorm:"uniqueIndex,not null"` is one setting of an unknown name, so
  user names are not unique. A second administrator row of a taken name is counted and never found; the account that acts can be removed, and nobody is left
  who could log in as the administrator that remains.

What else was met while modelling and is part of the models, without a run of its own:

- `installStartupRCON` installs the console and marks the run ready in two critical sections. If the run ends and the next start is claimed
  between them, the mark is that of the next run, which is published ready without a console, and a stop of it is signalled at once. Its comment
  calls the state impossible (`rcon.go:49-51`).
- The routes that demand a stopped server test it once, before the handler (`routes.go:27`). Changes of mods test again; an upload or a removal
  of a save may go on while a start is claimed.
- A record of the credential file that a crash or a full disk cut short makes the file malformed for good (`user.go:171`); if the migration commits
  afterwards and `conf.json` cannot be written, each later start ends with a conflict, where `ARCHITECTURE.md:90` lets the migration be repeated.
- Two toggles of one list at once lose one of them: each writes the list it read before its turn (`mod_modSimple.go:151`).
- Readers of a map do not recover `.previous`; only the next job does (`map_snapshot_store.go:106`), where `TECHNICAL-NOTES.md:60` has a result replace the map atomically.
- The temporary file of an upload is listed as a save and may be the latest one (`saves.go:51`, `save_handler.go:146`).
- A walk over the packs takes a staging directory for a pack and may write a list into one that is being deleted (`mod_modpack.go:55`).
- The fallback of an atomic write removes the old file also when it could not be moved back (`atomic_file.go:75`).
- An update of the startup settings that fails after its write is answered like one that changed nothing (`mod_startup_settings.go:184`).
- An update may write `null` for the admin list, which the next start refuses.
- `restoreRuntimeStateFiles` writes over the files, so a crash or an error there can leave one that cannot be read.

## 7 What is not modelled

- Data that no property distinguishes: the save header, the property tree of `mod-settings.dat`, archives, log text,
  HTTP and JSON encoding, the argument list of the child, rendering of maps, previews.
- The Windows signal path and the Windows retries of atomic writes. (The fallback for platforms on
  which a rename does not replace is in `ServerSettings`.)
- Leaf locks, held over no other lock call.
- The deadline of the manager's shutdown: its Stop is a client, its patience is not
  a state.
- In the profile library: renaming, startup settings, the listing, and the deletion of a
  profile's checkpoints. A crash in the middle of a switch is modelled; the code
  has no recovery for it at startup, so no property promises one.
- In the checkpoints: the conditions under which the monitor asks for one, and live saves that a timeout leaves among
  the saves. The clean-stop checkpoint without the gate is the named exception of `BoundToProfile`.
- The portal's HTTP requests and credentials; downloads are a step that works or fails.
- Player lists, credentials, game mode, paths, the log, the user interface, scripts and the container. They keep no state that others
  rely on, or a single file that one atomic write replaces.
- Sessions are cookies of an account and a version; their encoding, CSRF and origin checks are not modelled.

`PROJECT.json` says for each component what is left out.

## 8 Plan

Done: the child process (`ServerLifecycle`), the locks, the swaps and the profile library, the installation of releases, the
checkpoints, maps, mods, planner, packs and merge, the three kinds of settings, saves, imports, accounts, logins and the hub, each
with its hazards; proofs for nineteen of the modules and for the composed runs. Left, in order:

1. The monitor's conditions for a checkpoint and its loop across restarts, with the live saves of a timeout.
2. Renaming of profiles, and the deletion of everything that belongs to one.
3. Uploads and updates of mods within a stored pack, as instances of `ModList`.
4. The decoding of data: version texts, the property tree and the save header, against reference definitions over bounded inputs.

## 9 Running it

    tlc -workers 2 -config lifecycle_overlap.cfg MCServerLifecycle
    tlapm ServerLifecycleProofs.tla

A run's module is named in `PROJECT.json`. The modules need the community modules and, for proofs, the library of TLAPS. The longest run takes
two to three minutes on two workers.
