-------------------------- MODULE LockCoordination --------------------------
(***************************************************************************)
(* The locks the manager's operations take, in the order they take them.   *)
(*                                                                         *)
(* profileDataGate, factorioProgramFilesGate and mapSnapshotStoreGate are  *)
(* sync.RWMutex, the other locks sync.Mutex; worldGenerationLock,          *)
(* releaseInstallLock, mapSnapshotOperationMutex and the startup-settings  *)
(* mutex are only tried, never waited for.  An operation is a program: the *)
(* sequence of its lock calls, its tests of the server's state and its     *)
(* uses of shared data.  The content of the data is left out: what matters *)
(* is who may be using what at the same time, and whether anybody waits    *)
(* for ever.  Locks held over no other lock call (stateMutex, the settings *)
(* and cache mutexes) are left out too.                                    *)
(***************************************************************************)
EXTENDS Integers, Sequences, FiniteSets

CONSTANTS
    Callers,  \* goroutines: API requests, monitors, readers, the snapshot worker
    Ops,      \* the operations they perform, names of Program
    Nobody    \* no caller

RWLocks == {"gate", "programFiles", "snapshotStore"}
Mutexes == {"profiles", "lifecycle", "checkpointOp", "rcon", "worldGen",
            "releaseInstall", "snapshotOp", "startupOp"}
Locks == RWLocks \cup Mutexes

-----------------------------------------------------------------------------
(* Instructions: a program is their concatenation.                         *)

RLock(l) == <<[do |-> "rlock", on |-> l]>>
Lock(m) == <<[do |-> "lock", on |-> m]>>
WLock(l) == Lock(l) \o <<[do |-> "drain", on |-> l]>> \* announce, wait for the readers
TryLock(m) == <<[do |-> "try", on |-> m]>>
Unlock(l) == <<[do |-> "unlock", on |-> l]>>
Require(condition) == <<[do |-> "require", on |-> condition]>> \* or return an error
Publish(state) == <<[do |-> "publish", on |-> state]>>
Read(data) == <<[do |-> "read", on |-> data]>>
Edit(data) == <<[do |-> "edit", on |-> data]>>       \* files changed one by one
Replace(data) == <<[do |-> "replace", on |-> data]>> \* the whole directory renamed away
MayReturn == <<[do |-> "choose", on |-> "return"]>>
AwaitExit == <<[do |-> "await", on |-> "child"]>>
Brief(m) == Lock(m) \o Unlock(m)                     \* e.g. activeProfileID

-----------------------------------------------------------------------------
(* The operations.  An error return releases what is held and so is a      *)
(* shorter program with the same lock order: only the ones that change     *)
(* the server or the data on their way out are listed.                     *)

Active == {"saves", "mods", "config"}

\* ProfileDataMiddleware: every API request whose handler does not lock the gate itself.
Request == RLock("gate")

ReadActive == Request \o Read(Active)

\* Mutant of EditMods: trusts the check that ServerOffMiddleware made.
EditModsUnchecked == Request \o Require("off") \o Lock("lifecycle") \o Edit({"mods"})
\* Upload, download, delete, toggle and configuration of mods: lockActiveModMutation.
EditMods == Request \o Require("off") \o Lock("lifecycle") \o Require("off") \o Edit({"mods"})

UpdateServerSettings == Request \o Lock("lifecycle") \o Require("off") \o Edit({"config"})

\* UploadSave and RemoveSave: ServerOffMiddleware is their only check.
EditSaves == Request \o Require("off") \o Edit({"saves"})

DeleteAllMods == Request \o Lock("lifecycle") \o Require("off") \o Replace({"mods"})

ImportModsFromSave ==
    RLock("gate") \o Lock("lifecycle") \o Require("off") \o RLock("programFiles")
    \o Read({"engine", "saves"}) \o Replace({"mods"})

UpdateModStartupSettings ==
    TryLock("startupOp") \o RLock("gate") \o Lock("lifecycle") \o Require("off")
    \o TryLock("worldGen") \o TryLock("snapshotOp") \o RLock("programFiles")
    \o Brief("profiles") \o Read({"engine", "mods"}) \o Require("off") \o Edit({"mods"})

\* LoadModPack and MergeModPack.
LoadModPack == WLock("gate") \o Lock("lifecycle") \o Require("off") \o Replace({"mods"})

RestoreModBackup ==
    WLock("gate") \o Lock("lifecycle") \o Require("off") \o Require("unreserved")
    \o Brief("profiles") \o Replace({"mods"})

\* Mutant of InstallRelease: does not reserve the engine.
InstallUnreserved ==
    TryLock("releaseInstall") \o Lock("lifecycle") \o Require("off")
    \o Unlock("lifecycle") \o WLock("programFiles") \o Replace({"engine"})
    \o Unlock("programFiles") \o Unlock("releaseInstall")
InstallRelease ==
    TryLock("releaseInstall") \o Lock("lifecycle") \o Require("off")
    \o TryLock("worldGen") \o Unlock("lifecycle") \o WLock("programFiles")
    \o Replace({"engine"}) \o Unlock("programFiles") \o Unlock("worldGen")
    \o Unlock("releaseInstall")

InstallReleaseRequest == Request \o InstallRelease

ProfileServerStopped == Require("off") \o Require("unreserved")
ReloadServer == Lock("lifecycle") \o Require("off") \o Unlock("lifecycle")
SetBuiltInFeatureMods ==
    Lock("lifecycle") \o Require("off") \o Edit({"mods"}) \o Unlock("lifecycle")

\* A switch between profiles of different releases; the other switches lock less.
SwitchBegin == Lock("profiles") \o ProfileServerStopped \o Read(Active) \o Edit({"stored"})
               \o InstallRelease \o Replace(Active)

\* Mutant of ActivateProfile: the gate's read side only.
ActivateShared == RLock("gate") \o SwitchBegin \o SetBuiltInFeatureMods
                  \o ReloadServer \o Edit({"stored"})
ActivateProfile == WLock("gate") \o SwitchBegin \o SetBuiltInFeatureMods
                   \o ReloadServer \o Edit({"stored"})

RollBackActivation == WLock("gate") \o SwitchBegin \o Replace(Active)
                      \o InstallRelease \o ReloadServer

CreateProfile == WLock("gate") \o Lock("profiles") \o ProfileServerStopped
                 \o Read(Active) \o Edit({"stored"})

UpdateProfileStartup == WLock("gate") \o Lock("profiles") \o ProfileServerStopped
                        \o Brief("lifecycle") \o Edit({"stored"})

DeleteProfile == Lock("profiles") \o Edit({"stored"}) \o WLock("snapshotStore")
                 \o Edit({"snapshots"})

\* Mutant of ListProfiles: the locks in the other order.
ListSwapped == Lock("profiles") \o RLock("gate") \o Read(Active \cup {"stored"})
ListProfiles == RLock("gate") \o Lock("profiles") \o Read(Active \cup {"stored"})

\* lockProfileBackup, of the export and of the import.
ExportProfileBackup == WLock("gate") \o Lock("checkpointOp") \o Lock("profiles")
                       \o ProfileServerStopped
                       \o Read(Active \cup {"stored", "checkpoints"})

\* GenerateWorldPreview and CreateWorld.
CreateWorld == Request \o TryLock("worldGen") \o Require("notRunning")
               \o Read({"engine"}) \o Edit({"saves"})

ClaimStart == RLock("gate") \o Lock("lifecycle") \o Require("off") \o TryLock("worldGen")
              \o Publish("starting") \o Unlock("lifecycle")
              \o Read(Active \cup {"engine"})
ReleaseGuards == Unlock("worldGen") \o Unlock("gate")

\* The start of a child, and its exit.
Start == ClaimStart \o Publish("running") \o ReleaseGuards
         \o AwaitExit \o Brief("rcon") \o Publish("stopped")
FailedStart == ClaimStart \o Publish("stopped") \o ReleaseGuards

CreateCheckpointLocked == Lock("checkpointOp") \o Brief("profiles") \o Read({"saves"})
                          \o Edit({"checkpoints"}) \o Unlock("checkpointOp")
SignalStop == Lock("lifecycle") \o Brief("rcon")

Stop == Request \o Require("on") \o Publish("stopping") \o MayReturn
        \o CreateCheckpointLocked \o SignalStop

Kill == Request \o Lock("lifecycle") \o Require("on") \o Brief("rcon")

\* connectRC of the output reader, when a stop was queued: outside the gate.
QueuedStop == Require("running") \o Brief("rcon") \o Require("stopping")
              \o CreateCheckpointLocked \o SignalStop

RconCommand == Request \o Lock("rcon")

CreateCheckpoint == Request \o CreateCheckpointLocked

RestoreCheckpoint == Request \o Lock("checkpointOp") \o Require("notRunning")
                     \o Brief("profiles") \o Edit({"saves"})

\* Mutant of MonitorTick: reads the schedule and creates the checkpoint under one lock.
MonitorNested == Require("running") \o RLock("gate") \o Lock("checkpointOp")
                 \o Brief("profiles") \o CreateCheckpointLocked \o Brief("rcon")
MonitorTick == Require("running") \o RLock("gate") \o Lock("checkpointOp")
               \o Brief("profiles") \o Unlock("checkpointOp")
               \o CreateCheckpointLocked \o Brief("rcon")

GenerateMapSnapshot == TryLock("snapshotOp") \o Brief("profiles") \o RLock("gate")
                       \o RLock("programFiles") \o Brief("profiles")
                       \o Read(Active \cup {"engine"})
                       \o WLock("snapshotStore") \o Edit({"snapshots"})

ReadMapSnapshot == Request \o Brief("profiles") \o RLock("snapshotStore")
                   \o Read({"snapshots"})

Program == [
    ReadActive |-> ReadActive, EditMods |-> EditMods, EditSaves |-> EditSaves,
    UpdateServerSettings |-> UpdateServerSettings, DeleteAllMods |-> DeleteAllMods,
    ImportModsFromSave |-> ImportModsFromSave,
    UpdateModStartupSettings |-> UpdateModStartupSettings,
    LoadModPack |-> LoadModPack, RestoreModBackup |-> RestoreModBackup,
    InstallReleaseRequest |-> InstallReleaseRequest,
    ActivateProfile |-> ActivateProfile, RollBackActivation |-> RollBackActivation,
    CreateProfile |-> CreateProfile, UpdateProfileStartup |-> UpdateProfileStartup,
    DeleteProfile |-> DeleteProfile, ListProfiles |-> ListProfiles,
    ExportProfileBackup |-> ExportProfileBackup, CreateWorld |-> CreateWorld,
    Start |-> Start, FailedStart |-> FailedStart, Stop |-> Stop, Kill |-> Kill,
    QueuedStop |-> QueuedStop, RconCommand |-> RconCommand,
    CreateCheckpoint |-> CreateCheckpoint, RestoreCheckpoint |-> RestoreCheckpoint,
    MonitorTick |-> MonitorTick, GenerateMapSnapshot |-> GenerateMapSnapshot,
    ReadMapSnapshot |-> ReadMapSnapshot]

ASSUME LockConstants ==
    /\ Ops \subseteq DOMAIN Program
    /\ Nobody \notin Callers

-----------------------------------------------------------------------------
VARIABLES
    owner,    \* owner[l]: who holds mutex l, or holds or announced the write side of l
    readers,  \* readers[l]: who holds the read side of l
    op,       \* op[p]: the operation of caller p
    pc,       \* pc[p]: the next instruction of its program
    status,   \* the server: stopped, starting or running
    stopping  \* a stop was requested

vars == <<owner, readers, op, pc, status, stopping>>

Idle == "idle"

Typed ==
    /\ owner \in [Locks -> Callers \cup {Nobody}]
    /\ readers \in [RWLocks -> SUBSET Callers]
    /\ op \in [Callers -> Ops \cup {Idle}]
    /\ \A p \in Callers : IF op[p] = Idle THEN pc[p] = 0
                                          ELSE pc[p] \in 1..(Len(Program[op[p]]) + 1)
    /\ status \in {"stopped", "starting", "running"}
    /\ stopping \in BOOLEAN

\* The types, and that no return leaks a lock: whoever holds a mutex or a side of a
\* read-write lock has an operation under way, and never both sides of one lock
\* (mod_startup_settings.go:221, server_lifecycle.go:82).
TypeOK ==
    /\ Typed
    /\ \A l \in Locks : owner[l] # Nobody => op[owner[l]] # Idle
    /\ \A l \in RWLocks : /\ \A p \in readers[l] : op[p] # Idle
                          /\ owner[l] \notin readers[l]

Init ==
    /\ owner = [l \in Locks |-> Nobody]
    /\ readers = [l \in RWLocks |-> {}]
    /\ op = [p \in Callers |-> Idle]
    /\ pc = [p \in Callers |-> 0]
    /\ status = "stopped"
    /\ stopping = FALSE

\* What p does next; past the end of its program, or when idle, nothing.
Instr(p) == IF op[p] = Idle \/ pc[p] > Len(Program[op[p]])
            THEN [do |-> "end", on |-> op[p]]
            ELSE Program[op[p]][pc[p]]

Step(p) == pc' = [pc EXCEPT ![p] = @ + 1] /\ UNCHANGED op

\* Mutant of ReleaseAll: the way out forgets the gate and the other shared locks.
ReleaseMutexes(p) ==
    /\ owner' = [l \in Locks |-> IF owner[l] = p THEN Nobody ELSE owner[l]]
    /\ op' = [op EXCEPT ![p] = Idle]
    /\ pc' = [pc EXCEPT ![p] = 0]
    /\ UNCHANGED readers
ReleaseAll(p) ==
    /\ owner' = [l \in Locks |-> IF owner[l] = p THEN Nobody ELSE owner[l]]
    /\ readers' = [l \in RWLocks |-> readers[l] \ {p}]
    /\ op' = [op EXCEPT ![p] = Idle]
    /\ pc' = [pc EXCEPT ![p] = 0]

Holds(condition) ==
    CASE condition = "off"        -> status = "stopped" /\ ~stopping
      [] condition = "notRunning" -> status # "running" /\ ~stopping
      [] condition = "unreserved" -> owner["worldGen"] = Nobody
      [] condition = "on"         -> status # "stopped"
      [] condition = "running"    -> status = "running"
      [] condition = "stopping"   -> status = "running" /\ stopping

-----------------------------------------------------------------------------
(* One action per instruction.                                             *)

Begin(p) ==
    /\ op[p] = Idle
    /\ \E o \in Ops : op' = [op EXCEPT ![p] = o]
    /\ pc' = [pc EXCEPT ![p] = 1]
    /\ UNCHANGED <<owner, readers, status, stopping>>

\* A writer that holds or has announced itself keeps new readers out.
TakeRead(p) ==
    LET i == Instr(p) IN
    /\ i.do = "rlock" /\ owner[i.on] = Nobody
    /\ readers' = [readers EXCEPT ![i.on] = @ \cup {p}]
    /\ Step(p)
    /\ UNCHANGED <<owner, status, stopping>>

Take(p) ==
    LET i == Instr(p) IN
    /\ i.do \in {"lock", "try"} /\ owner[i.on] = Nobody
    /\ owner' = [owner EXCEPT ![i.on] = p]
    /\ Step(p)
    /\ UNCHANGED <<readers, status, stopping>>

Drained(p) ==
    LET i == Instr(p) IN
    /\ i.do = "drain" /\ readers[i.on] = {}
    /\ Step(p)
    /\ UNCHANGED <<owner, readers, status, stopping>>

Release(p) ==
    LET i == Instr(p) IN
    /\ i.do = "unlock"
    /\ \/ /\ owner[i.on] = p
          /\ owner' = [owner EXCEPT ![i.on] = Nobody]
          /\ UNCHANGED readers
       \/ /\ owner[i.on] # p
          /\ readers' = [readers EXCEPT ![i.on] = @ \ {p}]
          /\ UNCHANGED owner
    /\ Step(p)
    /\ UNCHANGED <<status, stopping>>

Pass(p) ==
    LET i == Instr(p) IN
    /\ \/ i.do = "require" /\ Holds(i.on)
       \/ i.do \in {"read", "edit", "replace", "choose"}
    /\ Step(p)
    /\ UNCHANGED <<owner, readers, status, stopping>>

\* The child exits: a crash, or its shutdown.
Exit(p) ==
    /\ Instr(p).do = "await"
    /\ Step(p)
    /\ UNCHANGED <<owner, readers, status, stopping>>

PublishStatus(p) ==
    LET i == Instr(p) IN
    /\ i.do = "publish"
    /\ IF i.on = "stopping"
       THEN stopping' = (status # "stopped") /\ UNCHANGED status
       ELSE status' = i.on /\ stopping' = (stopping /\ i.on = "running")
    /\ Step(p)
    /\ UNCHANGED <<owner, readers>>

\* The end of the operation, a refused reservation or an error return.
Return(p) ==
    LET i == Instr(p) IN
    /\ op[p] # Idle
    /\ \/ i.do \in {"end", "choose"}
       \/ i.do = "require" /\ ~Holds(i.on)
       \/ i.do = "try" /\ owner[i.on] # Nobody
    /\ ReleaseAll(p)
    /\ UNCHANGED <<status, stopping>>

Work(p) == \/ TakeRead(p) \/ Take(p) \/ Drained(p) \/ Release(p) \/ Pass(p)
           \/ PublishStatus(p) \/ Return(p)

Next == \E p \in Callers : Begin(p) \/ Work(p) \/ Exit(p)

Spec == Init /\ [][Next]_vars

\* Neither sync.Mutex nor sync.RWMutex starves a goroutine that waits for it; file and
\* network operations end. Nothing makes a child exit.
LockFairness == \A p \in Callers : SF_vars(Work(p))
FairSpec == Spec /\ LockFairness

-----------------------------------------------------------------------------
(* Properties.                                                             *)

\* The callers p waits for.
Blockers(p) ==
    LET i == Instr(p) IN
    CASE i.do \in {"lock", "rlock"} -> {owner[i.on]} \ {Nobody}
      [] i.do = "drain"             -> readers[i.on]
      [] OTHER                      -> {}

\* No group of operations waits for each other, whichever locks and tries, and
\* whichever pending writers that keep new readers out, are involved.
NoDeadlock ==
    \A group \in (SUBSET Callers) \ {{}} :
        \E p \in group : Blockers(p) \cap group = {}

Uses(p) == IF Instr(p).do \in {"read", "edit", "replace"} THEN Instr(p).on ELSE {}
Changes(p) == IF Instr(p).do \in {"edit", "replace"} THEN Instr(p).on ELSE {}
Replaces(p) == IF Instr(p).do = "replace" THEN Instr(p).on ELSE {}

\* While the program files are replaced nobody reads them: no child, no startup, no
\* world generation, no map snapshot, no settings evaluation and no second install.
EngineStable ==
    \A p \in Callers : "engine" \in Replaces(p) =>
        /\ status = "stopped"
        /\ \A q \in Callers \ {p} : "engine" \notin Uses(q)

\* A switch of profile, pack or backup is seen by no request, start or map snapshot that
\* uses the active directories. The checkpoint of a queued stop is outside the gate and
\* outside this promise.
SwitchUnobserved ==
    \A p \in Callers :
        op[p] \in {"ActivateProfile", "RollBackActivation", "LoadModPack",
                   "RestoreModBackup"} /\ Replaces(p) # {} =>
        /\ status = "stopped"
        /\ \A q \in Callers \ {p} :
              op[q] # "QueuedStop" => Uses(q) \cap Replaces(p) = {}

\* Mods and configuration change only while no child is up or starting: the recheck
\* under the lifecycle lock closes the gap after ServerOffMiddleware.
ModsChangeStopped ==
    \A p \in Callers : Changes(p) \cap {"mods", "config"} # {} => status = "stopped"

\* Two operations never change the same part of the data at once. Save files are not
\* listed: two operations on saves change different files.
ChangesExclusive ==
    \A p, q \in Callers : p # q => Changes(p) \cap Changes(q) \subseteq {"saves"}

\* What a profile backup copies stays unchanged while it is copied.
BackupConsistent ==
    \A p, q \in Callers : op[p] = "ExportProfileBackup" => Uses(p) \cap Changes(q) = {}

\* Whoever uses data, a part of it or all of it for a backup, finds it stable, two
\* changes never meet, and a switch is seen by nobody (release_install.go:138,
\* profile_backup.go:45, profiles_switch.go:63).
DataStable == EngineStable /\ ChangesExclusive /\ BackupConsistent /\ SwitchUnobserved

\* Every operation ends, except that a start lasts as long as its child.
OpsFinish ==
    \A p \in Callers : op[p] \notin {Idle, "Start"} ~> op[p] \in {Idle, "Start"}

\* What src/src/factorio/mod_modpack.go:208-210 asks of every replacement of the mods:
\* no other reader or writer sees the rename window.
ReplacementUnobserved ==
    \A p, q \in Callers : p # q => "mods" \notin Replaces(p) \cap Uses(q)
=============================================================================
