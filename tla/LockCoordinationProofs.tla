----------------------- MODULE LockCoordinationProofs -----------------------
(***************************************************************************)
(* Proofs about LockCoordination for any number of callers and any choice  *)
(* of operations.  What the proofs need of a program (Obeys) is about the  *)
(* order and the nesting of its instructions and is shown program by       *)
(* program; the invariants follow for all that obey.                       *)
(***************************************************************************)
EXTENDS LockCoordination, WellFoundedInduction, TLAPS

-----------------------------------------------------------------------------
(* What a caller of program P has before instruction n.                    *)

Takes(i, l) == i.do \in {"lock", "try"} /\ i.on = l
Frees(i, l) == i.do = "unlock" /\ i.on = l
Kept(P, i, n, l) == \A k \in (i + 1)..(n - 1) : ~Frees(P[k], l)

Owns(P, n, l) == \E i \in 1..(n - 1) : Takes(P[i], l) /\ Kept(P, i, n, l)
Shares(P, n, l) ==
    \E i \in 1..(n - 1) : P[i].do = "rlock" /\ P[i].on = l /\ Kept(P, i, n, l)
\* It owns the write side of l and has waited for the readers.
Emptied(P, n, l) ==
    \E i \in 1..(n - 1) : P[i].do = "drain" /\ P[i].on = l /\ Kept(P, i, n, l)
InGate(P, n) == Owns(P, n, "gate") \/ Shares(P, n, "gate")

\* It found the server stopped, and has without a gap kept from others what a start needs.
TestsOff(i) == i.do = "require" /\ i.on = "off"
KeepsStartsOut(P, n) ==
    Owns(P, n, "lifecycle") \/ Owns(P, n, "worldGen") \/ Emptied(P, n, "gate")
Assured(P, n) ==
    \E i \in 1..(n - 1) :
        /\ TestsOff(P[i])
        /\ \A k \in (i + 1)..(n - 1) : P[k].do # "publish"
        /\ \A k \in (i + 1)..n : KeepsStartsOut(P, k)

\* Its start is published and its end is not.
Publishes(i, state) == i.do = "publish" /\ i.on = state
Claimed(P, n) ==
    \E i \in 1..(n - 1) :
        /\ Publishes(P[i], "starting")
        /\ \A k \in (i + 1)..(n - 1) : ~Publishes(P[k], "stopped")

-----------------------------------------------------------------------------
(* What every program obeys.                                               *)

Data == {"saves", "mods", "config", "engine", "stored", "snapshots", "checkpoints"}
Using == {"read", "edit", "replace"}
Changing == {"edit", "replace"}
WellFormed(P) ==
    /\ Len(P) \in Nat
    /\ \A n \in 1..Len(P) :
          /\ P[n].do \in {"rlock", "lock", "try", "drain", "unlock", "require", "publish",
                          "choose", "await"} \cup Using
          /\ P[n].do \in {"rlock", "drain"} => P[n].on \in RWLocks
          /\ P[n].do \in {"lock", "try", "unlock"} => P[n].on \in Locks
          /\ P[n].do = "publish" => P[n].on \in {"starting", "running", "stopped", "stopping"}
          /\ P[n].do \in Using => P[n].on \subseteq Data

\* No program takes both sides of a lock; it drains right after it announces itself.
OneSided(P) ==
    /\ \A i, k \in 1..Len(P) : P[i].do = "rlock" /\ P[k].do \in {"lock", "try"} => P[i].on # P[k].on
    /\ \A n \in 1..Len(P) : P[n].do = "drain" =>
          n > 1 /\ P[n - 1].do = "lock" /\ P[n - 1].on = P[n].on

\* Two orders of the locks that are waited for: the one of the switches between profiles,
\* which nobody else inside the gate can meet, and the one of all others.
Waited == RWLocks \cup {"profiles", "lifecycle", "checkpointOp", "rcon"}
Usual == [gate |-> 0, lifecycle |-> 1, programFiles |-> 2, checkpointOp |-> 3, profiles |-> 4,
          rcon |-> 5, snapshotStore |-> 6]
InSwitch == [gate |-> 0, checkpointOp |-> 1, profiles |-> 2, lifecycle |-> 3,
             programFiles |-> 4, rcon |-> 5, snapshotStore |-> 6]
Switches == {"ActivateProfile", "RollBackActivation", "UpdateProfileStartup"}

Waits(i) == i.do \in {"rlock", "lock", "drain"}
Orderly(P, o) ==
    \A n \in 1..Len(P) : Waits(P[n]) =>
        /\ P[n].on \in Waited
        /\ \A l \in Waited :
              Shares(P, n, l) \/ (Owns(P, n, l) /\ ~(P[n].do = "drain" /\ P[n].on = l)) =>
                 /\ o \notin Switches \/ ~Emptied(P, n, "gate") => Usual[l] < Usual[P[n].on]
                 /\ o \in Switches \/ ~InGate(P, n) => InSwitch[l] < InSwitch[P[n].on]

\* The locks under which data are used, changed and replaced.
Guarded(P) ==
    \A n \in 1..Len(P) : P[n].do \in Using =>
        /\ "engine" \in P[n].on => Shares(P, n, "programFiles") \/ Owns(P, n, "worldGen")
        /\ P[n].do \in Changing =>
              /\ P[n].on \cap {"mods", "config"} # {} =>
                    /\ Assured(P, n)
                    /\ \/ Emptied(P, n, "gate")
                       \/ Shares(P, n, "gate") /\ Owns(P, n, "lifecycle")
              /\ "engine" \in P[n].on => P[n].do = "replace"
              /\ "saves" \in P[n].on => InGate(P, n)
              /\ "stored" \in P[n].on => Owns(P, n, "profiles")
              /\ "snapshots" \in P[n].on => Owns(P, n, "snapshotStore")
              /\ "checkpoints" \in P[n].on => Owns(P, n, "checkpointOp")
        /\ P[n].do = "replace" /\ "engine" \in P[n].on =>
              Assured(P, n) /\ Owns(P, n, "worldGen") /\ Emptied(P, n, "programFiles")

\* A start is published by one who knows that there is none and lets none be published.
Published(P) ==
    \A n \in 1..Len(P) :
        /\ Publishes(P[n], "starting") =>
              /\ Assured(P, n) /\ Shares(P, n, "gate")
              /\ Owns(P, n, "lifecycle") /\ Owns(P, n, "worldGen")
        /\ Publishes(P[n], "running") \/ Publishes(P[n], "stopped") => Claimed(P, n)

\* P is the program of operation o.
Obeys(P, o) ==
    /\ WellFormed(P) /\ OneSided(P) /\ Orderly(P, o) /\ Guarded(P) /\ Published(P)

\* The active directories are used inside the gate.
UsesInGate(P) ==
    \A n \in 1..Len(P) : P[n].do \in Using /\ P[n].on \cap Active # {} => InGate(P, n)
\* They are replaced when everybody has left it.
ReplacesAlone(P) ==
    \A n \in 1..Len(P) : P[n].do = "replace" =>
        P[n].on \subseteq Active \cup {"engine"} /\ Assured(P, n) /\ Emptied(P, n, "gate")
\* They are copied together with what belongs to them.
CopiesAlone(P) ==
    \A n \in 1..Len(P) : P[n].do \in Using =>
        /\ P[n].do = "read" /\ P[n].on \subseteq Data \ {"engine", "snapshots"}
        /\ Emptied(P, n, "gate") /\ Owns(P, n, "profiles") /\ Owns(P, n, "checkpointOp")

Do(kind, x) == [do |-> kind, on |-> x]

-----------------------------------------------------------------------------
(* Each program, written out, obeys.                                       *)

USE DEF RLock, Lock, WLock, TryLock, Unlock, Require, Publish, Read, Edit, Replace, MayReturn,
        AwaitExit, Brief, Do, Active, Locks, RWLocks, Mutexes, Data, Using, Changing, Takes,
        Frees, Kept, Owns, Shares, Emptied, InGate, TestsOff, KeepsStartsOut, Assured,
        Publishes, Claimed, Waits, Waited, Usual, InSwitch

\* A request that only reads holds the read side of the gate.
LEMMA ReadActiveObeys == Obeys(ReadActive, "ReadActive") /\ UsesInGate(ReadActive)
<1>1. /\ Len(ReadActive) = 2 /\ ReadActive[1] = Do("rlock", "gate")
      /\ ReadActive[2] = Do("read", {"config", "mods", "saves"})
  BY DEF ReadActive, Active, Request
<1>2. WellFormed(ReadActive)
  BY <1>1 DEF WellFormed
<1>3. OneSided(ReadActive)
  BY <1>1 DEF OneSided
<1>4. Orderly(ReadActive, "ReadActive")
  BY <1>1 DEF Orderly, Switches
<1>5. Guarded(ReadActive)
  BY <1>1 DEF Guarded
<1>6. Published(ReadActive)
  BY <1>1 DEF Published
<1>7. UsesInGate(ReadActive)
  BY <1>1 DEF UsesInGate
<1> QED
  BY <1>2, <1>3, <1>4, <1>5, <1>6, <1>7, Zenon DEF Obeys

\* A change of the mods finds the server stopped under the lifecycle lock.
LEMMA EditModsObeys == Obeys(EditMods, "EditMods") /\ UsesInGate(EditMods)
<1>1. /\ Len(EditMods) = 5 /\ EditMods[1] = Do("rlock", "gate")
      /\ EditMods[2] = Do("require", "off") /\ EditMods[3] = Do("lock", "lifecycle")
      /\ EditMods[4] = Do("require", "off") /\ EditMods[5] = Do("edit", {"mods"})
  BY DEF EditMods, Request
<1>2. WellFormed(EditMods)
  BY <1>1 DEF WellFormed
<1>3. OneSided(EditMods)
  BY <1>1 DEF OneSided
<1>4. Orderly(EditMods, "EditMods")
  BY <1>1 DEF Orderly, Switches
<1>5. Guarded(EditMods)
  BY <1>1 DEF Guarded
<1>6. Published(EditMods)
  BY <1>1 DEF Published
<1>7. UsesInGate(EditMods)
  BY <1>1 DEF UsesInGate
<1> QED
  BY <1>2, <1>3, <1>4, <1>5, <1>6, <1>7, Zenon DEF Obeys

\* A change of the saves is inside the gate.
LEMMA EditSavesObeys == Obeys(EditSaves, "EditSaves") /\ UsesInGate(EditSaves)
<1>1. /\ Len(EditSaves) = 3 /\ EditSaves[1] = Do("rlock", "gate")
      /\ EditSaves[2] = Do("require", "off") /\ EditSaves[3] = Do("edit", {"saves"})
  BY DEF EditSaves, Request
<1>2. WellFormed(EditSaves)
  BY <1>1 DEF WellFormed
<1>3. OneSided(EditSaves)
  BY <1>1 DEF OneSided
<1>4. Orderly(EditSaves, "EditSaves")
  BY <1>1 DEF Orderly, Switches
<1>5. Guarded(EditSaves)
  BY <1>1 DEF Guarded
<1>6. Published(EditSaves)
  BY <1>1 DEF Published
<1>7. UsesInGate(EditSaves)
  BY <1>1 DEF UsesInGate
<1> QED
  BY <1>2, <1>3, <1>4, <1>5, <1>6, <1>7, Zenon DEF Obeys

\* A change of the configuration finds the server stopped under the lifecycle lock.
LEMMA UpdateServerSettingsObeys ==
    /\ Obeys(UpdateServerSettings, "UpdateServerSettings")
    /\ UsesInGate(UpdateServerSettings)
<1>1. /\ Len(UpdateServerSettings) = 4 /\ UpdateServerSettings[1] = Do("rlock", "gate")
      /\ UpdateServerSettings[2] = Do("lock", "lifecycle")
      /\ UpdateServerSettings[3] = Do("require", "off")
      /\ UpdateServerSettings[4] = Do("edit", {"config"})
  BY DEF UpdateServerSettings, Request
<1>2. WellFormed(UpdateServerSettings)
  BY <1>1 DEF WellFormed
<1>3. OneSided(UpdateServerSettings)
  BY <1>1 DEF OneSided
<1>4. Orderly(UpdateServerSettings, "UpdateServerSettings")
  BY <1>1 DEF Orderly, Switches
<1>5. Guarded(UpdateServerSettings)
  BY <1>1 DEF Guarded
<1>6. Published(UpdateServerSettings)
  BY <1>1 DEF Published
<1>7. UsesInGate(UpdateServerSettings)
  BY <1>1 DEF UsesInGate
<1> QED
  BY <1>2, <1>3, <1>4, <1>5, <1>6, <1>7, Zenon DEF Obeys

\* So does the replacement of all mods.
LEMMA DeleteAllModsObeys == Obeys(DeleteAllMods, "DeleteAllMods") /\ UsesInGate(DeleteAllMods)
<1>1. /\ Len(DeleteAllMods) = 4 /\ DeleteAllMods[1] = Do("rlock", "gate")
      /\ DeleteAllMods[2] = Do("lock", "lifecycle") /\ DeleteAllMods[3] = Do("require", "off")
      /\ DeleteAllMods[4] = Do("replace", {"mods"})
  BY DEF DeleteAllMods, Request
<1>2. WellFormed(DeleteAllMods)
  BY <1>1 DEF WellFormed
<1>3. OneSided(DeleteAllMods)
  BY <1>1 DEF OneSided
<1>4. Orderly(DeleteAllMods, "DeleteAllMods")
  BY <1>1 DEF Orderly, Switches
<1>5. Guarded(DeleteAllMods)
  BY <1>1 DEF Guarded
<1>6. Published(DeleteAllMods)
  BY <1>1 DEF Published
<1>7. UsesInGate(DeleteAllMods)
  BY <1>1 DEF UsesInGate
<1> QED
  BY <1>2, <1>3, <1>4, <1>5, <1>6, <1>7, Zenon DEF Obeys

\* The import of mods from a save reads the engine under its lock.
LEMMA ImportModsFromSaveObeys ==
    /\ Obeys(ImportModsFromSave, "ImportModsFromSave")
    /\ UsesInGate(ImportModsFromSave)
<1>1. /\ Len(ImportModsFromSave) = 6 /\ ImportModsFromSave[1] = Do("rlock", "gate")
      /\ ImportModsFromSave[2] = Do("lock", "lifecycle")
      /\ ImportModsFromSave[3] = Do("require", "off")
      /\ ImportModsFromSave[4] = Do("rlock", "programFiles")
      /\ ImportModsFromSave[5] = Do("read", {"engine", "saves"})
      /\ ImportModsFromSave[6] = Do("replace", {"mods"})
  BY DEF ImportModsFromSave
<1>2. WellFormed(ImportModsFromSave)
  BY <1>1 DEF WellFormed
<1>3. OneSided(ImportModsFromSave)
  BY <1>1 DEF OneSided
<1>4. Orderly(ImportModsFromSave, "ImportModsFromSave")
  BY <1>1 DEF Orderly, Switches
<1>5. Guarded(ImportModsFromSave)
  BY <1>1 DEF Guarded
<1>6. Published(ImportModsFromSave)
  BY <1>1 DEF Published
<1>7. UsesInGate(ImportModsFromSave)
  BY <1>1 DEF UsesInGate
<1> QED
  BY <1>2, <1>3, <1>4, <1>5, <1>6, <1>7, Zenon DEF Obeys

\* Three locks are tried and never waited for, four nest in the usual order.
LEMMA UpdateModStartupSettingsObeys ==
    /\ Obeys(UpdateModStartupSettings, "UpdateModStartupSettings")
    /\ UsesInGate(UpdateModStartupSettings)
<1>1. /\ Len(UpdateModStartupSettings) = 12 /\ UpdateModStartupSettings[1] = Do("try", "startupOp")
      /\ UpdateModStartupSettings[2] = Do("rlock", "gate")
      /\ UpdateModStartupSettings[3] = Do("lock", "lifecycle")
      /\ UpdateModStartupSettings[4] = Do("require", "off")
      /\ UpdateModStartupSettings[5] = Do("try", "worldGen")
      /\ UpdateModStartupSettings[6] = Do("try", "snapshotOp")
      /\ UpdateModStartupSettings[7] = Do("rlock", "programFiles")
      /\ UpdateModStartupSettings[8] = Do("lock", "profiles")
      /\ UpdateModStartupSettings[9] = Do("unlock", "profiles")
      /\ UpdateModStartupSettings[10] = Do("read", {"engine", "mods"})
      /\ UpdateModStartupSettings[11] = Do("require", "off")
  BY DEF UpdateModStartupSettings
<1>2. /\ UpdateModStartupSettings[12] = Do("edit", {"mods"})
  BY DEF UpdateModStartupSettings
<1>3. WellFormed(UpdateModStartupSettings)
  BY <1>1, <1>2 DEF WellFormed
<1>4. OneSided(UpdateModStartupSettings)
  BY <1>1, <1>2 DEF OneSided
<1>5. Orderly(UpdateModStartupSettings, "UpdateModStartupSettings")
  BY <1>1, <1>2 DEF Orderly, Switches
<1>6. Guarded(UpdateModStartupSettings)
  BY <1>1, <1>2 DEF Guarded
<1>7. Published(UpdateModStartupSettings)
  BY <1>1, <1>2 DEF Published
<1>8. UsesInGate(UpdateModStartupSettings)
  BY <1>1, <1>2 DEF UsesInGate
<1> QED
  BY <1>3, <1>4, <1>5, <1>6, <1>7, <1>8, Zenon DEF Obeys

\* A pack is loaded when everybody has left the gate.
LEMMA LoadModPackObeys ==
    /\ Obeys(LoadModPack, "LoadModPack")
    /\ UsesInGate(LoadModPack)
    /\ ReplacesAlone(LoadModPack)
<1>1. /\ Len(LoadModPack) = 5 /\ LoadModPack[1] = Do("lock", "gate")
      /\ LoadModPack[2] = Do("drain", "gate") /\ LoadModPack[3] = Do("lock", "lifecycle")
      /\ LoadModPack[4] = Do("require", "off") /\ LoadModPack[5] = Do("replace", {"mods"})
  BY DEF LoadModPack
<1>2. WellFormed(LoadModPack)
  BY <1>1 DEF WellFormed
<1>3. OneSided(LoadModPack)
  BY <1>1 DEF OneSided
<1>4. Orderly(LoadModPack, "LoadModPack")
  BY <1>1 DEF Orderly, Switches
<1>5. Guarded(LoadModPack)
  BY <1>1 DEF Guarded
<1>6. Published(LoadModPack)
  BY <1>1 DEF Published
<1>7. UsesInGate(LoadModPack)
  BY <1>1 DEF UsesInGate
<1>8. ReplacesAlone(LoadModPack)
  BY <1>1 DEF ReplacesAlone
<1> QED
  BY <1>2, <1>3, <1>4, <1>5, <1>6, <1>7, <1>8, Zenon DEF Obeys

\* So is a backup of the mods restored.
LEMMA RestoreModBackupObeys ==
    /\ Obeys(RestoreModBackup, "RestoreModBackup")
    /\ UsesInGate(RestoreModBackup)
    /\ ReplacesAlone(RestoreModBackup)
<1>1. /\ Len(RestoreModBackup) = 8 /\ RestoreModBackup[1] = Do("lock", "gate")
      /\ RestoreModBackup[2] = Do("drain", "gate") /\ RestoreModBackup[3] = Do("lock", "lifecycle")
      /\ RestoreModBackup[4] = Do("require", "off")
      /\ RestoreModBackup[5] = Do("require", "unreserved")
      /\ RestoreModBackup[6] = Do("lock", "profiles")
      /\ RestoreModBackup[7] = Do("unlock", "profiles")
      /\ RestoreModBackup[8] = Do("replace", {"mods"})
  BY DEF RestoreModBackup
<1>2. WellFormed(RestoreModBackup)
  BY <1>1 DEF WellFormed
<1>3. OneSided(RestoreModBackup)
  BY <1>1 DEF OneSided
<1>4. Orderly(RestoreModBackup, "RestoreModBackup")
  BY <1>1 DEF Orderly, Switches
<1>5. Guarded(RestoreModBackup)
  BY <1>1 DEF Guarded
<1>6. Published(RestoreModBackup)
  BY <1>1 DEF Published
<1>7. UsesInGate(RestoreModBackup)
  BY <1>1 DEF UsesInGate
<1>8. ReplacesAlone(RestoreModBackup)
  BY <1>1 DEF ReplacesAlone
<1> QED
  BY <1>2, <1>3, <1>4, <1>5, <1>6, <1>7, <1>8, Zenon DEF Obeys

\* A release is installed when the readers of the program files have gone.
LEMMA InstallReleaseRequestObeys ==
    /\ Obeys(InstallReleaseRequest, "InstallReleaseRequest")
    /\ UsesInGate(InstallReleaseRequest)
<1>1. /\ Len(InstallReleaseRequest) = 12 /\ InstallReleaseRequest[1] = Do("rlock", "gate")
      /\ InstallReleaseRequest[2] = Do("try", "releaseInstall")
      /\ InstallReleaseRequest[3] = Do("lock", "lifecycle")
      /\ InstallReleaseRequest[4] = Do("require", "off")
      /\ InstallReleaseRequest[5] = Do("try", "worldGen")
      /\ InstallReleaseRequest[6] = Do("unlock", "lifecycle")
      /\ InstallReleaseRequest[7] = Do("lock", "programFiles")
      /\ InstallReleaseRequest[8] = Do("drain", "programFiles")
      /\ InstallReleaseRequest[9] = Do("replace", {"engine"})
      /\ InstallReleaseRequest[10] = Do("unlock", "programFiles")
      /\ InstallReleaseRequest[11] = Do("unlock", "worldGen")
  BY DEF InstallReleaseRequest, Request, InstallRelease
<1>2. /\ InstallReleaseRequest[12] = Do("unlock", "releaseInstall")
  BY DEF InstallReleaseRequest, Request, InstallRelease
<1>3. WellFormed(InstallReleaseRequest)
  BY <1>1, <1>2 DEF WellFormed
<1>4. OneSided(InstallReleaseRequest)
  BY <1>1, <1>2 DEF OneSided
<1>5. Orderly(InstallReleaseRequest, "InstallReleaseRequest")
  BY <1>1, <1>2 DEF Orderly, Switches
<1>6. Guarded(InstallReleaseRequest)
  BY <1>1, <1>2 DEF Guarded
<1>7. Published(InstallReleaseRequest)
  BY <1>1, <1>2 DEF Published
<1>8. UsesInGate(InstallReleaseRequest)
  BY <1>1, <1>2 DEF UsesInGate
<1> QED
  BY <1>3, <1>4, <1>5, <1>6, <1>7, <1>8, Zenon DEF Obeys

\* A switch takes the profiles before the lifecycle lock, alone in the gate.
LEMMA ActivateProfileObeys ==
    /\ Obeys(ActivateProfile, "ActivateProfile")
    /\ UsesInGate(ActivateProfile)
    /\ ReplacesAlone(ActivateProfile)
<1>1. /\ Len(ActivateProfile) = 27 /\ ActivateProfile[1] = Do("lock", "gate")
      /\ ActivateProfile[2] = Do("drain", "gate") /\ ActivateProfile[3] = Do("lock", "profiles")
      /\ ActivateProfile[4] = Do("require", "off")
      /\ ActivateProfile[5] = Do("require", "unreserved")
      /\ ActivateProfile[6] = Do("read", {"config", "mods", "saves"})
      /\ ActivateProfile[7] = Do("edit", {"stored"})
      /\ ActivateProfile[8] = Do("try", "releaseInstall")
      /\ ActivateProfile[9] = Do("lock", "lifecycle") /\ ActivateProfile[10] = Do("require", "off")
      /\ ActivateProfile[11] = Do("try", "worldGen")
  BY DEF ActivateProfile, Active, InstallRelease, ProfileServerStopped, ReloadServer,
    SetBuiltInFeatureMods, SwitchBegin
<1>2. /\ ActivateProfile[12] = Do("unlock", "lifecycle")
      /\ ActivateProfile[13] = Do("lock", "programFiles")
      /\ ActivateProfile[14] = Do("drain", "programFiles")
      /\ ActivateProfile[15] = Do("replace", {"engine"})
      /\ ActivateProfile[16] = Do("unlock", "programFiles")
      /\ ActivateProfile[17] = Do("unlock", "worldGen")
      /\ ActivateProfile[18] = Do("unlock", "releaseInstall")
      /\ ActivateProfile[19] = Do("replace", {"config", "mods", "saves"})
      /\ ActivateProfile[20] = Do("lock", "lifecycle") /\ ActivateProfile[21] = Do("require", "off")
      /\ ActivateProfile[22] = Do("edit", {"mods"})
      /\ ActivateProfile[23] = Do("unlock", "lifecycle")
  BY DEF ActivateProfile, Active, InstallRelease, ProfileServerStopped, ReloadServer,
    SetBuiltInFeatureMods, SwitchBegin
<1>3. /\ ActivateProfile[24] = Do("lock", "lifecycle") /\ ActivateProfile[25] = Do("require", "off")
      /\ ActivateProfile[26] = Do("unlock", "lifecycle")
      /\ ActivateProfile[27] = Do("edit", {"stored"})
  BY DEF ActivateProfile, Active, InstallRelease, ProfileServerStopped, ReloadServer,
    SetBuiltInFeatureMods, SwitchBegin
<1>4. WellFormed(ActivateProfile)
  BY <1>1, <1>2, <1>3 DEF WellFormed
<1>5. OneSided(ActivateProfile)
  BY <1>1, <1>2, <1>3 DEF OneSided
<1>6. Orderly(ActivateProfile, "ActivateProfile")
  BY <1>1, <1>2, <1>3 DEF Orderly, Switches
<1>7. Guarded(ActivateProfile)
  BY <1>1, <1>2, <1>3 DEF Guarded
<1>8. Published(ActivateProfile)
  BY <1>1, <1>2, <1>3 DEF Published
<1>9. UsesInGate(ActivateProfile)
  BY <1>1, <1>2, <1>3 DEF UsesInGate
<1>10. ReplacesAlone(ActivateProfile)
  BY <1>1, <1>2, <1>3 DEF ReplacesAlone
<1> QED
  BY <1>4, <1>5, <1>6, <1>7, <1>8, <1>9, <1>10, Zenon DEF Obeys

\* So does the switch that is rolled back.
LEMMA RollBackActivationObeys ==
    /\ Obeys(RollBackActivation, "RollBackActivation")
    /\ UsesInGate(RollBackActivation)
    /\ ReplacesAlone(RollBackActivation)
<1>1. /\ Len(RollBackActivation) = 34 /\ RollBackActivation[1] = Do("lock", "gate")
      /\ RollBackActivation[2] = Do("drain", "gate")
      /\ RollBackActivation[3] = Do("lock", "profiles")
      /\ RollBackActivation[4] = Do("require", "off")
      /\ RollBackActivation[5] = Do("require", "unreserved")
      /\ RollBackActivation[6] = Do("read", {"config", "mods", "saves"})
      /\ RollBackActivation[7] = Do("edit", {"stored"})
      /\ RollBackActivation[8] = Do("try", "releaseInstall")
      /\ RollBackActivation[9] = Do("lock", "lifecycle")
      /\ RollBackActivation[10] = Do("require", "off")
      /\ RollBackActivation[11] = Do("try", "worldGen")
  BY DEF RollBackActivation, Active, InstallRelease, ProfileServerStopped, ReloadServer, SwitchBegin
<1>2. /\ RollBackActivation[12] = Do("unlock", "lifecycle")
      /\ RollBackActivation[13] = Do("lock", "programFiles")
      /\ RollBackActivation[14] = Do("drain", "programFiles")
      /\ RollBackActivation[15] = Do("replace", {"engine"})
      /\ RollBackActivation[16] = Do("unlock", "programFiles")
      /\ RollBackActivation[17] = Do("unlock", "worldGen")
      /\ RollBackActivation[18] = Do("unlock", "releaseInstall")
      /\ RollBackActivation[19] = Do("replace", {"config", "mods", "saves"})
      /\ RollBackActivation[20] = Do("replace", {"config", "mods", "saves"})
      /\ RollBackActivation[21] = Do("try", "releaseInstall")
      /\ RollBackActivation[22] = Do("lock", "lifecycle")
      /\ RollBackActivation[23] = Do("require", "off")
  BY DEF RollBackActivation, Active, InstallRelease, ProfileServerStopped, ReloadServer, SwitchBegin
<1>3. /\ RollBackActivation[24] = Do("try", "worldGen")
      /\ RollBackActivation[25] = Do("unlock", "lifecycle")
      /\ RollBackActivation[26] = Do("lock", "programFiles")
      /\ RollBackActivation[27] = Do("drain", "programFiles")
      /\ RollBackActivation[28] = Do("replace", {"engine"})
      /\ RollBackActivation[29] = Do("unlock", "programFiles")
      /\ RollBackActivation[30] = Do("unlock", "worldGen")
      /\ RollBackActivation[31] = Do("unlock", "releaseInstall")
      /\ RollBackActivation[32] = Do("lock", "lifecycle")
      /\ RollBackActivation[33] = Do("require", "off")
      /\ RollBackActivation[34] = Do("unlock", "lifecycle")
  BY DEF RollBackActivation, Active, InstallRelease, ProfileServerStopped, ReloadServer, SwitchBegin
<1>4. WellFormed(RollBackActivation)
  BY <1>1, <1>2, <1>3 DEF WellFormed
<1>5. OneSided(RollBackActivation)
  BY <1>1, <1>2, <1>3 DEF OneSided
<1>6. Orderly(RollBackActivation, "RollBackActivation")
  BY <1>1, <1>2, <1>3 DEF Orderly, Switches
<1>7. Guarded(RollBackActivation)
  BY <1>1, <1>2, <1>3 DEF Guarded
<1>8. Published(RollBackActivation)
  BY <1>1, <1>2, <1>3 DEF Published
<1>9. UsesInGate(RollBackActivation)
  BY <1>1, <1>2, <1>3 DEF UsesInGate
<1>10. ReplacesAlone(RollBackActivation)
  BY <1>1, <1>2, <1>3 DEF ReplacesAlone
<1> QED
  BY <1>4, <1>5, <1>6, <1>7, <1>8, <1>9, <1>10, Zenon DEF Obeys

\* A profile is created alone in the gate.
LEMMA CreateProfileObeys == Obeys(CreateProfile, "CreateProfile") /\ UsesInGate(CreateProfile)
<1>1. /\ Len(CreateProfile) = 7 /\ CreateProfile[1] = Do("lock", "gate")
      /\ CreateProfile[2] = Do("drain", "gate") /\ CreateProfile[3] = Do("lock", "profiles")
      /\ CreateProfile[4] = Do("require", "off") /\ CreateProfile[5] = Do("require", "unreserved")
      /\ CreateProfile[6] = Do("read", {"config", "mods", "saves"})
      /\ CreateProfile[7] = Do("edit", {"stored"})
  BY DEF CreateProfile, Active, ProfileServerStopped
<1>2. WellFormed(CreateProfile)
  BY <1>1 DEF WellFormed
<1>3. OneSided(CreateProfile)
  BY <1>1 DEF OneSided
<1>4. Orderly(CreateProfile, "CreateProfile")
  BY <1>1 DEF Orderly, Switches
<1>5. Guarded(CreateProfile)
  BY <1>1 DEF Guarded
<1>6. Published(CreateProfile)
  BY <1>1 DEF Published
<1>7. UsesInGate(CreateProfile)
  BY <1>1 DEF UsesInGate
<1> QED
  BY <1>2, <1>3, <1>4, <1>5, <1>6, <1>7, Zenon DEF Obeys

\* Its startup is checked under the lifecycle lock, taken inside the profiles lock.
LEMMA UpdateProfileStartupObeys ==
    /\ Obeys(UpdateProfileStartup, "UpdateProfileStartup")
    /\ UsesInGate(UpdateProfileStartup)
<1>1. /\ Len(UpdateProfileStartup) = 8 /\ UpdateProfileStartup[1] = Do("lock", "gate")
      /\ UpdateProfileStartup[2] = Do("drain", "gate")
      /\ UpdateProfileStartup[3] = Do("lock", "profiles")
      /\ UpdateProfileStartup[4] = Do("require", "off")
      /\ UpdateProfileStartup[5] = Do("require", "unreserved")
      /\ UpdateProfileStartup[6] = Do("lock", "lifecycle")
      /\ UpdateProfileStartup[7] = Do("unlock", "lifecycle")
      /\ UpdateProfileStartup[8] = Do("edit", {"stored"})
  BY DEF UpdateProfileStartup, ProfileServerStopped
<1>2. WellFormed(UpdateProfileStartup)
  BY <1>1 DEF WellFormed
<1>3. OneSided(UpdateProfileStartup)
  BY <1>1 DEF OneSided
<1>4. Orderly(UpdateProfileStartup, "UpdateProfileStartup")
  BY <1>1 DEF Orderly, Switches
<1>5. Guarded(UpdateProfileStartup)
  BY <1>1 DEF Guarded
<1>6. Published(UpdateProfileStartup)
  BY <1>1 DEF Published
<1>7. UsesInGate(UpdateProfileStartup)
  BY <1>1 DEF UsesInGate
<1> QED
  BY <1>2, <1>3, <1>4, <1>5, <1>6, <1>7, Zenon DEF Obeys

\* A profile is deleted outside the gate, with its map snapshots.
LEMMA DeleteProfileObeys == Obeys(DeleteProfile, "DeleteProfile") /\ UsesInGate(DeleteProfile)
<1>1. /\ Len(DeleteProfile) = 5 /\ DeleteProfile[1] = Do("lock", "profiles")
      /\ DeleteProfile[2] = Do("edit", {"stored"}) /\ DeleteProfile[3] = Do("lock", "snapshotStore")
      /\ DeleteProfile[4] = Do("drain", "snapshotStore")
      /\ DeleteProfile[5] = Do("edit", {"snapshots"})
  BY DEF DeleteProfile
<1>2. WellFormed(DeleteProfile)
  BY <1>1 DEF WellFormed
<1>3. OneSided(DeleteProfile)
  BY <1>1 DEF OneSided
<1>4. Orderly(DeleteProfile, "DeleteProfile")
  BY <1>1 DEF Orderly, Switches
<1>5. Guarded(DeleteProfile)
  BY <1>1 DEF Guarded
<1>6. Published(DeleteProfile)
  BY <1>1 DEF Published
<1>7. UsesInGate(DeleteProfile)
  BY <1>1 DEF UsesInGate
<1> QED
  BY <1>2, <1>3, <1>4, <1>5, <1>6, <1>7, Zenon DEF Obeys

\* A listing takes the gate before the profiles.
LEMMA ListProfilesObeys == Obeys(ListProfiles, "ListProfiles") /\ UsesInGate(ListProfiles)
<1>1. /\ Len(ListProfiles) = 3 /\ ListProfiles[1] = Do("rlock", "gate")
      /\ ListProfiles[2] = Do("lock", "profiles")
      /\ ListProfiles[3] = Do("read", {"config", "mods", "saves", "stored"})
  BY DEF ListProfiles, Active
<1>2. WellFormed(ListProfiles)
  BY <1>1 DEF WellFormed
<1>3. OneSided(ListProfiles)
  BY <1>1 DEF OneSided
<1>4. Orderly(ListProfiles, "ListProfiles")
  BY <1>1 DEF Orderly, Switches
<1>5. Guarded(ListProfiles)
  BY <1>1 DEF Guarded
<1>6. Published(ListProfiles)
  BY <1>1 DEF Published
<1>7. UsesInGate(ListProfiles)
  BY <1>1 DEF UsesInGate
<1> QED
  BY <1>2, <1>3, <1>4, <1>5, <1>6, <1>7, Zenon DEF Obeys

\* A profile backup is copied with everybody else out of the gate and of the stores.
LEMMA ExportProfileBackupObeys ==
    /\ Obeys(ExportProfileBackup, "ExportProfileBackup")
    /\ UsesInGate(ExportProfileBackup)
    /\ CopiesAlone(ExportProfileBackup)
<1>1. /\ Len(ExportProfileBackup) = 7 /\ ExportProfileBackup[1] = Do("lock", "gate")
      /\ ExportProfileBackup[2] = Do("drain", "gate")
      /\ ExportProfileBackup[3] = Do("lock", "checkpointOp")
      /\ ExportProfileBackup[4] = Do("lock", "profiles")
      /\ ExportProfileBackup[5] = Do("require", "off")
      /\ ExportProfileBackup[6] = Do("require", "unreserved")
      /\ ExportProfileBackup[7] = Do("read", {"checkpoints", "config", "mods", "saves", "stored"})
  BY DEF ExportProfileBackup, Active, ProfileServerStopped
<1>2. WellFormed(ExportProfileBackup)
  BY <1>1 DEF WellFormed
<1>3. OneSided(ExportProfileBackup)
  BY <1>1 DEF OneSided
<1>4. Orderly(ExportProfileBackup, "ExportProfileBackup")
  BY <1>1 DEF Orderly, Switches
<1>5. Guarded(ExportProfileBackup)
  BY <1>1 DEF Guarded
<1>6. Published(ExportProfileBackup)
  BY <1>1 DEF Published
<1>7. UsesInGate(ExportProfileBackup)
  BY <1>1 DEF UsesInGate
<1>8. CopiesAlone(ExportProfileBackup)
  BY <1>1 DEF CopiesAlone
<1> QED
  BY <1>2, <1>3, <1>4, <1>5, <1>6, <1>7, <1>8, Zenon DEF Obeys

\* A world is generated by the holder of the reservation of the program files.
LEMMA CreateWorldObeys == Obeys(CreateWorld, "CreateWorld") /\ UsesInGate(CreateWorld)
<1>1. /\ Len(CreateWorld) = 5 /\ CreateWorld[1] = Do("rlock", "gate")
      /\ CreateWorld[2] = Do("try", "worldGen") /\ CreateWorld[3] = Do("require", "notRunning")
      /\ CreateWorld[4] = Do("read", {"engine"}) /\ CreateWorld[5] = Do("edit", {"saves"})
  BY DEF CreateWorld, Request
<1>2. WellFormed(CreateWorld)
  BY <1>1 DEF WellFormed
<1>3. OneSided(CreateWorld)
  BY <1>1 DEF OneSided
<1>4. Orderly(CreateWorld, "CreateWorld")
  BY <1>1 DEF Orderly, Switches
<1>5. Guarded(CreateWorld)
  BY <1>1 DEF Guarded
<1>6. Published(CreateWorld)
  BY <1>1 DEF Published
<1>7. UsesInGate(CreateWorld)
  BY <1>1 DEF UsesInGate
<1> QED
  BY <1>2, <1>3, <1>4, <1>5, <1>6, <1>7, Zenon DEF Obeys

\* A start is published under four locks, its end by the same goroutine.
LEMMA StartObeys == Obeys(Start, "Start") /\ UsesInGate(Start)
<1>1. /\ Len(Start) = 14 /\ Start[1] = Do("rlock", "gate") /\ Start[2] = Do("lock", "lifecycle")
      /\ Start[3] = Do("require", "off") /\ Start[4] = Do("try", "worldGen")
      /\ Start[5] = Do("publish", "starting") /\ Start[6] = Do("unlock", "lifecycle")
      /\ Start[7] = Do("read", {"config", "engine", "mods", "saves"})
      /\ Start[8] = Do("publish", "running") /\ Start[9] = Do("unlock", "worldGen")
      /\ Start[10] = Do("unlock", "gate") /\ Start[11] = Do("await", "child")
  BY DEF Start, Active, ClaimStart, ReleaseGuards
<1>2. /\ Start[12] = Do("lock", "rcon") /\ Start[13] = Do("unlock", "rcon")
      /\ Start[14] = Do("publish", "stopped")
  BY DEF Start, Active, ClaimStart, ReleaseGuards
<1>3. WellFormed(Start)
  BY <1>1, <1>2 DEF WellFormed
<1>4. OneSided(Start)
  BY <1>1, <1>2 DEF OneSided
<1>5. Orderly(Start, "Start")
  BY <1>1, <1>2 DEF Orderly, Switches
<1>6. Guarded(Start)
  BY <1>1, <1>2 DEF Guarded
<1>7. Published(Start)
  BY <1>1, <1>2 DEF Published
<1>8. UsesInGate(Start)
  BY <1>1, <1>2 DEF UsesInGate
<1> QED
  BY <1>3, <1>4, <1>5, <1>6, <1>7, <1>8, Zenon DEF Obeys

\* So are a start that fails and its end.
LEMMA FailedStartObeys == Obeys(FailedStart, "FailedStart") /\ UsesInGate(FailedStart)
<1>1. /\ Len(FailedStart) = 10 /\ FailedStart[1] = Do("rlock", "gate")
      /\ FailedStart[2] = Do("lock", "lifecycle") /\ FailedStart[3] = Do("require", "off")
      /\ FailedStart[4] = Do("try", "worldGen") /\ FailedStart[5] = Do("publish", "starting")
      /\ FailedStart[6] = Do("unlock", "lifecycle")
      /\ FailedStart[7] = Do("read", {"config", "engine", "mods", "saves"})
      /\ FailedStart[8] = Do("publish", "stopped") /\ FailedStart[9] = Do("unlock", "worldGen")
      /\ FailedStart[10] = Do("unlock", "gate")
  BY DEF FailedStart, Active, ClaimStart, ReleaseGuards
<1>2. WellFormed(FailedStart)
  BY <1>1 DEF WellFormed
<1>3. OneSided(FailedStart)
  BY <1>1 DEF OneSided
<1>4. Orderly(FailedStart, "FailedStart")
  BY <1>1 DEF Orderly, Switches
<1>5. Guarded(FailedStart)
  BY <1>1 DEF Guarded
<1>6. Published(FailedStart)
  BY <1>1 DEF Published
<1>7. UsesInGate(FailedStart)
  BY <1>1 DEF UsesInGate
<1> QED
  BY <1>2, <1>3, <1>4, <1>5, <1>6, <1>7, Zenon DEF Obeys

\* A stop creates its checkpoint before it takes the lifecycle lock.
LEMMA StopObeys == Obeys(Stop, "Stop") /\ UsesInGate(Stop)
<1>1. /\ Len(Stop) = 13 /\ Stop[1] = Do("rlock", "gate") /\ Stop[2] = Do("require", "on")
      /\ Stop[3] = Do("publish", "stopping") /\ Stop[4] = Do("choose", "return")
      /\ Stop[5] = Do("lock", "checkpointOp") /\ Stop[6] = Do("lock", "profiles")
      /\ Stop[7] = Do("unlock", "profiles") /\ Stop[8] = Do("read", {"saves"})
      /\ Stop[9] = Do("edit", {"checkpoints"}) /\ Stop[10] = Do("unlock", "checkpointOp")
      /\ Stop[11] = Do("lock", "lifecycle")
  BY DEF Stop, Request, CreateCheckpointLocked, SignalStop
<1>2. /\ Stop[12] = Do("lock", "rcon") /\ Stop[13] = Do("unlock", "rcon")
  BY DEF Stop, Request, CreateCheckpointLocked, SignalStop
<1>3. WellFormed(Stop)
  BY <1>1, <1>2 DEF WellFormed
<1>4. OneSided(Stop)
  BY <1>1, <1>2 DEF OneSided
<1>5. Orderly(Stop, "Stop")
  BY <1>1, <1>2 DEF Orderly, Switches
<1>6. Guarded(Stop)
  BY <1>1, <1>2 DEF Guarded
<1>7. Published(Stop)
  BY <1>1, <1>2 DEF Published
<1>8. UsesInGate(Stop)
  BY <1>1, <1>2 DEF UsesInGate
<1> QED
  BY <1>3, <1>4, <1>5, <1>6, <1>7, <1>8, Zenon DEF Obeys

\* A kill takes the rcon lock inside the lifecycle lock.
LEMMA KillObeys == Obeys(Kill, "Kill") /\ UsesInGate(Kill)
<1>1. /\ Len(Kill) = 5 /\ Kill[1] = Do("rlock", "gate") /\ Kill[2] = Do("lock", "lifecycle")
      /\ Kill[3] = Do("require", "on") /\ Kill[4] = Do("lock", "rcon")
      /\ Kill[5] = Do("unlock", "rcon")
  BY DEF Kill, Request
<1>2. WellFormed(Kill)
  BY <1>1 DEF WellFormed
<1>3. OneSided(Kill)
  BY <1>1 DEF OneSided
<1>4. Orderly(Kill, "Kill")
  BY <1>1 DEF Orderly, Switches
<1>5. Guarded(Kill)
  BY <1>1 DEF Guarded
<1>6. Published(Kill)
  BY <1>1 DEF Published
<1>7. UsesInGate(Kill)
  BY <1>1 DEF UsesInGate
<1> QED
  BY <1>2, <1>3, <1>4, <1>5, <1>6, <1>7, Zenon DEF Obeys

\* A queued stop takes its locks one after the other, outside the gate.
LEMMA QueuedStopObeys == Obeys(QueuedStop, "QueuedStop")
<1>1. /\ Len(QueuedStop) = 13 /\ QueuedStop[1] = Do("require", "running")
      /\ QueuedStop[2] = Do("lock", "rcon") /\ QueuedStop[3] = Do("unlock", "rcon")
      /\ QueuedStop[4] = Do("require", "stopping") /\ QueuedStop[5] = Do("lock", "checkpointOp")
      /\ QueuedStop[6] = Do("lock", "profiles") /\ QueuedStop[7] = Do("unlock", "profiles")
      /\ QueuedStop[8] = Do("read", {"saves"}) /\ QueuedStop[9] = Do("edit", {"checkpoints"})
      /\ QueuedStop[10] = Do("unlock", "checkpointOp") /\ QueuedStop[11] = Do("lock", "lifecycle")
  BY DEF QueuedStop, CreateCheckpointLocked, SignalStop
<1>2. /\ QueuedStop[12] = Do("lock", "rcon") /\ QueuedStop[13] = Do("unlock", "rcon")
  BY DEF QueuedStop, CreateCheckpointLocked, SignalStop
<1>3. WellFormed(QueuedStop)
  BY <1>1, <1>2 DEF WellFormed
<1>4. OneSided(QueuedStop)
  BY <1>1, <1>2 DEF OneSided
<1>5. Orderly(QueuedStop, "QueuedStop")
  BY <1>1, <1>2 DEF Orderly, Switches
<1>6. Guarded(QueuedStop)
  BY <1>1, <1>2 DEF Guarded
<1>7. Published(QueuedStop)
  BY <1>1, <1>2 DEF Published
<1> QED
  BY <1>3, <1>4, <1>5, <1>6, <1>7, Zenon DEF Obeys

\* A command waits for the rcon lock inside the gate.
LEMMA RconCommandObeys == Obeys(RconCommand, "RconCommand") /\ UsesInGate(RconCommand)
<1>1. /\ Len(RconCommand) = 2 /\ RconCommand[1] = Do("rlock", "gate")
      /\ RconCommand[2] = Do("lock", "rcon")
  BY DEF RconCommand, Request
<1>2. WellFormed(RconCommand)
  BY <1>1 DEF WellFormed
<1>3. OneSided(RconCommand)
  BY <1>1 DEF OneSided
<1>4. Orderly(RconCommand, "RconCommand")
  BY <1>1 DEF Orderly, Switches
<1>5. Guarded(RconCommand)
  BY <1>1 DEF Guarded
<1>6. Published(RconCommand)
  BY <1>1 DEF Published
<1>7. UsesInGate(RconCommand)
  BY <1>1 DEF UsesInGate
<1> QED
  BY <1>2, <1>3, <1>4, <1>5, <1>6, <1>7, Zenon DEF Obeys

\* A checkpoint is created under its own lock, the profiles lock inside.
LEMMA CreateCheckpointObeys ==
    /\ Obeys(CreateCheckpoint, "CreateCheckpoint")
    /\ UsesInGate(CreateCheckpoint)
<1>1. /\ Len(CreateCheckpoint) = 7 /\ CreateCheckpoint[1] = Do("rlock", "gate")
      /\ CreateCheckpoint[2] = Do("lock", "checkpointOp")
      /\ CreateCheckpoint[3] = Do("lock", "profiles")
      /\ CreateCheckpoint[4] = Do("unlock", "profiles")
      /\ CreateCheckpoint[5] = Do("read", {"saves"})
      /\ CreateCheckpoint[6] = Do("edit", {"checkpoints"})
      /\ CreateCheckpoint[7] = Do("unlock", "checkpointOp")
  BY DEF CreateCheckpoint, Request, CreateCheckpointLocked
<1>2. WellFormed(CreateCheckpoint)
  BY <1>1 DEF WellFormed
<1>3. OneSided(CreateCheckpoint)
  BY <1>1 DEF OneSided
<1>4. Orderly(CreateCheckpoint, "CreateCheckpoint")
  BY <1>1 DEF Orderly, Switches
<1>5. Guarded(CreateCheckpoint)
  BY <1>1 DEF Guarded
<1>6. Published(CreateCheckpoint)
  BY <1>1 DEF Published
<1>7. UsesInGate(CreateCheckpoint)
  BY <1>1 DEF UsesInGate
<1> QED
  BY <1>2, <1>3, <1>4, <1>5, <1>6, <1>7, Zenon DEF Obeys

\* So is it restored.
LEMMA RestoreCheckpointObeys ==
    /\ Obeys(RestoreCheckpoint, "RestoreCheckpoint")
    /\ UsesInGate(RestoreCheckpoint)
<1>1. /\ Len(RestoreCheckpoint) = 6 /\ RestoreCheckpoint[1] = Do("rlock", "gate")
      /\ RestoreCheckpoint[2] = Do("lock", "checkpointOp")
      /\ RestoreCheckpoint[3] = Do("require", "notRunning")
      /\ RestoreCheckpoint[4] = Do("lock", "profiles")
      /\ RestoreCheckpoint[5] = Do("unlock", "profiles")
      /\ RestoreCheckpoint[6] = Do("edit", {"saves"})
  BY DEF RestoreCheckpoint, Request
<1>2. WellFormed(RestoreCheckpoint)
  BY <1>1 DEF WellFormed
<1>3. OneSided(RestoreCheckpoint)
  BY <1>1 DEF OneSided
<1>4. Orderly(RestoreCheckpoint, "RestoreCheckpoint")
  BY <1>1 DEF Orderly, Switches
<1>5. Guarded(RestoreCheckpoint)
  BY <1>1 DEF Guarded
<1>6. Published(RestoreCheckpoint)
  BY <1>1 DEF Published
<1>7. UsesInGate(RestoreCheckpoint)
  BY <1>1 DEF UsesInGate
<1> QED
  BY <1>2, <1>3, <1>4, <1>5, <1>6, <1>7, Zenon DEF Obeys

\* The schedule is read and the checkpoint created under the lock taken twice, not nested.
LEMMA MonitorTickObeys == Obeys(MonitorTick, "MonitorTick") /\ UsesInGate(MonitorTick)
<1>1. /\ Len(MonitorTick) = 14 /\ MonitorTick[1] = Do("require", "running")
      /\ MonitorTick[2] = Do("rlock", "gate") /\ MonitorTick[3] = Do("lock", "checkpointOp")
      /\ MonitorTick[4] = Do("lock", "profiles") /\ MonitorTick[5] = Do("unlock", "profiles")
      /\ MonitorTick[6] = Do("unlock", "checkpointOp")
      /\ MonitorTick[7] = Do("lock", "checkpointOp") /\ MonitorTick[8] = Do("lock", "profiles")
      /\ MonitorTick[9] = Do("unlock", "profiles") /\ MonitorTick[10] = Do("read", {"saves"})
      /\ MonitorTick[11] = Do("edit", {"checkpoints"})
  BY DEF MonitorTick, CreateCheckpointLocked
<1>2. /\ MonitorTick[12] = Do("unlock", "checkpointOp") /\ MonitorTick[13] = Do("lock", "rcon")
      /\ MonitorTick[14] = Do("unlock", "rcon")
  BY DEF MonitorTick, CreateCheckpointLocked
<1>3. WellFormed(MonitorTick)
  BY <1>1, <1>2 DEF WellFormed
<1>4. OneSided(MonitorTick)
  BY <1>1, <1>2 DEF OneSided
<1>5. Orderly(MonitorTick, "MonitorTick")
  BY <1>1, <1>2 DEF Orderly, Switches
<1>6. Guarded(MonitorTick)
  BY <1>1, <1>2 DEF Guarded
<1>7. Published(MonitorTick)
  BY <1>1, <1>2 DEF Published
<1>8. UsesInGate(MonitorTick)
  BY <1>1, <1>2 DEF UsesInGate
<1> QED
  BY <1>3, <1>4, <1>5, <1>6, <1>7, <1>8, Zenon DEF Obeys

\* A map snapshot is taken inside the gate and stored under the lock of the store.
LEMMA GenerateMapSnapshotObeys ==
    /\ Obeys(GenerateMapSnapshot, "GenerateMapSnapshot")
    /\ UsesInGate(GenerateMapSnapshot)
<1>1. /\ Len(GenerateMapSnapshot) = 11 /\ GenerateMapSnapshot[1] = Do("try", "snapshotOp")
      /\ GenerateMapSnapshot[2] = Do("lock", "profiles")
      /\ GenerateMapSnapshot[3] = Do("unlock", "profiles")
      /\ GenerateMapSnapshot[4] = Do("rlock", "gate")
      /\ GenerateMapSnapshot[5] = Do("rlock", "programFiles")
      /\ GenerateMapSnapshot[6] = Do("lock", "profiles")
      /\ GenerateMapSnapshot[7] = Do("unlock", "profiles")
      /\ GenerateMapSnapshot[8] = Do("read", {"config", "engine", "mods", "saves"})
      /\ GenerateMapSnapshot[9] = Do("lock", "snapshotStore")
      /\ GenerateMapSnapshot[10] = Do("drain", "snapshotStore")
      /\ GenerateMapSnapshot[11] = Do("edit", {"snapshots"})
  BY DEF GenerateMapSnapshot, Active
<1>2. WellFormed(GenerateMapSnapshot)
  BY <1>1 DEF WellFormed
<1>3. OneSided(GenerateMapSnapshot)
  BY <1>1 DEF OneSided
<1>4. Orderly(GenerateMapSnapshot, "GenerateMapSnapshot")
  BY <1>1 DEF Orderly, Switches
<1>5. Guarded(GenerateMapSnapshot)
  BY <1>1 DEF Guarded
<1>6. Published(GenerateMapSnapshot)
  BY <1>1 DEF Published
<1>7. UsesInGate(GenerateMapSnapshot)
  BY <1>1 DEF UsesInGate
<1> QED
  BY <1>2, <1>3, <1>4, <1>5, <1>6, <1>7, Zenon DEF Obeys

\* A map snapshot is read under the read side of that lock.
LEMMA ReadMapSnapshotObeys ==
    /\ Obeys(ReadMapSnapshot, "ReadMapSnapshot")
    /\ UsesInGate(ReadMapSnapshot)
<1>1. /\ Len(ReadMapSnapshot) = 5 /\ ReadMapSnapshot[1] = Do("rlock", "gate")
      /\ ReadMapSnapshot[2] = Do("lock", "profiles")
      /\ ReadMapSnapshot[3] = Do("unlock", "profiles")
      /\ ReadMapSnapshot[4] = Do("rlock", "snapshotStore")
      /\ ReadMapSnapshot[5] = Do("read", {"snapshots"})
  BY DEF ReadMapSnapshot, Request
<1>2. WellFormed(ReadMapSnapshot)
  BY <1>1 DEF WellFormed
<1>3. OneSided(ReadMapSnapshot)
  BY <1>1 DEF OneSided
<1>4. Orderly(ReadMapSnapshot, "ReadMapSnapshot")
  BY <1>1 DEF Orderly, Switches
<1>5. Guarded(ReadMapSnapshot)
  BY <1>1 DEF Guarded
<1>6. Published(ReadMapSnapshot)
  BY <1>1 DEF Published
<1>7. UsesInGate(ReadMapSnapshot)
  BY <1>1 DEF UsesInGate
<1> QED
  BY <1>2, <1>3, <1>4, <1>5, <1>6, <1>7, Zenon DEF Obeys

HIDE DEF RLock, Lock, WLock, TryLock, Unlock, Require, Publish, Read, Edit, Replace, MayReturn,
        AwaitExit, Brief, Do, Active, Locks, RWLocks, Mutexes, Data, Using, Changing, Takes,
        Frees, Kept, Owns, Shares, Emptied, InGate, TestsOff, KeepsStartsOut, Assured,
        Publishes, Claimed, Waits, Waited, Usual, InSwitch

-----------------------------------------------------------------------------
(* What all programs have in common.                                       *)

\* Every operation obeys; all but the checkpoint of a queued stop use the active directories
\* inside the gate only.
LEMMA AllObey ==
    \A o \in DOMAIN Program :
        /\ Obeys(Program[o], o)
        /\ o # "QueuedStop" => UsesInGate(Program[o])
        /\ o \in {"ActivateProfile", "RollBackActivation", "LoadModPack",
                  "RestoreModBackup"} => ReplacesAlone(Program[o])
        /\ o = "ExportProfileBackup" => CopiesAlone(Program[o])
BY ReadActiveObeys, EditModsObeys, EditSavesObeys, UpdateServerSettingsObeys, DeleteAllModsObeys,
  ImportModsFromSaveObeys, UpdateModStartupSettingsObeys, LoadModPackObeys, RestoreModBackupObeys,
  InstallReleaseRequestObeys, ActivateProfileObeys, RollBackActivationObeys, CreateProfileObeys,
  UpdateProfileStartupObeys, DeleteProfileObeys, ListProfilesObeys, ExportProfileBackupObeys,
  CreateWorldObeys, StartObeys, FailedStartObeys, StopObeys, KillObeys, QueuedStopObeys,
  RconCommandObeys, CreateCheckpointObeys, RestoreCheckpointObeys, MonitorTickObeys,
  GenerateMapSnapshotObeys, ReadMapSnapshotObeys DEF Program

\* What a caller owns after one more instruction.
LEMMA OwnsNext ==
    ASSUME NEW P, NEW n \in Nat \ {0}, NEW l
    PROVE  Owns(P, n + 1, l) <=> Takes(P[n], l) \/ (Owns(P, n, l) /\ ~Frees(P[n], l))
<1>1. Takes(P[n], l) => Owns(P, n + 1, l)
  BY DEF Owns, Kept
<1>2. Owns(P, n, l) /\ ~Frees(P[n], l) => Owns(P, n + 1, l)
  BY DEF Owns, Kept
<1>3. Owns(P, n + 1, l) => Takes(P[n], l) \/ (Owns(P, n, l) /\ ~Frees(P[n], l))
  BY DEF Owns, Kept
<1> QED
  BY <1>1, <1>2, <1>3, Zenon

\* What it shares after one more instruction.
LEMMA SharesNext ==
    ASSUME NEW P, NEW n \in Nat \ {0}, NEW l
    PROVE  Shares(P, n + 1, l) <=>
              \/ P[n].do = "rlock" /\ P[n].on = l
              \/ Shares(P, n, l) /\ ~Frees(P[n], l)
<1>1. P[n].do = "rlock" /\ P[n].on = l => Shares(P, n + 1, l)
  BY DEF Shares, Kept
<1>2. Shares(P, n, l) /\ ~Frees(P[n], l) => Shares(P, n + 1, l)
  BY DEF Shares, Kept
<1>3. Shares(P, n + 1, l) => \/ P[n].do = "rlock" /\ P[n].on = l
                             \/ Shares(P, n, l) /\ ~Frees(P[n], l)
  BY DEF Shares, Kept
<1> QED
  BY <1>1, <1>2, <1>3, Zenon

\* What it has waited for the readers of after one more instruction.
LEMMA EmptiedNext ==
    ASSUME NEW P, NEW n \in Nat \ {0}, NEW l, Emptied(P, n + 1, l)
    PROVE  \/ P[n].do = "drain" /\ P[n].on = l
           \/ Emptied(P, n, l) /\ ~Frees(P[n], l)
BY DEF Emptied, Kept

\* Whose start it has published after one more instruction.
LEMMA ClaimedNext ==
    ASSUME NEW P, NEW n \in Nat \ {0}, Claimed(P, n + 1)
    PROVE  Publishes(P[n], "starting") \/ (Claimed(P, n) /\ ~Publishes(P[n], "stopped"))
BY DEF Claimed

\* Whoever knows after one more instruction that the server is stopped has just found it so
\* or knew it before, and did not publish anything.
LEMMA AssuredNext ==
    ASSUME NEW P, NEW n \in Nat \ {0}, Assured(P, n + 1)
    PROVE  TestsOff(P[n]) \/ (Assured(P, n) /\ P[n].do # "publish")
BY DEF Assured

\* Whoever knows that the server is stopped keeps starts out.
LEMMA AssuredKeeps ==
    ASSUME NEW P, NEW n \in Nat \ {0}, Assured(P, n)
    PROVE  KeepsStartsOut(P, n)
BY DEF Assured

\* Before the first instruction a caller has nothing.
LEMMA NothingYet ==
    ASSUME NEW P
    PROVE  /\ \A l : ~Owns(P, 1, l) /\ ~Shares(P, 1, l) /\ ~Emptied(P, 1, l)
           /\ ~Assured(P, 1) /\ ~Claimed(P, 1)
BY DEF Owns, Shares, Emptied, Assured, Claimed

\* No caller has both sides of a lock.
LEMMA OneSide ==
    ASSUME NEW P, OneSided(P), Len(P) \in Nat, NEW n \in 1..(Len(P) + 1), NEW l
    PROVE  ~(Owns(P, n, l) /\ Shares(P, n, l))
BY DEF OneSided, Owns, Shares, Takes

\* Whoever has waited for the readers of a lock owns its write side.
LEMMA EmptiedOwns ==
    ASSUME NEW P, OneSided(P), Len(P) \in Nat, NEW n \in 1..(Len(P) + 1), NEW l,
           Emptied(P, n, l)
    PROVE  Owns(P, n, l)
<1>1. PICK i \in 1..(n - 1) : P[i].do = "drain" /\ P[i].on = l /\ Kept(P, i, n, l)
  BY DEF Emptied
<1>2. i - 1 \in 1..(n - 1) /\ Takes(P[i - 1], l)
  BY <1>1 DEF OneSided, Takes
<1>3. Kept(P, i - 1, n, l)
  BY <1>1, <1>2 DEF Kept, Frees
<1> QED
  BY <1>2, <1>3 DEF Owns

-----------------------------------------------------------------------------
(* The same of the callers of a state.                                     *)

Prog(p) == Program[op[p]]
Owning(p, l) == op[p] # Idle /\ Owns(Prog(p), pc[p], l)
Sharing(p, l) == op[p] # Idle /\ Shares(Prog(p), pc[p], l)
HasEmptied(p, l) == op[p] # Idle /\ Emptied(Prog(p), pc[p], l)
IsAssured(p) == op[p] # Idle /\ Assured(Prog(p), pc[p])
HasClaimed(p) == op[p] # Idle /\ Claimed(Prog(p), pc[p])

TypeInv == Typed /\ pc \in [Callers -> Nat]
\* The locks are held by the callers whose programs took them.
LocksHeld ==
    /\ \A p \in Callers, l \in Locks : owner[l] = p <=> Owning(p, l)
    /\ \A p \in Callers, l \in RWLocks : p \in readers[l] <=> Sharing(p, l)
ReadersGone == \A p \in Callers, l \in RWLocks : HasEmptied(p, l) => readers[l] = {}
\* Whoever found the server stopped and keeps starts out still finds it so.
StaysStopped == \A p \in Callers : IsAssured(p) => status = "stopped"
\* At most one start is under way, and while it is the server is not stopped.
OneStart ==
    /\ \A p \in Callers : HasClaimed(p) => status # "stopped"
    /\ \A p, q \in Callers : HasClaimed(p) /\ HasClaimed(q) => p = q

LockInv == TypeInv /\ LocksHeld /\ ReadersGone /\ StaysStopped /\ OneStart

\* A caller at an instruction runs a program that obeys.
LEMMA AtInstruction ==
    ASSUME TypeInv, NEW p \in Callers, Instr(p).do # "end"
    PROVE  /\ op[p] # Idle /\ op[p] \in DOMAIN Program
           /\ Len(Prog(p)) \in Nat /\ pc[p] \in 1..Len(Prog(p))
           /\ Instr(p) = Prog(p)[pc[p]]
<1>1. op[p] # Idle /\ ~(pc[p] > Len(Prog(p))) /\ Instr(p) = Prog(p)[pc[p]]
  BY DEF Instr, Prog
<1>2. op[p] \in DOMAIN Program
  BY <1>1, LockConstants DEF TypeInv, Typed
<1>3. Len(Prog(p)) \in Nat
  BY <1>2, AllObey DEF Obeys, WellFormed, Prog
<1>4. pc[p] \in 1..(Len(Prog(p)) + 1)
  BY <1>1 DEF TypeInv, Typed, Prog
<1> QED
  BY <1>1, <1>2, <1>3, <1>4

\* A caller that does not move has what it had.
LEMMA Unmoved ==
    ASSUME NEW p, op'[p] = op[p], pc'[p] = pc[p]
    PROVE  /\ \A l : /\ Owning(p, l)' <=> Owning(p, l)
                     /\ Sharing(p, l)' <=> Sharing(p, l)
                     /\ HasEmptied(p, l)' <=> HasEmptied(p, l)
           /\ IsAssured(p)' <=> IsAssured(p)
           /\ HasClaimed(p)' <=> HasClaimed(p)
BY DEF Owning, Sharing, HasEmptied, IsAssured, HasClaimed, Prog

\* What a step to the next instruction changes of what the callers have.
LEMMA Stepped ==
    ASSUME TypeInv, NEW p \in Callers, Instr(p).do # "end", Step(p)
    PROVE  /\ \A l : /\ Owning(p, l)' <=>
                           Takes(Instr(p), l) \/ (Owning(p, l) /\ ~Frees(Instr(p), l))
                     /\ Sharing(p, l)' <=>
                           \/ Instr(p).do = "rlock" /\ Instr(p).on = l
                           \/ Sharing(p, l) /\ ~Frees(Instr(p), l)
                     /\ HasEmptied(p, l)' =>
                           \/ Instr(p).do = "drain" /\ Instr(p).on = l
                           \/ HasEmptied(p, l) /\ ~Frees(Instr(p), l)
           /\ IsAssured(p)' => TestsOff(Instr(p)) \/ (IsAssured(p) /\ Instr(p).do # "publish")
           /\ HasClaimed(p)' => \/ Publishes(Instr(p), "starting")
                                \/ HasClaimed(p) /\ ~Publishes(Instr(p), "stopped")
           /\ \A q \in Callers \ {p} : op'[q] = op[q] /\ pc'[q] = pc[q]
           /\ op' = op /\ pc' \in [Callers -> Nat]
           /\ \A q \in Callers : IF op'[q] = Idle THEN pc'[q] = 0
                                 ELSE pc'[q] \in 1..(Len(Program[op'[q]]) + 1)
<1>1. /\ op[p] # Idle /\ pc[p] \in Nat \ {0} /\ Instr(p) = Prog(p)[pc[p]]
      /\ Len(Prog(p)) \in Nat /\ pc[p] \in 1..Len(Prog(p))
  BY AtInstruction
<1>2. /\ op' = op /\ pc' \in [Callers -> Nat] /\ pc'[p] = pc[p] + 1
      /\ \A q \in Callers \ {p} : pc'[q] = pc[q]
  BY DEF Step, TypeInv
<1>3. Prog(p)' = Prog(p)
  BY <1>2 DEF Prog
<1>4. ASSUME NEW l
      PROVE  Owning(p, l)' <=> Takes(Instr(p), l) \/ (Owning(p, l) /\ ~Frees(Instr(p), l))
  <2>1. Owns(Prog(p), pc[p] + 1, l) <=>
           \/ Takes(Prog(p)[pc[p]], l)
           \/ Owns(Prog(p), pc[p], l) /\ ~Frees(Prog(p)[pc[p]], l)
    BY <1>1, OwnsNext
  <2> QED
    BY <1>1, <1>2, <1>3, <2>1 DEF Owning
<1>5. ASSUME NEW l
      PROVE  Sharing(p, l)' <=> \/ Instr(p).do = "rlock" /\ Instr(p).on = l
                                \/ Sharing(p, l) /\ ~Frees(Instr(p), l)
  BY <1>1, <1>2, <1>3, SharesNext DEF Sharing
<1>6. ASSUME NEW l, HasEmptied(p, l)'
      PROVE  \/ Instr(p).do = "drain" /\ Instr(p).on = l
             \/ HasEmptied(p, l) /\ ~Frees(Instr(p), l)
  BY <1>1, <1>2, <1>3, <1>6, EmptiedNext DEF HasEmptied
<1>7. IsAssured(p)' => TestsOff(Instr(p)) \/ (IsAssured(p) /\ Instr(p).do # "publish")
  BY <1>1, <1>2, <1>3, AssuredNext DEF IsAssured
<1>8. HasClaimed(p)' => \/ Publishes(Instr(p), "starting")
                        \/ HasClaimed(p) /\ ~Publishes(Instr(p), "stopped")
  BY <1>1, <1>2, <1>3, ClaimedNext DEF HasClaimed
<1>9. \A q \in Callers : IF op'[q] = Idle THEN pc'[q] = 0
                          ELSE pc'[q] \in 1..(Len(Program[op'[q]]) + 1)
  BY <1>1, <1>2 DEF TypeInv, Typed, Prog
<1> QED
  BY <1>2, <1>4, <1>5, <1>6, <1>7, <1>8, <1>9

\* What a caller has fits together.
LEMMA Consistent ==
    ASSUME TypeInv, NEW p \in Callers
    PROVE  /\ \A l : /\ ~(Owning(p, l) /\ Sharing(p, l))
                     /\ HasEmptied(p, l) => Owning(p, l)
           /\ IsAssured(p) =>
                 Owning(p, "lifecycle") \/ Owning(p, "worldGen") \/ HasEmptied(p, "gate")
<1>1. CASE op[p] = Idle
  BY <1>1 DEF Owning, HasEmptied, IsAssured
<1>2. CASE op[p] # Idle
  <2>1. op[p] \in DOMAIN Program
    BY <1>2, LockConstants DEF TypeInv, Typed
  <2>2. Len(Prog(p)) \in Nat /\ OneSided(Prog(p))
    BY <2>1, AllObey DEF Obeys, WellFormed, Prog
  <2>3. pc[p] \in 1..(Len(Prog(p)) + 1)
    BY <1>2 DEF TypeInv, Typed, Prog
  <2>4. ASSUME NEW l
        PROVE  ~(Owning(p, l) /\ Sharing(p, l))
    BY <2>2, <2>3, OneSide DEF Owning, Sharing
  <2>5. ASSUME NEW l, HasEmptied(p, l)
        PROVE  Owning(p, l)
    BY <2>2, <2>3, <2>5, EmptiedOwns DEF Owning, HasEmptied
  <2>6. IsAssured(p) =>
          Owning(p, "lifecycle") \/ Owning(p, "worldGen") \/ HasEmptied(p, "gate")
    BY <2>2, <2>3, AssuredKeeps DEF IsAssured, KeepsStartsOut, Owning, HasEmptied
  <2> QED
    BY <2>4, <2>5, <2>6
<1> QED
  BY <1>1, <1>2

-----------------------------------------------------------------------------
(* The inductive invariant.                                                *)

\* At the start nobody has anything.
LEMMA InvInit == Init => LockInv
<1> SUFFICES ASSUME Init PROVE LockInv
  OBVIOUS
<1>1. TypeInv
  BY DEF Init, TypeInv, Typed
<1>2. \A p \in Callers : op[p] = Idle
  BY DEF Init
<1>3. LocksHeld
  BY <1>2, LockConstants DEF Init, LocksHeld, Owning, Sharing, RWLocks, Locks
<1>4. ReadersGone /\ StaysStopped /\ OneStart
  BY <1>2 DEF ReadersGone, StaysStopped, OneStart, HasEmptied, IsAssured, HasClaimed
<1> QED
  BY <1>1, <1>3, <1>4 DEF LockInv

\* An operation begins with nothing.
LEMMA InvBegin == ASSUME LockInv, NEW p \in Callers, Begin(p) PROVE LockInv'
<1> USE DEF LockInv
<1>1. /\ op[p] = Idle /\ op' \in [Callers -> Ops \cup {Idle}] /\ pc' \in [Callers -> Nat]
      /\ op'[p] \in DOMAIN Program /\ pc'[p] = 1
      /\ \A q \in Callers \ {p} : op'[q] = op[q] /\ pc'[q] = pc[q]
      /\ UNCHANGED <<owner, readers, status, stopping>>
  BY LockConstants DEF Begin, TypeInv, Typed
<1>2. /\ \A l : ~Owning(p, l) /\ ~Sharing(p, l)
      /\ \A l : ~Owning(p, l)' /\ ~Sharing(p, l)' /\ ~HasEmptied(p, l)'
      /\ ~IsAssured(p)' /\ ~HasClaimed(p)'
  BY <1>1, NothingYet DEF Owning, Sharing, HasEmptied, IsAssured, HasClaimed
<1>3. TypeInv'
  <2>1. Len(Program[op'[p]]) \in Nat
    BY <1>1, AllObey DEF Obeys, WellFormed
  <2>2. Idle \notin DOMAIN Program
    BY DEF Idle, Program
  <2> QED
    BY <1>1, <2>1, <2>2 DEF TypeInv, Typed
<1>4. LocksHeld'
  BY <1>1, <1>2, Unmoved DEF LocksHeld
<1>5. ReadersGone'
  BY <1>1, <1>2, Unmoved DEF ReadersGone
<1>6. StaysStopped'
  BY <1>1, <1>2, Unmoved DEF StaysStopped
<1>7. OneStart'
  BY <1>1, <1>2, Unmoved DEF OneStart
<1> QED
  BY <1>3, <1>4, <1>5, <1>6, <1>7

\* The read side of a lock is taken while nobody has the write side.
LEMMA InvTakeRead == ASSUME LockInv, NEW p \in Callers, TakeRead(p) PROVE LockInv'
<1> USE DEF LockInv
<1> DEFINE x == Instr(p).on
<1>1. /\ Instr(p).do = "rlock" /\ x \in RWLocks /\ owner[x] = Nobody
      /\ readers' = [readers EXCEPT ![x] = @ \cup {p}]
      /\ Step(p) /\ UNCHANGED <<owner, status, stopping>>
  BY AtInstruction, AllObey DEF TakeRead, Obeys, WellFormed, Prog
<1>2. \A l : ~Takes(Instr(p), l) /\ ~Frees(Instr(p), l)
  BY <1>1 DEF Takes, Frees
<1>3. TypeInv'
  BY <1>1, Stepped DEF TypeInv, Typed
<1>4. LocksHeld'
  <2>1. \A q \in Callers, l \in Locks : Owning(q, l)' <=> Owning(q, l)
    BY <1>1, <1>2, Stepped, Unmoved
  <2>2. \A l \in RWLocks : Sharing(p, l)' <=> l = x \/ Sharing(p, l)
    BY <1>1, <1>2, Stepped
  <2>3. \A q \in Callers \ {p}, l \in RWLocks : Sharing(q, l)' <=> Sharing(q, l)
    BY <1>1, Stepped, Unmoved
  <2>4. \A l \in RWLocks : readers'[l] = IF l = x THEN readers[l] \cup {p} ELSE readers[l]
    BY <1>1 DEF TypeInv, Typed
  <2> QED
    BY <1>1, <2>1, <2>2, <2>3, <2>4 DEF LocksHeld
<1>5. ReadersGone'
  BY <1>1, <1>2, Stepped, Unmoved, Consistent, LockConstants
     DEF ReadersGone, LocksHeld, TypeInv, Typed, Locks
<1>6. StaysStopped' /\ OneStart'
  BY <1>1, Stepped, Unmoved DEF StaysStopped, OneStart, TestsOff, Publishes
<1> QED
  BY <1>3, <1>4, <1>5, <1>6

\* A mutex, or the write side of a lock, is taken while nobody has it.
LEMMA InvTake == ASSUME LockInv, NEW p \in Callers, Take(p) PROVE LockInv'
<1> USE DEF LockInv
<1> DEFINE x == Instr(p).on
<1>1. /\ Instr(p).do \in {"lock", "try"} /\ x \in Locks /\ owner[x] = Nobody
      /\ owner' = [owner EXCEPT ![x] = p]
      /\ Step(p) /\ UNCHANGED <<readers, status, stopping>>
  BY AtInstruction, AllObey DEF Take, Obeys, WellFormed, Prog
<1>2. \A l : (Takes(Instr(p), l) <=> l = x) /\ ~Frees(Instr(p), l)
  BY <1>1 DEF Takes, Frees
<1>3. TypeInv'
  BY <1>1, Stepped DEF TypeInv, Typed
<1>4. LocksHeld'
  BY <1>1, <1>2, Stepped, Unmoved, LockConstants DEF LocksHeld, TypeInv, Typed
<1>5. ReadersGone'
  BY <1>1, <1>2, Stepped, Unmoved DEF ReadersGone
<1>6. StaysStopped' /\ OneStart'
  BY <1>1, Stepped, Unmoved DEF StaysStopped, OneStart, TestsOff, Publishes
<1> QED
  BY <1>3, <1>4, <1>5, <1>6

\* A writer goes on when the readers have gone.
LEMMA InvDrained == ASSUME LockInv, NEW p \in Callers, Drained(p) PROVE LockInv'
<1> USE DEF LockInv
<1>1. /\ Instr(p).do = "drain" /\ readers[Instr(p).on] = {}
      /\ Step(p) /\ UNCHANGED <<owner, readers, status, stopping>>
  BY DEF Drained
<1>2. \A l : ~Takes(Instr(p), l) /\ ~Frees(Instr(p), l)
  BY <1>1 DEF Takes, Frees
<1>3. TypeInv'
  BY <1>1, Stepped DEF TypeInv, Typed
<1>4. LocksHeld'
  BY <1>1, <1>2, Stepped, Unmoved DEF LocksHeld
<1>5. ReadersGone'
  BY <1>1, <1>2, Stepped, Unmoved DEF ReadersGone
<1>6. StaysStopped' /\ OneStart'
  BY <1>1, Stepped, Unmoved DEF StaysStopped, OneStart, TestsOff, Publishes
<1> QED
  BY <1>3, <1>4, <1>5, <1>6

\* A lock is released by the caller that has it, on the side that it has.
LEMMA InvRelease == ASSUME LockInv, NEW p \in Callers, Release(p) PROVE LockInv'
<1> USE DEF LockInv
<1> DEFINE x == Instr(p).on
<1>1. /\ Instr(p).do = "unlock" /\ x \in Locks
      /\ Step(p) /\ UNCHANGED <<status, stopping>>
  BY AtInstruction, AllObey DEF Release, Obeys, WellFormed, Prog
<1>2. \A l : ~Takes(Instr(p), l) /\ (Frees(Instr(p), l) <=> l = x)
  BY <1>1 DEF Takes, Frees
<1>3. CASE owner[x] = p /\ owner' = [owner EXCEPT ![x] = Nobody] /\ UNCHANGED readers
  <2>1. TypeInv'
    BY <1>1, <1>3, Stepped DEF TypeInv, Typed
  <2>2. \A l \in RWLocks : p \in readers[l] => l # x
    BY <1>1, <1>3, Consistent DEF LocksHeld, Locks
  <2>3. LocksHeld'
    <3>1. \A q \in Callers, l \in RWLocks : Sharing(q, l)' <=> Sharing(q, l)
      BY <1>1, <1>2, <2>2, Stepped, Unmoved DEF LocksHeld
    <3>2. \A l \in Locks : Owning(p, l)' <=> l # x /\ Owning(p, l)
      BY <1>1, <1>2, Stepped
    <3>3. \A q \in Callers \ {p}, l \in Locks : Owning(q, l)' <=> Owning(q, l)
      BY <1>1, Stepped, Unmoved
    <3>4. \A l \in Locks : owner'[l] = IF l = x THEN Nobody ELSE owner[l]
      BY <1>3 DEF TypeInv, Typed
    <3> QED
      BY <1>1, <1>3, <3>1, <3>2, <3>3, <3>4, LockConstants DEF LocksHeld
  <2>4. ReadersGone'
    BY <1>1, <1>2, <1>3, Stepped, Unmoved DEF ReadersGone
  <2> QED
    BY <1>1, <2>1, <2>3, <2>4, Stepped, Unmoved DEF StaysStopped, OneStart, TestsOff, Publishes
<1>4. CASE owner[x] # p /\ readers' = [readers EXCEPT ![x] = @ \ {p}] /\ UNCHANGED owner
  <2>1. TypeInv'
    BY <1>1, <1>4, Stepped DEF TypeInv, Typed
  <2>2. LocksHeld'
    <3>1. \A q \in Callers, l \in Locks : Owning(q, l)' <=> Owning(q, l)
      BY <1>1, <1>2, <1>4, Stepped, Unmoved DEF LocksHeld
    <3>2. \A l \in RWLocks : Sharing(p, l)' <=> l # x /\ Sharing(p, l)
      BY <1>1, <1>2, Stepped
    <3>3. \A q \in Callers \ {p}, l \in RWLocks : Sharing(q, l)' <=> Sharing(q, l)
      BY <1>1, Stepped, Unmoved
    <3>4. \A l \in RWLocks : readers'[l] = IF l = x THEN readers[l] \ {p} ELSE readers[l]
      BY <1>4 DEF TypeInv, Typed
    <3> QED
      BY <1>4, <3>1, <3>2, <3>3, <3>4 DEF LocksHeld
  <2>3. ReadersGone'
    BY <1>1, <1>2, <1>4, Stepped, Unmoved DEF ReadersGone, TypeInv, Typed
  <2> QED
    BY <1>1, <2>1, <2>2, <2>3, Stepped, Unmoved DEF StaysStopped, OneStart, TestsOff, Publishes
<1> QED
  BY <1>3, <1>4 DEF Release

\* Whoever finds the server stopped goes on; uses of data change nothing here.
LEMMA InvPass ==
    ASSUME LockInv, NEW p \in Callers, Pass(p) \/ Exit(p)
    PROVE  LockInv'
<1> USE DEF LockInv
<1>1. /\ \/ Instr(p).do = "require" /\ Holds(Instr(p).on)
         \/ Instr(p).do \in {"read", "edit", "replace", "choose", "await"}
      /\ Step(p) /\ UNCHANGED <<owner, readers, status, stopping>>
  BY DEF Pass, Exit
<1>2. \A l : ~Takes(Instr(p), l) /\ ~Frees(Instr(p), l)
  BY <1>1 DEF Takes, Frees
<1>3. TestsOff(Instr(p)) => status = "stopped"
  BY <1>1 DEF TestsOff, Holds
<1>4. TypeInv'
  BY <1>1, Stepped DEF TypeInv, Typed
<1>5. LocksHeld'
  BY <1>1, <1>2, Stepped, Unmoved DEF LocksHeld
<1>6. ReadersGone'
  BY <1>1, <1>2, Stepped, Unmoved DEF ReadersGone
<1>7. StaysStopped'
  BY <1>1, <1>3, Stepped, Unmoved DEF StaysStopped
<1>8. OneStart'
  BY <1>1, Stepped, Unmoved DEF OneStart, Publishes
<1> QED
  BY <1>4, <1>5, <1>6, <1>7, <1>8

\* A start is published while nobody relies on the stopped server, and ended by its own caller.
LEMMA InvPublishStatus == ASSUME LockInv, NEW p \in Callers, PublishStatus(p) PROVE LockInv'
<1> USE DEF LockInv
<1> DEFINE x == Instr(p).on
<1>1. /\ Instr(p).do = "publish" /\ x \in {"starting", "running", "stopped", "stopping"}
      /\ IF x = "stopping"
         THEN stopping' = (status # "stopped") /\ UNCHANGED status
         ELSE status' = x /\ stopping' = (stopping /\ x = "running")
      /\ Step(p) /\ UNCHANGED <<owner, readers>>
  BY AtInstruction, AllObey DEF PublishStatus, Obeys, WellFormed, Prog
<1>2. \A l : ~Takes(Instr(p), l) /\ ~Frees(Instr(p), l)
  BY <1>1 DEF Takes, Frees
<1>3. TypeInv'
  BY <1>1, Stepped DEF TypeInv, Typed
<1>4. LocksHeld'
  BY <1>1, <1>2, Stepped, Unmoved DEF LocksHeld
<1>5. ReadersGone'
  BY <1>1, <1>2, Stepped, Unmoved DEF ReadersGone
<1>6. x = "starting" => /\ IsAssured(p) /\ Sharing(p, "gate")
                        /\ Owning(p, "lifecycle") /\ Owning(p, "worldGen")
  BY <1>1, AtInstruction, AllObey
     DEF Obeys, Published, Publishes, Prog, IsAssured, Sharing, Owning
<1>7. x \in {"running", "stopped"} => HasClaimed(p)
  BY <1>1, AtInstruction, AllObey DEF Obeys, Published, Publishes, Prog, HasClaimed
<1>8. ~IsAssured(p)'
  BY <1>1, Stepped DEF TestsOff
<1>9. StaysStopped'
  <2> SUFFICES ASSUME NEW q \in Callers, IsAssured(q)' PROVE status' = "stopped"
    BY DEF StaysStopped
  <2>1. q # p /\ IsAssured(q) /\ status = "stopped"
    BY <1>1, <1>8, Stepped, Unmoved DEF StaysStopped
  <2>2. Owning(q, "lifecycle") \/ Owning(q, "worldGen") \/ HasEmptied(q, "gate")
    BY <2>1, Consistent
  <2>3. x # "starting"
    BY <1>6, <2>1, <2>2 DEF LocksHeld, ReadersGone, Locks, Mutexes, RWLocks
  <2>4. x # "running"
    BY <1>7, <2>1 DEF OneStart
  <2> QED
    BY <1>1, <2>1, <2>3, <2>4
<1>10. OneStart'
  <2>1. CASE x = "starting"
    <3>1. \A q \in Callers : ~HasClaimed(q)
      BY <1>6, <2>1 DEF StaysStopped, OneStart
    <3> QED
      BY <1>1, <2>1, <3>1, Stepped, Unmoved DEF OneStart
  <2>2. CASE x = "stopped"
    <3>1. ~HasClaimed(p)'
      BY <1>1, <2>2, Stepped DEF Publishes
    <3>2. \A q \in Callers \ {p} : ~HasClaimed(q)
      BY <1>7, <2>2 DEF OneStart
    <3> QED
      BY <1>1, <3>1, <3>2, Stepped, Unmoved DEF OneStart
  <2>3. CASE x \in {"running", "stopping"}
    <3>1. \A q \in Callers : HasClaimed(q)' => HasClaimed(q)
      BY <1>1, <2>3, Stepped, Unmoved DEF Publishes
    <3> QED
      BY <1>1, <2>3, <3>1 DEF OneStart
  <2> QED
    BY <1>1, <2>1, <2>2, <2>3
<1> QED
  BY <1>3, <1>4, <1>5, <1>9, <1>10

\* An operation that returns has nothing left.
LEMMA InvReturn == ASSUME LockInv, NEW p \in Callers, Return(p) PROVE LockInv'
<1> USE DEF LockInv
<1>1. ReleaseAll(p) /\ UNCHANGED <<status, stopping>>
  BY DEF Return
<1>2. /\ op' \in [Callers -> Ops \cup {Idle}] /\ pc' \in [Callers -> Nat]
      /\ op'[p] = Idle /\ pc'[p] = 0
      /\ \A q \in Callers \ {p} : op'[q] = op[q] /\ pc'[q] = pc[q]
  BY <1>1 DEF ReleaseAll, TypeInv, Typed
<1>3. /\ \A l : ~Owning(p, l)' /\ ~Sharing(p, l)' /\ ~HasEmptied(p, l)'
      /\ ~IsAssured(p)' /\ ~HasClaimed(p)'
  BY <1>2 DEF Owning, Sharing, HasEmptied, IsAssured, HasClaimed
<1>4. TypeInv'
  BY <1>1, <1>2 DEF ReleaseAll, TypeInv, Typed
<1>5. LocksHeld'
  BY <1>1, <1>2, <1>3, Unmoved, LockConstants DEF ReleaseAll, LocksHeld, TypeInv, Typed
<1>6. ReadersGone'
  BY <1>1, <1>2, <1>3, Unmoved DEF ReleaseAll, ReadersGone, TypeInv, Typed
<1>7. StaysStopped'
  BY <1>1, <1>2, <1>3, Unmoved DEF StaysStopped
<1>8. OneStart'
  BY <1>1, <1>2, <1>3, Unmoved DEF OneStart
<1> QED
  BY <1>4, <1>5, <1>6, <1>7, <1>8

\* Every step keeps the invariant.
LEMMA InvNext == LockInv /\ [Next]_vars => LockInv'
<1>1. ASSUME LockInv, NEW p \in Callers, Begin(p) \/ Work(p) \/ Exit(p) PROVE LockInv'
  BY <1>1, InvBegin, InvTakeRead, InvTake, InvDrained, InvRelease, InvPass, InvPublishStatus,
     InvReturn DEF Work
<1>2. ASSUME LockInv, UNCHANGED vars PROVE LockInv'
  BY <1>2 DEF vars, LockInv, TypeInv, Typed, LocksHeld, ReadersGone, StaysStopped, OneStart,
     Owning, Sharing, HasEmptied, IsAssured, HasClaimed, Prog
<1> QED
  BY <1>1, <1>2 DEF Next

\* The invariant holds in every reachable state.
LEMMA Invariance == Spec => []LockInv
BY InvInit, InvNext, PTL DEF Spec

-----------------------------------------------------------------------------
(* Who uses what.                                                          *)

\* What a caller has when it uses data.
LEMMA UseHas ==
    ASSUME LockInv, NEW p \in Callers
    PROVE  /\ Changes(p) \subseteq Uses(p) /\ Replaces(p) \subseteq Changes(p)
           /\ Uses(p) \subseteq Data
           /\ "engine" \in Uses(p) => Sharing(p, "programFiles") \/ Owning(p, "worldGen")
           /\ "engine" \in Changes(p) => "engine" \in Replaces(p)
           /\ "engine" \in Replaces(p) =>
                 IsAssured(p) /\ Owning(p, "worldGen") /\ HasEmptied(p, "programFiles")
           /\ Changes(p) \cap {"mods", "config"} # {} =>
                 /\ IsAssured(p)
                 /\ \/ HasEmptied(p, "gate")
                    \/ Sharing(p, "gate") /\ Owning(p, "lifecycle")
           /\ "saves" \in Changes(p) => Owning(p, "gate") \/ Sharing(p, "gate")
           /\ "stored" \in Changes(p) => Owning(p, "profiles")
           /\ "snapshots" \in Changes(p) => Owning(p, "snapshotStore")
           /\ "checkpoints" \in Changes(p) => Owning(p, "checkpointOp")
<1>1. CASE Instr(p).do \notin Using
  BY <1>1 DEF Changes, Uses, Replaces, Using
<1>2. CASE Instr(p).do \in Using
  <2>1. /\ op[p] # Idle /\ Guarded(Prog(p)) /\ WellFormed(Prog(p))
        /\ pc[p] \in 1..Len(Prog(p)) /\ Instr(p) = Prog(p)[pc[p]]
    BY <1>2, AtInstruction, AllObey DEF Obeys, Prog, LockInv, Using
  <2>2. Uses(p) = Instr(p).on /\ Instr(p).on \subseteq Data
    BY <1>2, <2>1 DEF Uses, Using, WellFormed
  <2>3. /\ Changes(p) \subseteq Uses(p) /\ Replaces(p) \subseteq Changes(p)
        /\ Changes(p) # {} => Instr(p).do \in Changing /\ Changes(p) = Instr(p).on
        /\ Replaces(p) # {} => Instr(p).do = "replace" /\ Replaces(p) = Instr(p).on
        /\ Instr(p).do = "replace" => Replaces(p) = Instr(p).on
    BY DEF Changes, Uses, Replaces, Changing
  <2>4. "engine" \in Uses(p) => Sharing(p, "programFiles") \/ Owning(p, "worldGen")
    BY <1>2, <2>1, <2>2 DEF Guarded, Sharing, Owning
  <2>5. /\ "engine" \in Changes(p) => "engine" \in Replaces(p)
        /\ "engine" \in Replaces(p) =>
              IsAssured(p) /\ Owning(p, "worldGen") /\ HasEmptied(p, "programFiles")
    BY <1>2, <2>1, <2>3 DEF Guarded, IsAssured, Owning, HasEmptied
  <2>6. Changes(p) \cap {"mods", "config"} # {} =>
           /\ IsAssured(p)
           /\ \/ HasEmptied(p, "gate")
              \/ Sharing(p, "gate") /\ Owning(p, "lifecycle")
    BY <1>2, <2>1, <2>3 DEF Guarded, IsAssured, Owning, HasEmptied, Sharing
  <2>7. /\ "saves" \in Changes(p) => Owning(p, "gate") \/ Sharing(p, "gate")
        /\ "stored" \in Changes(p) => Owning(p, "profiles")
        /\ "snapshots" \in Changes(p) => Owning(p, "snapshotStore")
        /\ "checkpoints" \in Changes(p) => Owning(p, "checkpointOp")
    BY <1>2, <2>1, <2>3 DEF Guarded, InGate, Owning, Sharing
  <2> QED
    BY <2>2, <2>3, <2>4, <2>5, <2>6, <2>7
<1> QED
  BY <1>1, <1>2

\* What excludes two callers from one another.
LEMMA Excluded ==
    ASSUME LockInv, NEW p \in Callers, NEW q \in Callers, p # q
    PROVE  /\ \A l \in Locks : ~(Owning(p, l) /\ Owning(q, l))
           /\ \A l \in RWLocks : HasEmptied(p, l) => ~Owning(q, l) /\ ~Sharing(q, l)
<1>1. \A l \in Locks : ~(Owning(p, l) /\ Owning(q, l))
  BY DEF LockInv, LocksHeld
<1>2. \A l \in RWLocks : HasEmptied(p, l) => ~Owning(q, l) /\ ~Sharing(q, l)
  BY <1>1, Consistent DEF LockInv, LocksHeld, ReadersGone, Locks
<1> QED
  BY <1>1, <1>2

\* Whoever replaces the program files is alone with them, and the server is down.
LEMMA EngineAlone == LockInv => EngineStable
<1> SUFFICES ASSUME LockInv, NEW p \in Callers, "engine" \in Replaces(p)
             PROVE  /\ status = "stopped"
                    /\ \A q \in Callers \ {p} : "engine" \notin Uses(q)
  BY DEF EngineStable
<1>1. IsAssured(p) /\ Owning(p, "worldGen") /\ HasEmptied(p, "programFiles")
  BY UseHas
<1> QED
  BY <1>1, UseHas, Excluded DEF LockInv, StaysStopped, Locks, RWLocks, Mutexes

\* Two callers change different data.
LEMMA ChangesApart == LockInv => ChangesExclusive
<1> SUFFICES ASSUME LockInv, NEW p \in Callers, NEW q \in Callers, p # q,
                    NEW x \in Changes(p) \cap Changes(q), x # "saves"
             PROVE  FALSE
  BY DEF ChangesExclusive
<1>1. x \in Data
  BY UseHas
<1>2. CASE x \in {"mods", "config"}
  BY <1>2, UseHas, Excluded, Consistent DEF LockInv, Locks, RWLocks, Mutexes
<1>3. CASE x = "engine"
  BY <1>3, UseHas, EngineAlone DEF EngineStable
<1>4. CASE x \in {"stored", "snapshots", "checkpoints"}
  BY <1>4, UseHas, Excluded DEF Locks, RWLocks, Mutexes
<1> QED
  BY <1>1, <1>2, <1>3, <1>4 DEF Data

\* What a backup copies is changed by nobody.
LEMMA BackupAlone == LockInv => BackupConsistent
<1> SUFFICES ASSUME LockInv, NEW p \in Callers, NEW q \in Callers,
                    op[p] = "ExportProfileBackup", NEW x \in Uses(p) \cap Changes(q)
             PROVE  FALSE
  BY DEF BackupConsistent
<1>1. Instr(p).do \in Using /\ x \in Instr(p).on
  BY DEF Uses, Using
<1>2. /\ op[p] # Idle /\ CopiesAlone(Prog(p))
      /\ pc[p] \in 1..Len(Prog(p)) /\ Instr(p) = Prog(p)[pc[p]]
  BY <1>1, AtInstruction, AllObey DEF Prog, LockInv, Using
<1>3. /\ Instr(p).do = "read" /\ x \in {"saves", "mods", "config", "stored", "checkpoints"}
      /\ HasEmptied(p, "gate") /\ Owning(p, "profiles") /\ Owning(p, "checkpointOp")
  BY <1>1, <1>2 DEF CopiesAlone, HasEmptied, Owning, Data
<1>4. p # q
  BY <1>3 DEF Changes
<1>5. ~Owning(q, "gate") /\ ~Sharing(q, "gate") /\ ~HasEmptied(q, "gate")
  BY <1>3, <1>4, Excluded, Consistent DEF LockInv, RWLocks
<1>6. ~Owning(q, "profiles") /\ ~Owning(q, "checkpointOp")
  BY <1>3, <1>4, Excluded DEF Locks, Mutexes
<1> QED
  BY <1>3, <1>5, <1>6, UseHas

\* A switch is seen by nobody but the checkpoint of a queued stop.
LEMMA SwitchAlone == LockInv => SwitchUnobserved
<1> SUFFICES ASSUME LockInv, NEW p \in Callers, Replaces(p) # {},
                    op[p] \in {"ActivateProfile", "RollBackActivation", "LoadModPack",
                               "RestoreModBackup"}
             PROVE  /\ status = "stopped"
                    /\ \A q \in Callers \ {p} :
                          op[q] # "QueuedStop" => Uses(q) \cap Replaces(p) = {}
  BY DEF SwitchUnobserved
<1>1. Instr(p).do = "replace" /\ Replaces(p) = Instr(p).on
  BY DEF Replaces
<1>2. /\ op[p] # Idle /\ ReplacesAlone(Prog(p))
      /\ pc[p] \in 1..Len(Prog(p)) /\ Instr(p) = Prog(p)[pc[p]]
  BY <1>1, AtInstruction, AllObey DEF Prog, LockInv
<1>3. IsAssured(p) /\ HasEmptied(p, "gate") /\ Replaces(p) \subseteq Active \cup {"engine"}
  BY <1>1, <1>2 DEF ReplacesAlone, IsAssured, HasEmptied
<1>4. ASSUME NEW q \in Callers \ {p}, op[q] # "QueuedStop", Uses(q) \cap Active # {}
      PROVE  FALSE
  <2>1. Instr(q).do \in Using /\ Instr(q).on \cap Active # {}
    BY <1>4 DEF Uses, Using
  <2>2. /\ op[q] # Idle /\ UsesInGate(Prog(q))
        /\ pc[q] \in 1..Len(Prog(q)) /\ Instr(q) = Prog(q)[pc[q]]
    BY <1>4, <2>1, AtInstruction, AllObey DEF Prog, LockInv, Using
  <2>3. Owning(q, "gate") \/ Sharing(q, "gate")
    BY <2>1, <2>2 DEF UsesInGate, InGate, Owning, Sharing
  <2> QED
    BY <1>3, <2>3, Excluded DEF RWLocks
<1>5. \A q \in Callers \ {p} : "engine" \in Replaces(p) => "engine" \notin Uses(q)
  BY EngineAlone DEF EngineStable
<1> QED
  BY <1>3, <1>4, <1>5 DEF LockInv, StaysStopped

-----------------------------------------------------------------------------
(* Nobody waits in a circle.                                               *)

\* Natural numbers that are bounded have a largest.
LEMMA Largest ==
    ASSUME NEW S \in SUBSET (0..13), S # {}
    PROVE  \E n \in S : \A m \in S : m <= n
<1> DEFINE D == {d \in Nat : 13 - d \in S}
<1>1. D # {} /\ D \subseteq Nat
  <2>1. PICK n \in S : TRUE
    OBVIOUS
  <2>2. 13 - n \in Nat /\ 13 - (13 - n) = n
    BY <2>1
  <2> QED
    BY <2>1, <2>2
<1>2. PICK d \in D : \A e \in D : ~(e < d)
  <2>1. PICK d \in D : \A e \in D : <<e, d>> \notin OpToRel(<, Nat)
    BY <1>1, NatLessThanWellFounded, WFMin
  <2> QED
    BY <1>1, <2>1 DEF OpToRel
<1>3. \A m \in S : 13 - m \in D
  <2> TAKE m \in S
  <2>1. 13 - m \in Nat /\ 13 - (13 - m) = m
    OBVIOUS
  <2> QED
    BY <2>1
<1>4. d \in Nat /\ 13 - d \in S
  BY <1>2
<1>5. ASSUME NEW m \in S PROVE m <= 13 - d
  <2>1. ~(13 - m < d) /\ m \in 0..13
    BY <1>2, <1>3
  <2> QED
    BY <1>4, <2>1
<1> QED
  BY <1>4, <1>5

\* How far a caller that waits has come in an order of the locks.
Rank(order, p) == 2 * order[Instr(p).on] + (IF Instr(p).do = "drain" THEN 1 ELSE 0)

\* Both orders number the locks that are waited for.
LEMMA Orders == \A l \in Waited : Usual[l] \in 0..6 /\ InSwitch[l] \in 0..6
BY DEF Waited, RWLocks, Usual, InSwitch

\* The one a caller waits for is further, in the order that both follow.
LEMMA WaitsForFurther ==
    ASSUME LockInv, NEW p \in Callers, NEW q \in Blockers(p) \cap Callers,
           Blockers(p) # {}, Blockers(q) # {},
           NEW order \in {Usual, InSwitch},
           \A r \in {p, q} :
              \/ order = Usual /\ (op[r] \notin Switches \/ ~HasEmptied(r, "gate"))
              \/ /\ order = InSwitch
                 /\ op[r] \in Switches \/ ~(Owning(r, "gate") \/ Sharing(r, "gate"))
    PROVE  Rank(order, p) \in 0..13 /\ Rank(order, q) \in 0..13 /\ Rank(order, p) < Rank(order, q)
<1>1. \A r \in {p, q} :
        /\ Waits(Instr(r)) /\ op[r] # Idle /\ Orderly(Prog(r), op[r]) /\ WellFormed(Prog(r))
        /\ pc[r] \in 1..Len(Prog(r)) /\ Instr(r) = Prog(r)[pc[r]]
  BY AtInstruction, AllObey DEF Blockers, Waits, LockInv, Obeys, Prog
<1>2. \A r \in {p, q} : Instr(r).on \in Waited /\ order[Instr(r).on] \in 0..6
  BY <1>1, Orders DEF Orderly
<1>3. \A l \in Waited :
         Sharing(q, l) \/ (Owning(q, l) /\ ~(Instr(q).do = "drain" /\ Instr(q).on = l)) =>
            order[l] < order[Instr(q).on]
  BY <1>1 DEF Orderly, Sharing, Owning, HasEmptied, InGate
<1>4. CASE Instr(p).do \in {"lock", "rlock"}
  <2>1. Owning(q, Instr(p).on)
    BY <1>1, <1>4 DEF Blockers, LockInv, LocksHeld, WellFormed, Waits, Locks
  <2> QED
    BY <1>2, <1>3, <1>4, <2>1 DEF Rank
<1>5. CASE Instr(p).do = "drain"
  <2>1. Sharing(q, Instr(p).on)
    BY <1>1, <1>5 DEF Blockers, LockInv, LocksHeld, WellFormed
  <2> QED
    BY <1>2, <1>3, <1>5, <2>1 DEF Rank
<1> QED
  BY <1>1, <1>4, <1>5 DEF Waits

\* In every group of callers one waits for nobody in the group.
LEMMA SomeoneFree == LockInv => NoDeadlock
<1> SUFFICES ASSUME LockInv, NEW group \in (SUBSET Callers) \ {{}}
             PROVE  \E p \in group : Blockers(p) \cap group = {}
  BY DEF NoDeadlock
<1> SUFFICES ASSUME \A p \in group : Blockers(p) \cap group # {}
             PROVE  FALSE
  OBVIOUS
<1>1. PICK order \in {Usual, InSwitch} :
         \A r \in group :
              \/ order = Usual /\ (op[r] \notin Switches \/ ~HasEmptied(r, "gate"))
              \/ /\ order = InSwitch
                 /\ op[r] \in Switches \/ ~(Owning(r, "gate") \/ Sharing(r, "gate"))
  <2>1. CASE \E s \in group : op[s] \in Switches /\ HasEmptied(s, "gate")
    BY <2>1, Excluded DEF RWLocks
  <2>2. CASE ~\E s \in group : op[s] \in Switches /\ HasEmptied(s, "gate")
    BY <2>2
  <2> QED
    BY <2>1, <2>2
<1>2. ASSUME NEW p \in group
      PROVE  \E q \in group : /\ Rank(order, p) \in 0..13 /\ Rank(order, q) \in 0..13
                              /\ Rank(order, p) < Rank(order, q)
  <2>1. PICK q \in group : q \in Blockers(p) \cap Callers
    OBVIOUS
  <2>2. Blockers(p) # {} /\ Blockers(q) # {}
    BY <2>1
  <2> QED
    BY <1>1, <2>1, <2>2, WaitsForFurther
<1> DEFINE S == {Rank(order, p) : p \in group}
<1>3. S \in SUBSET (0..13) /\ S # {}
  <2>1. \A p \in group : Rank(order, p) \in 0..13
    BY <1>2
  <2>2. group # {}
    OBVIOUS
  <2> QED
    BY <2>1, <2>2
<1>4. PICK n \in S : \A m \in S : m <= n
  BY <1>3, Largest
<1>5. PICK p \in group : n = Rank(order, p)
  BY <1>4
<1>6. PICK q \in group : Rank(order, q) \in 0..13 /\ n \in 0..13 /\ n < Rank(order, q)
  BY <1>2, <1>5
<1>7. Rank(order, q) <= n
  BY <1>4
<1> QED
  BY <1>6, <1>7

-----------------------------------------------------------------------------
(* The theorems.                                                           *)

\* Every owner and reader of a lock is a caller with an operation under way, on one side of
\* it only: no return of any operation leaks a mutex or a side of a read-write lock.
THEOREM LocksTypeCorrect == Spec => []TypeOK
<1>1. ASSUME LockInv PROVE TypeOK
  <2>1. \A l \in Locks : owner[l] # Nobody => owner[l] \in Callers /\ Owning(owner[l], l)
    BY <1>1 DEF LockInv, TypeInv, Typed, LocksHeld
  <2>2. \A l \in RWLocks : \A p \in readers[l] : p \in Callers /\ Sharing(p, l)
    BY <1>1 DEF LockInv, TypeInv, Typed, LocksHeld
  <2>3. \A l \in RWLocks : owner[l] \notin readers[l]
    BY <1>1, <2>1, <2>2, Consistent, LockConstants DEF LockInv, Locks
  <2> QED
    BY <1>1, <2>1, <2>2, <2>3 DEF TypeOK, LockInv, TypeInv, Owning, Sharing
<1> QED
  BY <1>1, Invariance, PTL

\* Mods and configuration change only while no child is up or starting, for any number of
\* requests, starts and switches at once: the recheck under the lifecycle lock and the gate
\* close the gap after ServerOffMiddleware.
THEOREM ModsChangedWhenStopped == Spec => []ModsChangeStopped
<1>1. LockInv => ModsChangeStopped
  BY UseHas DEF ModsChangeStopped, LockInv, StaysStopped
<1> QED
  BY <1>1, Invariance, PTL

\* Whoever uses the program files, the active directories or the stores behind them finds
\* them stable: replacements exclude all uses, changes of the same data exclude each other,
\* a backup copies what nobody changes, a switch is seen by no request and no start.
THEOREM DataUsedStable == Spec => []DataStable
<1>1. LockInv => DataStable
  BY EngineAlone, ChangesApart, BackupAlone, SwitchAlone DEF DataStable
<1> QED
  BY <1>1, Invariance, PTL

\* Whatever operations run at once, in every group of callers there is one that waits for
\* none of the group: the locks and the pending writers that keep readers out form no circle.
THEOREM DeadlockFree == Spec => []NoDeadlock
BY SomeoneFree, Invariance, PTL
=============================================================================
