---------------------------- MODULE MapSnapshots ----------------------------
(***************************************************************************)
(* Map snapshots (factorio/map_snapshot.go, map_snapshot_store.go).  A     *)
(* request or the scheduler starts one job at a time; the job waits for    *)
(* the profile data, exports the map of the active profile in a workspace  *)
(* of its own and exchanges the stored directory of that profile by        *)
(* renames, with the old one beside it as ".previous" for the moment.      *)
(* When the interval has passed and whether players are on is left open.   *)
(***************************************************************************)
EXTENDS Naturals

CONSTANTS
    Owners,         \* profiles
    FirstOwner,     \* the one that is active at first
    NoOwner,
    MaxSnapshotFaults, MaxSnapshotCrashes   \* bounds

ASSUME SnapshotConstants ==
    /\ FirstOwner \in Owners /\ NoOwner \notin Owners
    /\ MaxSnapshotFaults \in Nat /\ MaxSnapshotCrashes \in Nat

VARIABLES
    owner, owners,          \* the active profile, the profiles there are
    enabled, interval,      \* the settings; an interval of 0 is manual only
    operation,              \* who holds mapSnapshotOperationMutex
    generating,             \* mapSnapshotRuntime: Running, RunningProfile
    lastAttempt,            \* LastAttemptProfile, LastError
    scheduler,              \* the scheduler has decided to start a job
    job,                    \* the job: its step and profile, what it exported
    current, previous,      \* for each profile the directory and ".previous"
    stored,                 \* the profiles a snapshot was stored for
    snapFaults, snapCrashes \* counters

snapCounters == <<snapFaults, snapCrashes>>
runtimeVars == <<operation, generating, lastAttempt, scheduler>>
storeVars == <<current, previous, stored>>
snapVars == <<owner, owners, enabled, interval, runtimeVars, job, storeVars, snapCounters>>

\* A directory: whose map it shows, and whether all its files are there.
Nothing == [of |-> NoOwner, whole |-> FALSE]
Whole(p) == [of |-> p, whole |-> TRUE]
Partial(d) == [d EXCEPT !.whole = FALSE]

NoJob == [step |-> "none", owner |-> NoOwner, export |-> Nothing, replaces |-> FALSE]
Activating == {"inspect", "stale", "backup", "place", "restore", "cleanup"}
\* LockProfileDataRead and the gate of the program files
HoldsData == job.step \in {"check", "export"} \cup Activating
StoreFree == job.step \notin Activating

SnapshotsInit ==
    /\ owner = FirstOwner /\ owners = Owners
    /\ enabled = TRUE /\ interval = 1
    /\ operation = "free" /\ generating = NoOwner
    /\ lastAttempt = [owner |-> NoOwner, failed |-> FALSE] /\ scheduler = FALSE
    /\ job = NoJob
    /\ current = [p \in Owners |-> Nothing] /\ previous = [p \in Owners |-> Nothing]
    /\ stored = {} /\ snapFaults = 0 /\ snapCrashes = 0

Profiles0 == UNCHANGED <<owner, owners>>
Settings0 == UNCHANGED <<enabled, interval>>
SnapFault == snapFaults < MaxSnapshotFaults /\ snapFaults' = snapFaults + 1 /\ UNCHANGED snapCrashes

----------------------------------------------------------------------------
(* Settings and profiles                                                   *)

SetMapSnapshotSettings(on, minutes) ==
    /\ enabled' = on /\ interval' = minutes
    /\ Profiles0 /\ UNCHANGED <<runtimeVars, job, storeVars, snapCounters>>

ActivateOwner(p) ==
    /\ p \in owners \ {owner} /\ ~HoldsData
    /\ owner' = p
    /\ Settings0 /\ UNCHANGED <<owners, runtimeVars, job, storeVars, snapCounters>>

\* deleteProfileMapSnapshot, at the end of DeleteProfile; ".previous" stays.
DeleteOwner(p) ==
    /\ p \in owners \ {owner} /\ StoreFree
    /\ owners' = owners \ {p}
    /\ current' = [current EXCEPT ![p] = Nothing]
    /\ Settings0 /\ UNCHANGED <<owner, runtimeVars, job, previous, stored, snapCounters>>

DeleteOwnerFails(p) ==
    /\ p \in owners \ {owner} /\ StoreFree /\ SnapFault
    /\ owners' = owners \ {p}
    /\ current' = [current EXCEPT ![p] = Partial(@)]
    /\ Settings0 /\ UNCHANGED <<owner, runtimeVars, job, previous, stored>>

\* Startup settings are evaluated under the same mutex.
EvaluateSettings ==
    /\ operation = "free" /\ ~HoldsData /\ operation' = "evaluation"
    /\ Profiles0 /\ Settings0
    /\ UNCHANGED <<generating, lastAttempt, scheduler, job, storeVars, snapCounters>>
EvaluationDone ==
    /\ operation = "evaluation" /\ operation' = "free"
    /\ Profiles0 /\ Settings0
    /\ UNCHANGED <<generating, lastAttempt, scheduler, job, storeVars, snapCounters>>

----------------------------------------------------------------------------
(* The trigger                                                             *)

\* mapSnapshotScheduleIfDue: what it has read may be out of date when it acts.
ScheduleIfDue ==
    /\ ~scheduler /\ enabled /\ interval # 0 /\ generating = NoOwner
    /\ scheduler' = TRUE
    /\ Profiles0 /\ Settings0
    /\ UNCHANGED <<operation, generating, lastAttempt, job, storeVars, snapCounters>>

\* Manually, or for the scheduler.
TriggerMapSnapshot(automatic) ==
    /\ automatic => scheduler
    /\ scheduler' = (scheduler /\ ~automatic)
    /\ IF enabled /\ operation = "free"
       THEN /\ operation' = "job" /\ generating' = owner
            /\ lastAttempt' = [owner |-> owner, failed |-> FALSE]
            /\ job' = [NoJob EXCEPT !.step = "wait", !.owner = owner]
       ELSE UNCHANGED <<operation, generating, lastAttempt, job>>
    /\ Profiles0 /\ Settings0 /\ UNCHANGED <<storeVars, snapCounters>>

\* The scheduler gives up: players are on, or the version is too old.
ScheduleNot ==
    /\ scheduler /\ scheduler' = FALSE
    /\ Profiles0 /\ Settings0
    /\ UNCHANGED <<operation, generating, lastAttempt, job, storeVars, snapCounters>>

----------------------------------------------------------------------------
(* The job                                                                 *)

JobStep(step) == job' = [job EXCEPT !.step = step]
JobEnds(failed) ==
    /\ JobStep("ended") /\ generating' = NoOwner
    /\ lastAttempt' = [lastAttempt EXCEPT !.failed = failed]
    /\ UNCHANGED <<operation, scheduler>>
JobOnly == Profiles0 /\ Settings0 /\ UNCHANGED runtimeVars

LockData ==
    /\ job.step = "wait" /\ JobStep("check")
    /\ JobOnly /\ UNCHANGED <<storeVars, snapCounters>>

\* Mutant of CheckProfile: the profile is not compared.
CheckSettingsOnly ==
    /\ job.step = "check"
    /\ IF enabled THEN JobStep("export") /\ UNCHANGED runtimeVars ELSE JobEnds(TRUE)
    /\ Profiles0 /\ Settings0 /\ UNCHANGED <<storeVars, snapCounters>>

\* generateActiveMapSnapshot: the profile, and the settings once more.
CheckProfile ==
    /\ job.step = "check"
    /\ IF owner = job.owner /\ enabled THEN JobStep("export") /\ UNCHANGED runtimeVars
                                       ELSE JobEnds(TRUE)
    /\ Profiles0 /\ Settings0 /\ UNCHANGED <<storeVars, snapCounters>>

\* The save and the mods of the active profile are copied, Factorio exports
\* them, and the result is rendered into a staging directory.
Export ==
    /\ job.step = "export"
    /\ job' = [job EXCEPT !.step = "inspect", !.export = Whole(owner)]
    /\ JobOnly /\ UNCHANGED <<storeVars, snapCounters>>

ExportFails ==
    /\ job.step = "export" /\ JobEnds(TRUE)
    /\ Profiles0 /\ Settings0 /\ UNCHANGED <<storeVars, snapCounters>>

\* ReleaseOperation: the mutex is given back last.
ReleaseOperation ==
    /\ job.step = "ended" /\ job' = NoJob /\ operation' = "free"
    /\ Profiles0 /\ Settings0
    /\ UNCHANGED <<generating, lastAttempt, scheduler, storeVars, snapCounters>>

----------------------------------------------------------------------------
(* activateMapSnapshotDirectory, under the exclusive gate of the store     *)

Has(table) == table[job.owner] # Nothing
Put(table, d) == [table EXCEPT ![job.owner] = d]

\* Mutant of Inspect: ".previous" is taken for a leftover whenever it is there.
InspectBlindly ==
    /\ job.step = "inspect"
    /\ UNCHANGED <<current, previous>>
    /\ JobStep(IF Has(previous) THEN "stale" ELSE "backup")
    /\ JobOnly /\ UNCHANGED <<stored, snapCounters>>

\* Only ".previous" is there: an interrupted exchange, which is undone first.
Inspect ==
    /\ job.step = "inspect"
    /\ IF ~Has(current) /\ Has(previous)
       THEN current' = Put(current, previous[job.owner]) /\ previous' = Put(previous, Nothing)
       ELSE UNCHANGED <<current, previous>>
    /\ JobStep(IF Has(current) /\ Has(previous) THEN "stale" ELSE "backup")
    /\ JobOnly /\ UNCHANGED <<stored, snapCounters>>

RemoveStale ==
    /\ job.step = "stale"
    /\ previous' = Put(previous, Nothing) /\ JobStep("backup")
    /\ JobOnly /\ UNCHANGED <<current, stored, snapCounters>>

BackUp ==
    /\ job.step = "backup"
    /\ IF Has(current)
       THEN previous' = Put(previous, current[job.owner]) /\ current' = Put(current, Nothing)
       ELSE UNCHANGED <<current, previous>>
    /\ job' = [job EXCEPT !.step = "place", !.replaces = Has(current)]
    /\ JobOnly /\ UNCHANGED <<stored, snapCounters>>

Place ==
    /\ job.step = "place"
    /\ current' = Put(current, job.export) /\ stored' = stored \cup {job.owner}
    /\ IF job.replaces THEN JobStep("cleanup") /\ UNCHANGED runtimeVars ELSE JobEnds(FALSE)
    /\ Profiles0 /\ Settings0 /\ UNCHANGED <<previous, snapCounters>>

PlaceFails ==
    /\ job.step = "place" /\ SnapFault
    /\ IF job.replaces THEN JobStep("restore") /\ UNCHANGED runtimeVars ELSE JobEnds(TRUE)
    /\ Profiles0 /\ Settings0 /\ UNCHANGED storeVars

RestorePrevious ==
    /\ job.step = "restore"
    /\ current' = Put(current, previous[job.owner]) /\ previous' = Put(previous, Nothing)
    /\ JobEnds(TRUE)
    /\ Profiles0 /\ Settings0 /\ UNCHANGED <<stored, snapCounters>>

Cleanup ==
    /\ job.step = "cleanup"
    /\ previous' = Put(previous, Nothing) /\ JobEnds(FALSE)
    /\ Profiles0 /\ Settings0 /\ UNCHANGED <<current, stored, snapCounters>>

\* A rename or a removal fails; a removal has done a part of its work.  Only a
\* failed cleanup is no error.
StoreStepFails ==
    /\ job.step \in {"inspect", "stale", "backup", "restore", "cleanup"} /\ SnapFault
    /\ IF job.step \in {"stale", "cleanup"}
       THEN previous' = Put(previous, Partial(previous[job.owner])) ELSE UNCHANGED previous
    /\ JobEnds(job.step # "cleanup")
    /\ Profiles0 /\ Settings0 /\ UNCHANGED <<current, stored>>

\* The manager dies and is started again.
SnapshotManagerStops ==
    /\ snapCrashes < MaxSnapshotCrashes /\ snapCrashes' = snapCrashes + 1
    /\ previous' \in {previous} \cup
          (IF job.step \in {"stale", "cleanup"} THEN {Put(previous, Partial(previous[job.owner]))} ELSE {})
    /\ job' = NoJob /\ operation' = "free" /\ generating' = NoOwner /\ scheduler' = FALSE
    /\ lastAttempt' = [owner |-> NoOwner, failed |-> FALSE]
    /\ Profiles0 /\ Settings0 /\ UNCHANGED <<current, stored, snapFaults>>

----------------------------------------------------------------------------

Exchange ==
    \/ Inspect \/ RemoveStale \/ BackUp \/ Place \/ PlaceFails \/ RestorePrevious \/ Cleanup
    \/ StoreStepFails

SnapshotsNext ==
    \/ \E on \in BOOLEAN, minutes \in {0, 1} : SetMapSnapshotSettings(on, minutes)
    \/ \E p \in Owners : ActivateOwner(p) \/ DeleteOwner(p) \/ DeleteOwnerFails(p)
    \/ EvaluateSettings \/ EvaluationDone
    \/ ScheduleIfDue \/ ScheduleNot \/ \E automatic \in BOOLEAN : TriggerMapSnapshot(automatic)
    \/ LockData \/ CheckProfile \/ Export \/ ExportFails \/ ReleaseOperation
    \/ Exchange \/ SnapshotManagerStops

SnapshotsSpec == SnapshotsInit /\ [][SnapshotsNext]_snapVars

----------------------------------------------------------------------------
(* Properties                                                              *)

Directory == [of : Owners \cup {NoOwner}, whole : BOOLEAN]
JobSteps == {"none", "wait", "check", "export", "ended"} \cup Activating

SnapshotsTypeOK ==
    /\ owner \in owners /\ owners \subseteq Owners
    /\ enabled \in BOOLEAN /\ interval \in {0, 1}
    /\ operation \in {"free", "job", "evaluation"} /\ generating \in Owners \cup {NoOwner}
    /\ lastAttempt \in [owner : Owners \cup {NoOwner}, failed : BOOLEAN] /\ scheduler \in BOOLEAN
    /\ job \in [step : JobSteps, owner : Owners \cup {NoOwner}, export : Directory, replaces : BOOLEAN]
    /\ current \in [Owners -> Directory] /\ previous \in [Owners -> Directory]
    /\ stored \subseteq Owners
    /\ snapFaults \in 0..MaxSnapshotFaults /\ snapCrashes \in 0..MaxSnapshotCrashes

\* Once a map was stored for a profile a whole one is there until the profile is
\* deleted, in its place or as ".previous", whatever fails and whenever the
\* manager dies (map_snapshot_store.go:141-147).
MapSurvives ==
    \A p \in stored \cap owners : Whole(p) \in {current[p], previous[p]}

\* What requests read: never a part of a map, never the map of another profile,
\* though the job was started for the profile that was active then
\* (map_snapshot.go:247); and unless the manager died or two steps failed, the
\* last map is there again when the store is (TECHNICAL-NOTES.md:60).
MapsWhole ==
    /\ \A p \in owners : current[p] \in {Nothing, Whole(p)}
    /\ StoreFree /\ snapCrashes = 0 /\ snapFaults < 2 =>
          \A p \in stored \cap owners : current[p] = Whole(p)

\* A map, once stored, is there and whole (map_snapshot_store.go:141, map_snapshot.go:247).
MapsKept == MapSurvives /\ MapsWhole

\* Running is true only for the holder of the mutex, and there is one job.
OneJob ==
    /\ generating # NoOwner => operation = "job" /\ generating = job.owner
    /\ job.step # "none" <=> operation = "job"
=============================================================================
