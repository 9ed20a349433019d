---------------------------- MODULE Checkpoints ----------------------------
(***************************************************************************)
(* Fixed checkpoints: archives of a profile's save and the state.json that *)
(* notes the latest one, its retention and the last error.                 *)
(*                                                                         *)
(* checkpointOperationMutex lets one operation run at a time.  A request   *)
(* and the monitor hold the gate as well, so no profile switch comes       *)
(* between their steps; the clean-stop checkpoint of a queued stop and of  *)
(* the manager's shutdown does not.  Every write may fail and the manager  *)
(* may die between any two steps.  What a save holds is left out: it is    *)
(* known by the profile whose world it is.                                 *)
(***************************************************************************)
EXTENDS Integers, FiniteSets

CONSTANTS
    Profiles,    \* profile identifiers
    FirstActive,
    Retentions,  \* values of retention_count; 0 keeps every checkpoint
    DefaultRetention,
    Cooldown,    \* checkpointAutomatedCooldown, in units of the clock
    MaxTime, MaxFaults, MaxCrashes \* bounds on what happens

ASSUME CheckpointConstants ==
    /\ FirstActive \in Profiles
    /\ Retentions \subseteq Nat /\ DefaultRetention \in Retentions
    /\ Cooldown \in Nat /\ MaxTime \in Nat \ {0}
    /\ MaxFaults \in Nat /\ MaxCrashes \in Nat

VARIABLES
    now,       \* the clock; it does not run backwards
    active,    \* the active profile
    running,   \* Server.Running
    saves,     \* saves[p]: the profiles whose worlds are in p's save directory
    archives,  \* archives[p]: the archives under checkpoints/<p>/files
    state,     \* state[p]: checkpoints/<p>/state.json
    op,        \* the operation that holds the mutex
    strayed,   \* history: an operation without the gate read another profile's saves
    unnoted,   \* history: profiles whose state.json missed a change of the archives
    failed,    \* history: profiles whose latest checkpoint failed, which could be recorded
    faults, crashes

directories == <<active, running, saves>>
histories == <<strayed, unnoted, failed>>
counters == <<faults, crashes>>
vars == <<now, directories, archives, state, op, histories, counters>>

Times == 1..MaxTime
Never == 0 \* no LastCheckpointAt

\* noted is a history field: the state.json that mentions the archive was written.
Archive == [at : Times, automated : BOOLEAN, owner : Profiles, noted : BOOLEAN]
Store == [last : Times \cup {Never}, error : BOOLEAN, retention : Retentions]

Steps == {"idle", "source", "copy", "describe", "note", "retain", "record",
          "undescribe", "renote"}
Operation == [step : Steps, gated : BOOLEAN, automated : BOOLEAN, profile : Profiles,
              at : Times, live : BOOLEAN, source : Profiles, store : Store,
              excess : SUBSET Archive, complained : BOOLEAN]

TypeOK ==
    /\ now \in Times /\ active \in Profiles /\ running \in BOOLEAN
    /\ saves \in [Profiles -> SUBSET Profiles]
    /\ archives \in [Profiles -> SUBSET Archive]
    /\ state \in [Profiles -> Store]
    /\ op \in Operation
    /\ strayed \in BOOLEAN /\ unnoted \subseteq Profiles /\ failed \subseteq Profiles
    /\ faults \in 0..MaxFaults /\ crashes \in 0..MaxCrashes

FirstStore == [last |-> Never, error |-> FALSE, retention |-> DefaultRetention]

\* Nobody holds the mutex.
Resting == [step |-> "idle", gated |-> TRUE, automated |-> FALSE, profile |-> FirstActive,
            at |-> 1, live |-> FALSE, source |-> FirstActive, store |-> FirstStore,
            excess |-> {}, complained |-> FALSE]
Idle == op = Resting
P == op.profile

Init ==
    /\ now = 1 /\ active = FirstActive /\ running = FALSE
    /\ saves = [p \in Profiles |-> IF p = FirstActive THEN {p} ELSE {}]
    /\ archives = [p \in Profiles |-> {}]
    /\ state = [p \in Profiles |-> FirstStore]
    /\ op = Resting
    /\ strayed = FALSE /\ unnoted = {} /\ failed = {}
    /\ faults = 0 /\ crashes = 0

-----------------------------------------------------------------------------
Goto(step) == op' = [op EXCEPT !.step = step]
Return == op' = Resting
At(step) == op.step = step
Sure == UNCHANGED counters
Fault(n) == faults + n <= MaxFaults /\ faults' = faults + n /\ UNCHANGED crashes
Same(variables) == UNCHANGED <<now, directories, variables>>

SetArchives(S) == archives' = [archives EXCEPT ![P] = S]
Marked(set, p, yes) == IF yes THEN set \cup {p} ELSE set \ {p}

\* listCheckpoints puts the newest first.  An archive without metadata counts by the time
\* it was written, which is later than its identity but not than the next operation's.
Newer(S, a) == {b \in S : b.at > a.at}
Newest(S) == CHOOSE a \in S : Newer(S, a) = {}

\* Mutant of Excess: counts the archives that are not newer.
ExcessByOne(S, retention) ==
    IF retention = 0 THEN {} ELSE {a \in S : Cardinality(Newer(S, a)) >= retention - 1}
Excess(S, retention) ==
    IF retention = 0 THEN {} ELSE {a \in S : Cardinality(Newer(S, a)) >= retention}

LatestIn(S) == IF S = {} THEN Never ELSE Newest(S).at

-----------------------------------------------------------------------------
(* CreateCheckpoint.                                                       *)

\* An automated checkpoint soon after another one is not made, and no error either.
Coalesced(automated) ==
    automated /\ state[active].last # Never /\ now - state[active].last < Cooldown

\* Any trigger under the gate; a clean stop of a running server also without it.
BeginCreate(gated, automated) ==
    /\ Idle /\ now < MaxTime /\ ~Coalesced(automated)
    /\ gated \/ (automated /\ running)
    /\ now' = now + 1 \* time passes; no two checkpoints have one timestamp
    /\ op' = [Resting EXCEPT !.step = "source", !.gated = gated, !.automated = automated,
                             !.profile = active, !.at = now, !.store = state[active]]
    /\ UNCHANGED <<directories, archives, state, histories>> /\ Sure

\* checkpointSource: Factorio writes a save of its own, or a save is chosen.
FindSource ==
    /\ At("source") /\ Sure
    /\ running \/ saves[active] # {}
    /\ op' = [op EXCEPT !.step = "copy", !.live = running, !.source = active]
    /\ Same(<<archives, state, histories>>)

FindSourceFails ==
    /\ At("source") /\ Goto("record")
    /\ \/ Fault(1)
       \/ ~running /\ saves[active] = {} /\ Sure
    /\ Same(<<archives, state, histories>>)

\* The archive is copied, verified and renamed into place.  The save is opened by its
\* path: after a switch a save of that name may be there, but not one made for this.
Copy ==
    /\ At("copy") /\ Sure
    /\ op' = [op EXCEPT !.step = "describe", !.live = FALSE, !.source = P]
    /\ op.live => active = op.source
    /\ \E owner \in IF op.live THEN {op.source} ELSE saves[active] :
          SetArchives(archives[P] \cup {[at |-> op.at, automated |-> op.automated,
                                         owner |-> owner, noted |-> FALSE]})
    /\ strayed' = (strayed \/ (active # P /\ ~op.gated))
    /\ Same(<<state, unnoted, failed>>)

CopyFails ==
    /\ At("copy") /\ Goto("record")
    /\ \/ Fault(1)
       \/ active # op.source /\ Sure
    /\ Same(<<archives, state, histories>>)

Mine == {a \in archives[P] : a.at = op.at}

\* The metadata file beside the archive.
Describe ==
    /\ At("describe") /\ Goto("note") /\ Sure
    /\ Same(<<archives, state, histories>>)

\* Without it the archive is removed, unless that fails too.
DescribeFails ==
    /\ At("describe") /\ Goto("record")
    /\ \/ Fault(1) /\ SetArchives(archives[P] \ Mine) /\ UNCHANGED unnoted
       \/ Fault(2) /\ UNCHANGED archives /\ unnoted' = unnoted \cup {P}
    /\ Same(<<state, strayed, failed>>)

NotedArchives == (archives[P] \ Mine) \cup {[a EXCEPT !.noted = TRUE] : a \in Mine}

Note ==
    /\ At("note") /\ Sure
    /\ state' = [state EXCEPT ![P] = [op.store EXCEPT !.last = op.at, !.error = FALSE]]
    /\ SetArchives(NotedArchives)
    /\ op' = [op EXCEPT !.step = "retain",
                        !.excess = Excess(NotedArchives, op.store.retention)]
    /\ unnoted' = unnoted \ {P} /\ failed' = failed \ {P}
    /\ Same(strayed)

\* The archive stays; the caller is told of an error.
NoteFails ==
    /\ At("note") /\ Return /\ Fault(1)
    /\ unnoted' = unnoted \cup {P}
    /\ Same(<<archives, state, strayed, failed>>)

\* enforceCheckpointRetention tries each superfluous archive once.
Retain ==
    /\ At("retain") /\ op.excess # {}
    /\ LET a == Newest(op.excess) IN
       \E removed, error \in BOOLEAN :
          /\ removed \/ error
          /\ IF error THEN Fault(1) ELSE Sure
          /\ SetArchives(IF removed THEN archives[P] \ {a} ELSE archives[P])
          /\ op' = [op EXCEPT !.excess = @ \ {a}, !.complained = @ \/ error]
    /\ Same(<<state, histories>>)

\* The archives cannot be listed, or none of the rest can be removed.
RetainFails ==
    /\ At("retain") /\ op.store.retention > 0 /\ Goto("record") /\ Fault(1)
    /\ Same(<<archives, state, histories>>)

Retained ==
    /\ At("retain") /\ op.excess = {} /\ Sure
    /\ (IF op.complained THEN Goto("record") ELSE Return)
    /\ Same(<<archives, state, histories>>)

\* recordCheckpointErrorUnlocked; its own error is ignored.
Record ==
    /\ At("record") /\ Return
    /\ \/ /\ Sure /\ state' = [state EXCEPT ![P].error = TRUE]
          /\ failed' = failed \cup {P}
       \/ Fault(1) /\ UNCHANGED state /\ failed' = failed \ {P}
    /\ Same(<<archives, strayed, unnoted>>)

-----------------------------------------------------------------------------
(* The other operations; the gate is held.                                 *)

\* Mutant of UpdateSettings: validateCheckpointSettings is not called.
UpdateUnvalidated(r) ==
    /\ Idle /\ Sure
    /\ state' = [state EXCEPT ![active].retention = r]
    /\ Same(<<archives, op, histories>>)

UpdateSettings(r) ==
    /\ Idle /\ Sure /\ r >= 0
    /\ state' = [state EXCEPT ![active].retention = r]
    /\ Same(<<archives, op, histories>>)

\* DeleteCheckpoint: the archive, its metadata, then state.json.
Delete(a) ==
    /\ Idle /\ Sure
    /\ op' = [Resting EXCEPT !.step = "undescribe", !.profile = active]
    /\ archives' = [archives EXCEPT ![active] = @ \ {a}]
    /\ Same(<<state, histories>>)

Undescribe ==
    /\ At("undescribe")
    /\ \/ Goto("renote") /\ Sure /\ UNCHANGED unnoted
       \/ Return /\ Fault(1) /\ unnoted' = unnoted \cup {P}
    /\ Same(<<archives, state, strayed, failed>>)

\* Mutant of Renote: LastCheckpointAt is reset when the last checkpoint goes only.
RenoteLastOnly ==
    /\ At("renote") /\ Return /\ Sure
    /\ state' = [state EXCEPT ![P].last = IF archives[P] = {} THEN Never ELSE @]
    /\ unnoted' = unnoted \ {P}
    /\ Same(<<archives, strayed, failed>>)

Renote ==
    /\ At("renote") /\ Return
    /\ \/ /\ Sure /\ state' = [state EXCEPT ![P].last = LatestIn(archives[P])]
          /\ unnoted' = unnoted \ {P}
       \/ Fault(1) /\ UNCHANGED state /\ unnoted' = unnoted \cup {P}
    /\ Same(<<archives, strayed, failed>>)

\* A new save; the checkpoint itself is only read.
Restore(a) ==
    /\ Idle /\ ~running /\ Sure
    /\ saves' = [saves EXCEPT ![active] = @ \cup {a.owner}]
    /\ UNCHANGED <<now, active, running, archives, state, op, histories>>

-----------------------------------------------------------------------------
(* The server, the user and the clock.                                     *)

Start ==
    /\ ~running /\ saves[active] # {}
    /\ running' = TRUE
    /\ UNCHANGED <<now, active, saves, archives, state, op, histories>> /\ Sure

Exit ==
    /\ running /\ running' = FALSE
    /\ UNCHANGED <<now, active, saves, archives, state, op, histories>> /\ Sure

CreateWorld ==
    /\ ~running
    /\ saves' = [saves EXCEPT ![active] = @ \cup {active}]
    /\ UNCHANGED <<now, active, running, archives, state, op, histories>> /\ Sure

\* Mutant of GateFree: activation takes the read side of the gate.
GateShared == TRUE
GateFree == Idle \/ ~op.gated

\* ActivateProfile, which needs the gate for itself and a stopped server.
Switch(p) ==
    /\ GateFree /\ ~running /\ p # active
    /\ active' = p
    /\ UNCHANGED <<now, running, saves, archives, state, op, histories>> /\ Sure

Tick ==
    /\ now < MaxTime /\ now' = now + 1
    /\ UNCHANGED <<directories, archives, state, op, histories>> /\ Sure

\* The manager dies and is started again; it finds what is on the disk.
Crash ==
    /\ ~Idle /\ crashes < MaxCrashes /\ crashes' = crashes + 1
    /\ Return /\ running' = FALSE
    /\ unnoted' = Marked(unnoted, P, P \in unnoted
                             \/ op.step \in {"describe", "note", "undescribe", "renote"})
    /\ failed' = failed \ {P}
    /\ UNCHANGED <<now, active, saves, archives, state, strayed, faults>>

Next ==
    \/ \E gated, automated \in BOOLEAN : BeginCreate(gated, automated)
    \/ FindSource \/ FindSourceFails \/ Copy \/ CopyFails \/ Describe \/ DescribeFails
    \/ Note \/ NoteFails \/ Retain \/ RetainFails \/ Retained \/ Record
    \/ \E r \in Retentions \cup {-1} : UpdateSettings(r)
    \/ \E a \in archives[active] : Delete(a) \/ Restore(a)
    \/ Undescribe \/ Renote
    \/ Start \/ Exit \/ CreateWorld \/ Tick \/ Crash
    \/ \E p \in Profiles : Switch(p)

Spec == Init /\ [][Next]_vars

-----------------------------------------------------------------------------
\* TECHNICAL-NOTES.md:161: a profile's checkpoints, and the saves restored from them, hold
\* its own worlds, whatever is switched, started and stopped meanwhile. The exception is a
\* clean-stop checkpoint without the gate whose child dies before the save was copied.
BoundToProfile ==
    ~strayed => \A p \in Profiles :
        /\ saves[p] \subseteq {p}
        /\ \A a \in archives[p] : a.owner = p

\* LastCheckpointAt tells of the newest archive that is left, so that a deletion neither
\* suppresses the next automatic checkpoint nor lets it come too early; only a failed
\* write or a crash makes it differ, until the next creation or deletion.
LastIsNewest ==
    Idle => \A p \in Profiles \ unnoted : state[p].last = LatestIn(archives[p])

\* Automatic checkpoints of a profile lie a cooldown apart, across deletions, switches,
\* restarts and failures; a checkpoint that state.json never mentioned does not count.
Spaced ==
    \A p \in Profiles : \A a, b \in archives[p] :
        a.automated /\ b.automated /\ a.noted /\ b.noted /\ a.at < b.at
            => b.at - a.at >= Cooldown

\* The error of a failed checkpoint stays visible until another one is made.
GapExposed == \A p \in failed : state[p].error

\* What state.json tells of a profile can be relied on: the error, the time of the last
\* checkpoint, and so the cooldown that looks at nothing else (checkpoints.go:175, 245).
StateSound == LastIsNewest /\ Spaced /\ GapExposed

\* TECHNICAL-NOTES.md:156: nothing but a deletion removes a checkpoint that was reported,
\* unless as many newer ones as the retention asks for are there after the removal.
RetentionKeepsNewest ==
    [][\A p \in Profiles : \A a \in archives[p] :
          LET left == archives'[p] IN
          a.noted /\ a \notin left /\ ~Idle =>
              /\ state[p].retention > 0
              /\ Cardinality(Newer(left, a)) >= state[p].retention]_vars
=============================================================================
