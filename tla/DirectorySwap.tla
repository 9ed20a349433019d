---------------------------- MODULE DirectorySwap ----------------------------
(***************************************************************************)
(* directoryEntrySwap: the contents of a directory are replaced without    *)
(* renaming the directory, which may be a mount point.  The new entries    *)
(* are staged below it; activate moves the old ones to a backup directory, *)
(* one rename each, and then the staged ones in; rollback goes the other   *)
(* way.  Any rename may fail.  Profile switches, mod packs, pack merges,   *)
(* save-mod imports and the deletion of all mods are such swaps.           *)
(***************************************************************************)
CONSTANTS
    Directories,  \* the active directories: saves, mods, config
    Names,        \* names of their top-level entries
    Contents      \* what an entry may hold

\* A leftover lies in a staging or backup directory that an earlier swap left
\* behind; the names of these directories are unique.
File == [name: Names, content: Contents, leftover: BOOLEAN]

SameName(f, g) == IF f.leftover \/ g.leftover THEN f = g ELSE f.name = g.name
Distinct(S) == \A f, g \in S : SameName(f, g) => f = g
Leftover(S) == {[f EXCEPT !.leftover = TRUE] : f \in S}

VARIABLES
    destination, staging, backup, \* the entries of the three directories
    backedUp, activated,          \* the entries moved so far, yet to be undone by a rollback
    preserveRecovery,             \* a rename of the rollback failed
    phase,                        \* what activate, rollback, commit or cleanup is at
    previous, replacement         \* history: destination before the swap, what was staged

swapVars == <<destination, staging, backup, backedUp, activated, preserveRecovery,
              phase, previous, replacement>>

Undoable == {"staged", "backingUp", "placing", "active", "unplacing", "restoring",
             "rolledBack"}
Phases == Undoable \cup {"none", "committed"}

EntrySets == [Directories -> SUBSET File]

TypeOK ==
    /\ destination \in EntrySets /\ staging \in EntrySets /\ backup \in EntrySets
    /\ backedUp \in EntrySets /\ activated \in EntrySets
    /\ previous \in EntrySets /\ replacement \in EntrySets
    /\ preserveRecovery \in [Directories -> BOOLEAN]
    /\ phase \in [Directories -> Phases]

NoEntries == [d \in Directories |-> {}]

InitWith(initially) ==
    /\ destination = initially /\ staging = NoEntries /\ backup = NoEntries
    /\ backedUp = NoEntries /\ activated = NoEntries
    /\ previous = initially /\ replacement = NoEntries
    /\ preserveRecovery = [d \in Directories |-> FALSE]
    /\ phase = [d \in Directories |-> "none"]

-----------------------------------------------------------------------------
entries == <<destination, staging, backup, backedUp, activated>>
history == <<previous, replacement>>

Goes(d, from, to) == phase[d] = from /\ phase' = [phase EXCEPT ![d] = to]
Turns(d, from, to) == Goes(d, from, to) /\ UNCHANGED <<entries, preserveRecovery, history>>
Keeps(d, at) == phase[d] = at /\ UNCHANGED <<phase, history>>

\* os.Rename: an entry of that name is replaced.
Put(S, f) == {g \in S : ~SameName(f, g)} \cup {f}
Take(from, d, f) == [from EXCEPT ![d] = @ \ {f}]
Give(to, d, f) == [to EXCEPT ![d] = Put(@, f)]
Note(list, d, f) == [list EXCEPT ![d] = @ \cup {f}]
Failed(d) == preserveRecovery' = [preserveRecovery EXCEPT ![d] = TRUE]

\* newDirectoryEntrySwap, and the copy of the new entries into the staging directory.
Prepare(d, new) ==
    /\ Goes(d, "none", "staged")
    /\ staging' = [staging EXCEPT ![d] = new]
    /\ replacement' = [replacement EXCEPT ![d] = new]
    /\ previous' = [previous EXCEPT ![d] = destination[d]]
    /\ preserveRecovery' = [preserveRecovery EXCEPT ![d] = FALSE]
    /\ UNCHANGED <<destination, backup, backedUp, activated>>

Activate(d) == Turns(d, "staged", "backingUp")

\* moveProfileEntries(destination, backup)
\* Mutant of BackUp: the old entry is removed.
BackUpByRemoval(d, f) ==
    /\ Keeps(d, "backingUp")
    /\ destination' = Take(destination, d, f)
    /\ backedUp' = Note(backedUp, d, f)
    /\ UNCHANGED <<staging, backup, activated, preserveRecovery>>

BackUp(d, f) ==
    /\ Keeps(d, "backingUp")
    /\ destination' = Take(destination, d, f)
    /\ backup' = Give(backup, d, f)
    /\ backedUp' = Note(backedUp, d, f)
    /\ UNCHANGED <<staging, activated, preserveRecovery>>

BackedUp(d) == destination[d] = {} /\ Turns(d, "backingUp", "placing")

\* moveProfileEntries(staging, destination)
Place(d, f) ==
    /\ Keeps(d, "placing")
    /\ staging' = Take(staging, d, f)
    /\ destination' = Give(destination, d, f)
    /\ activated' = Note(activated, d, f)
    /\ UNCHANGED <<backup, backedUp, preserveRecovery>>

Placed(d) == staging[d] = {} /\ Turns(d, "placing", "active")

\* A directory cannot be read or a rename fails, and activate undoes what it did.
BackUpFails(d) ==
    (destination[d] # {} \/ backedUp[d] = {}) /\ Turns(d, "backingUp", "restoring")
PlaceFails(d) ==
    (staging[d] # {} \/ activated[d] = {}) /\ Turns(d, "placing", "unplacing")

\* Mutant of Rollback: the replacement is not taken out first.
RollbackOver(d) == Turns(d, "active", "restoring")

Rollback(d) == Turns(d, "active", "unplacing")

\* restoreProfileEntries(destination, staging, activated): each entry is tried once.
Unplace(d, f) ==
    /\ Keeps(d, "unplacing") /\ f \in destination[d]
    /\ destination' = Take(destination, d, f)
    /\ staging' = Give(staging, d, f)
    /\ activated' = Take(activated, d, f)
    /\ UNCHANGED <<backup, backedUp, preserveRecovery>>

UnplaceFails(d, f) ==
    /\ Keeps(d, "unplacing") /\ Failed(d)
    /\ activated' = Take(activated, d, f)
    /\ UNCHANGED <<destination, staging, backup, backedUp>>

Unplaced(d) == activated[d] = {} /\ Turns(d, "unplacing", "restoring")

\* restoreProfileEntries(backup, destination, backedUp)
Restore(d, f) ==
    /\ Keeps(d, "restoring") /\ f \in backup[d]
    /\ backup' = Take(backup, d, f)
    /\ destination' = Give(destination, d, f)
    /\ backedUp' = Take(backedUp, d, f)
    /\ UNCHANGED <<staging, activated, preserveRecovery>>

RestoreFails(d, f) ==
    /\ Keeps(d, "restoring") /\ Failed(d)
    /\ backedUp' = Take(backedUp, d, f)
    /\ UNCHANGED <<destination, staging, backup, activated>>

Restored(d) == backedUp[d] = {} /\ Turns(d, "restoring", "rolledBack")

Commit(d) == Turns(d, "active", "committed")

\* cleanup leaves nothing of the backup, unless recovery data is preserved or
\* os.RemoveAll fails.  (What is left of the staging directory is a copy.)
Cleanup(d, left) ==
    /\ phase[d] \in {"staged", "rolledBack", "committed"}
    /\ preserveRecovery[d] => left = backup[d]
    /\ phase' = [phase EXCEPT ![d] = "none"]
    /\ destination' = [destination EXCEPT ![d] = @ \cup Leftover(left)]
    /\ staging' = [staging EXCEPT ![d] = {}]
    /\ backup' = [backup EXCEPT ![d] = {}]
    /\ backedUp' = [backedUp EXCEPT ![d] = {}]
    /\ activated' = [activated EXCEPT ![d] = {}]
    /\ UNCHANGED <<preserveRecovery, history>>

\* The manager dies: the temporary directories stay, but nobody knows of them.
Abandon ==
    /\ phase' = [d \in Directories |-> "none"]
    /\ destination' = [d \in Directories |-> destination[d] \cup Leftover(backup[d])]
    /\ staging' = NoEntries /\ backup' = NoEntries
    /\ backedUp' = NoEntries /\ activated' = NoEntries
    /\ preserveRecovery' = [d \in Directories |-> FALSE]
    /\ UNCHANGED history

\* Where no swap is under way the server, an upload or the user may change the entries.
Edit(new) ==
    /\ destination' = new
    /\ \A d \in Directories : phase[d] # "none" => new[d] = destination[d]
    /\ UNCHANGED <<staging, backup, backedUp, activated, preserveRecovery, phase, history>>

-----------------------------------------------------------------------------
Advance(d) ==
    \/ \E f \in destination[d] : BackUp(d, f)
    \/ \E f \in staging[d] : Place(d, f)
    \/ \E f \in activated[d] : Unplace(d, f)
    \/ \E f \in backedUp[d] : Restore(d, f)
    \/ BackedUp(d) \/ Placed(d) \/ Unplaced(d) \/ Restored(d)

Stumble(d) ==
    \/ BackUpFails(d) \/ PlaceFails(d)
    \/ \E f \in activated[d] : UnplaceFails(d, f)
    \/ \E f \in backedUp[d] : RestoreFails(d, f)

Setups == {setup \in EntrySets : \A d \in Directories : Distinct(setup[d])}

SwapInit == \E initially \in Setups : InitWith(initially)

SwapStep(d) ==
    \/ \E new \in SUBSET File : Distinct(new) /\ Prepare(d, new)
    \/ Activate(d) \/ Rollback(d) \/ Commit(d) \/ Advance(d) \/ Stumble(d)
    \/ \E left \in SUBSET backup[d] : Cleanup(d, left)

SwapNext ==
    \/ Abandon
    \/ \E new \in Setups : Edit(new)
    \/ \E d \in Directories : SwapStep(d)

SwapSpec == SwapInit /\ [][SwapNext]_swapVars

-----------------------------------------------------------------------------
\* Until a swap is committed every old entry is in the directory or in its backup,
\* whatever renames failed.
NothingLost == \A d \in Directories :
    phase[d] \in Undoable => previous[d] \subseteq destination[d] \cup backup[d]

\* A swap that reports no failed rollback left the directory as it found it; an active
\* one shows the replacement and nothing else.
AllOrNothing == \A d \in Directories :
    /\ phase[d] = "rolledBack" /\ ~preserveRecovery[d] => destination[d] = previous[d]
    /\ phase[d] \in {"active", "committed"} => destination[d] = replacement[d]
=============================================================================
