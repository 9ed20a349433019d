------------------------- MODULE ProfileStoreProofs -------------------------
(***************************************************************************)
(* Proofs about ProfileStore for any profiles, files, directories and      *)
(* releases, and any number of operations, failures and crashes: it only   *)
(* swaps directories the way DirectorySwap does, a manager at rest serves  *)
(* the active profile, and every profile stays as its user last saw it.    *)
(***************************************************************************)
EXTENDS ProfileStore, DirectorySwapProofs

\* What the library stores can be staged.
Fits(data) == \A p \in DOMAIN data : data[p] \in Setups

\* The profile an operation is about is known, and stored until it has been staged.
Targeted ==
    /\ Active \in Known
    /\ pc \notin {"idle", "down", "createSave"} => target \in Known
    /\ pc = "deleteSave" => target # Active
    /\ pc = "snapshot" => Active \in DOMAIN stored
    /\ pc \in {"snapshot", "place", "discard", "stage"} => target # Active /\ target \in DOMAIN stored

\* The settings of the target are loaded from the reload until the switch is committed
\* or rolled back.
Served ==
    /\ pc \in {"persist", "save"} => server = target
    /\ pc \notin {"persist", "save", "rollback", "undoRelease", "undoReload", "down"}
          => server = Active \/ "server" \in damage

StoreInv == SwapInv /\ Fits(stored) /\ Fits(moved) /\ Targeted /\ Served

-----------------------------------------------------------------------------
(* Files and data directories.                                             *)

\* The setups profiles have at first can be staged.
LEMMA FirstSetupFits ==
    ASSUME NEW p \in DOMAIN FirstFiles PROVE FirstSetup(p) \in Setups
<1>0. FirstFiles[p] \in [Directories -> SUBSET Names]
  BY StoreConstants
<1>1. \A d \in Directories : FirstFiles[p][d] \subseteq Names
  BY <1>0
<1>2. <<p, 0>> \in Contents
  BY StoreConstants
<1>3. ASSUME NEW d \in Directories
      PROVE  /\ FirstSetup(p)[d] \in SUBSET File
             /\ Distinct(FirstSetup(p)[d])
  <2>1. FirstSetup(p)[d] =
           {[name |-> n, content |-> <<p, 0>>, leftover |-> FALSE] : n \in FirstFiles[p][d]}
    BY DEF FirstSetup
  <2>2. ASSUME NEW f \in FirstSetup(p)[d]
        PROVE  \E n \in Names : f = [name |-> n, content |-> <<p, 0>>, leftover |-> FALSE]
    BY <1>1, <2>1
  <2>3. ASSUME NEW n \in Names
        PROVE  [name |-> n, content |-> <<p, 0>>, leftover |-> FALSE] \in File
    BY <1>2 DEF File
  <2>4. FirstSetup(p)[d] \subseteq File
    BY <2>2, <2>3
  <2>5. \A f \in FirstSetup(p)[d] :
           /\ ~f.leftover
           /\ f = [name |-> f.name, content |-> <<p, 0>>, leftover |-> FALSE]
    BY <2>2
  <2>6. \A f, g \in FirstSetup(p)[d] : f.name = g.name => f = g
    BY <2>5
  <2> QED
    BY <2>4, <2>5, <2>6 DEF Distinct, SameName
<1>4. FirstSetup(p) = [d \in Directories |-> FirstSetup(p)[d]]
  BY DEF FirstSetup
<1> QED
  BY <1>3, <1>4 DEF Setups, EntrySets

\* Playing changes what a file holds and leaves its name.
LEMMA ChangedKeepsName ==
    ASSUME NEW f \in File, f.content[2] < MaxPlays
    PROVE  Changed(f) \in File /\ Changed(f).name = f.name /\ Changed(f).leftover = f.leftover
<1>1. /\ f = [name |-> f.name, content |-> f.content, leftover |-> f.leftover]
      /\ f.name \in Names /\ f.content \in Contents /\ f.leftover \in BOOLEAN
  BY DEF File
<1>2. PICK p \in Profiles, n \in 0..MaxPlays : f.content = <<p, n>>
  BY <1>1, StoreConstants
<1>3. n + 1 \in 0..MaxPlays
  BY <1>2, StoreConstants
<1>4. <<p, n + 1>> \in Contents
  BY <1>3, StoreConstants
<1>5. Changed(f) = [name |-> f.name, content |-> <<p, n + 1>>, leftover |-> f.leftover]
  BY <1>1, <1>2 DEF Changed
<1> QED
  BY <1>1, <1>4, <1>5 DEF File

LEMMA WithFits ==
    ASSUME NEW data, Fits(data), NEW p, NEW setup \in Setups
    PROVE  Fits(With(data, p, setup)) /\ Fits(Only(p, setup))
BY DEF Fits, With, Merge, Only

LEMMA WithoutFits ==
    ASSUME NEW data, Fits(data), NEW p PROVE Fits(Without(data, p))
BY DEF Fits, Without

LEMMA MergeFits ==
    ASSUME NEW data, Fits(data), NEW more, Fits(more) PROVE Fits(Merge(more, data))
BY DEF Fits, Merge

LEMMA NothingFits == Fits(Nothing)
BY DEF Fits, Nothing

-----------------------------------------------------------------------------
(* Every step is one of DirectorySwap, or none of the directories' business. *)

LEMMA StoreIsSwap == ASSUME StoreInv, [Next]_vars PROVE [SwapNext]_swapVars
<1>1. CASE Play
  <2> DEFINE new == [d \in Directories |->
                        {IF f.leftover THEN f ELSE Changed(f) : f \in destination[d]}]
  <2>1. Edit(new) /\ \A d \in Directories : \A f \in destination[d] : f.content[2] < MaxPlays
    BY <1>1 DEF Play
  <2>2. ASSUME NEW d \in Directories
        PROVE  destination[d] \in SUBSET File /\ Distinct(destination[d])
    BY DEF StoreInv, SwapInv, TypeOK, EntrySets, NoDuplicates
  <2>3. ASSUME NEW d \in Directories PROVE new[d] \in SUBSET File /\ Distinct(new[d])
    <3>1. \A f \in destination[d] : f.leftover \/ /\ Changed(f) \in File
                                                  /\ Changed(f).name = f.name
                                                  /\ Changed(f).leftover = f.leftover
      BY <2>1, <2>2, ChangedKeepsName
    <3> QED
      BY <2>2, <3>1 DEF Distinct, SameName
  <2>4. new \in Setups
    BY <2>3 DEF Setups, EntrySets
  <2> QED
    BY <2>1, <2>4 DEF SwapNext
<1>2. ASSUME NEW d \in Directories, StageSwap(d) PROVE SwapNext
  <2>1. Prepare(d, stored[target][d]) /\ stored[target] \in Setups
    BY <1>2 DEF StageSwap, Step, StoreInv, Targeted, Fits
  <2>2. stored[target][d] \in SUBSET File /\ Distinct(stored[target][d])
    BY <2>1 DEF Setups, EntrySets
  <2> QED
    BY <2>1, <2>2 DEF SwapNext, SwapStep
<1>3. ASSUME NEW d \in Directories, ActivateSwap(d) \/ CommitSwap(d) \/ RollbackSwap(d)
      PROVE  SwapNext
  BY <1>3 DEF ActivateSwap, CommitSwap, RollbackSwap, SwapNext, SwapStep
<1>4. ASSUME NEW d \in Directories, CleanUpSwap(d) PROVE SwapNext
  BY <1>4 DEF CleanUpSwap, SwapNext, SwapStep
<1>5. CASE Crash
  BY <1>5 DEF Crash, SwapNext
<1>6. ASSUME NEW p \in Profiles,
             \/ BeginSwitch(p) \/ Delete(p)
             \/ \E source \in {"clone", "empty"} : Create(p, source)
      PROVE  UNCHANGED swapVars
  BY <1>6 DEF BeginSwitch, Delete, Create
<1>7. CASE CreateSave \/ CreateSaveFails \/ DeleteSave \/ DeleteSaveFails
  BY <1>7 DEF CreateSave, CreateSaveFails, DeleteSave, DeleteSaveFails
<1>8. CASE \/ SnapshotFails \/ SnapshotAside \/ SnapshotPlace \/ SnapshotPlaceFails
           \/ SnapshotDiscard \/ SnapshotDiscardFails
  BY <1>8 DEF SnapshotFails, SnapshotAside, SnapshotPlace, SnapshotPlaceFails,
              SnapshotDiscard, SnapshotDiscardFails
<1>9. CASE \/ StageFails \/ Staged \/ InstallTarget \/ Activated \/ SetBuiltIns
           \/ ReloadTarget \/ PersistTarget \/ SaveManifest \/ SaveManifestFails
           \/ RolledBack \/ UndoRelease \/ UndoReload \/ Finish \/ Restart
  BY <1>9 DEF StageFails, Staged, InstallTarget, Activated, SetBuiltIns, ReloadTarget,
              PersistTarget, SaveManifest, SaveManifestFails, RolledBack, UndoRelease,
              UndoReload, Finish, Restart
<1>10. CASE UNCHANGED vars
  BY <1>10 DEF vars
<1> QED
  BY <1>1, <1>2, <1>3, <1>4, <1>5, <1>6, <1>7, <1>8, <1>9, <1>10 DEF Next

\* Only the manifest, the stored setups, the step and the loaded settings matter below.
Rests == Fits(stored) /\ Fits(moved) /\ Targeted /\ Served

LEMMA OperationsBegin ==
    ASSUME StoreInv, NEW p \in Profiles,
           \/ BeginSwitch(p) \/ Delete(p)
           \/ \E source \in {"clone", "empty"} : Create(p, source)
    PROVE  Rests'
<1>1. Rests /\ pc = "idle" /\ pc' \in {"snapshot", "deleteSave", "createSave"} /\ target' = p
  BY DEF StoreInv, Rests, BeginSwitch, Delete, Create, Begin
<1>2. /\ Known \subseteq DOMAIN stored
      /\ UNCHANGED <<manifest, server, damage>>
  BY DEF BeginSwitch, Delete, Create, Begin, Loadable, libraryVars
<1>3. Served'
  BY <1>1, <1>2 DEF Rests, Served, Active
<1>4. CASE BeginSwitch(p)
  <2>1. /\ UNCHANGED <<stored, moved>> /\ pc' = "snapshot" /\ p \in Known \ {Active}
    BY <1>4 DEF BeginSwitch, Begin, libraryVars
  <2> QED
    BY <1>1, <1>2, <1>3, <2>1 DEF Rests, Fits, Targeted, Active, Known
<1>5. CASE Delete(p)
  <2>1. /\ moved' = Only(p, stored[p]) /\ stored' = Without(stored, p)
        /\ pc' = "deleteSave" /\ p \in Known \ {Active}
    BY <1>5 DEF Delete, Begin
  <2>2. stored[p] \in Setups
    BY <1>1, <1>2, <2>1 DEF Rests, Fits
  <2>3. Fits(stored') /\ Fits(moved')
    BY <1>1, <2>1, <2>2, WithFits, WithoutFits DEF Rests
  <2> QED
    BY <1>1, <1>2, <1>3, <2>1, <2>3 DEF Rests, Fits, Targeted, Active, Known
<1>6. ASSUME NEW source \in {"clone", "empty"}, Create(p, source) PROVE Rests'
  <2> DEFINE new == [d \in Directories |->
                        IF source = "clone" \/ d = "config" THEN destination[d] ELSE {}]
  <2>1. /\ stored' = With(stored, p, new) /\ UNCHANGED moved /\ pc' = "createSave"
    BY <1>6 DEF Create, Begin
  <2>2. new \in Setups
    BY DEF StoreInv, SwapInv, TypeOK, EntrySets, NoDuplicates, Setups, Distinct
  <2>3. Fits(stored') /\ Fits(moved')
    BY <1>1, <2>1, <2>2, WithFits DEF Rests
  <2> QED
    BY <1>1, <1>2, <1>3, <2>1, <2>3 DEF Rests, Fits, Targeted, Active, Known
<1> QED
  BY <1>4, <1>5, <1>6

\* CreateProfile and DeleteProfile commit or undo.
LEMMA LibraryKeepsInv ==
    ASSUME StoreInv, CreateSave \/ CreateSaveFails \/ DeleteSave \/ DeleteSaveFails
    PROVE  Rests'
<1>1. Rests /\ pc \in {"createSave", "deleteSave"} /\ pc' = "idle" /\ UNCHANGED <<server, target>>
  BY DEF StoreInv, Rests, CreateSave, CreateSaveFails, DeleteSave, DeleteSaveFails, Step, Goto
<1>2. Active' \in Known' /\ UNCHANGED Active
  BY <1>1 DEF Rests, Targeted, CreateSave, CreateSaveFails, DeleteSave, DeleteSaveFails, Step,
              Known, Active, With, Merge, Only, Without
<1>3. damage \subseteq damage'
  BY DEF CreateSave, CreateSaveFails, DeleteSave, DeleteSaveFails, PutBack, LeaveAside, Harmed
<1>4. Fits(stored') /\ Fits(moved')
  BY <1>1, WithoutFits, MergeFits, NothingFits
     DEF Rests, CreateSave, CreateSaveFails, DeleteSave, DeleteSaveFails, PutBack, LeaveAside
<1> QED
  BY <1>1, <1>2, <1>3, <1>4 DEF Rests, Fits, Targeted, Served

LEMMA SnapshotKeepsInv ==
    ASSUME StoreInv,
           \/ SnapshotFails \/ SnapshotAside \/ SnapshotPlace \/ SnapshotPlaceFails
           \/ SnapshotDiscard \/ SnapshotDiscardFails
    PROVE  Rests'
<1> USE DEF SnapshotFails, SnapshotAside, SnapshotPlace, SnapshotPlaceFails, SnapshotDiscard,
            SnapshotDiscardFails, Step, Goto
<1>1. /\ Rests /\ pc \in {"snapshot", "place", "discard"}
      /\ pc' \in {"idle", "place", "discard", "stage"}
      /\ UNCHANGED <<manifest, server, target>> /\ damage \subseteq damage'
  BY DEF StoreInv, Rests, PutBack, LeaveAside, Harmed, libraryVars
<1>2. Fits(stored') /\ Fits(moved')
  <2>1. destination \in Setups
    BY DEF StoreInv, SwapInv, TypeOK, NoDuplicates, Setups
  <2>2. pc = "snapshot" => stored[Active] \in Setups
    BY <1>1 DEF Rests, Targeted, Fits
  <2> QED
    BY <1>1, <2>1, <2>2, WithFits, WithoutFits, MergeFits, NothingFits
       DEF Rests, PutBack, LeaveAside, libraryVars
<1>3. pc' # "idle" => target \in DOMAIN stored'
  BY <1>1 DEF Rests, Targeted, Without, With, Merge, Only
<1> QED
  BY <1>1, <1>2, <1>3 DEF Rests, Fits, Targeted, Served, Active, Known

\* The rest of a switch leaves the library alone until it saves the manifest.
LEMMA SwitchKeepsInv ==
    ASSUME StoreInv,
           \/ StageFails \/ Staged \/ InstallTarget \/ Activated \/ SetBuiltIns
           \/ ReloadTarget \/ PersistTarget \/ SaveManifestFails
           \/ RolledBack \/ UndoRelease \/ UndoReload \/ Finish
    PROVE  Rests'
<1> USE DEF Step, Goto, restVars, libraryVars, Harmed
<1>1. /\ Rests /\ UNCHANGED <<manifest, stored, moved, target>> /\ damage \subseteq damage'
      /\ pc \notin {"idle", "down", "createSave", "deleteSave"}
      /\ pc' \notin {"down", "createSave", "deleteSave", "snapshot", "place", "discard"}
      /\ pc' = "stage" => pc = "stage"
  BY DEF StoreInv, Rests, StageFails, Staged, InstallTarget, Activated, SetBuiltIns,
         ReloadTarget, PersistTarget, SaveManifestFails, RolledBack, UndoRelease, UndoReload,
         Finish
<1>2. Served'
  BY <1>1 DEF Rests, Served, Active, StageFails, Staged, InstallTarget, Activated, SetBuiltIns,
         ReloadTarget, PersistTarget, SaveManifestFails, RolledBack, UndoRelease, UndoReload,
         Finish
<1> QED
  BY <1>1, <1>2 DEF Rests, Fits, Targeted, Active, Known

LEMMA CommitKeepsInv == ASSUME StoreInv, SaveManifest PROVE Rests'
<1>1. /\ Rests /\ pc = "save" /\ pc' = "commit" /\ UNCHANGED <<stored, moved, target, server>>
      /\ Active' = target /\ Known' = Known
  BY DEF StoreInv, Rests, SaveManifest, Step, Goto, Active, Known
<1> QED
  BY <1>1 DEF Rests, Fits, Targeted, Served

\* The steps on the directories.
LEMMA SwapsKeepInv ==
    ASSUME StoreInv, NEW d \in Directories,
           StageSwap(d) \/ ActivateSwap(d) \/ CommitSwap(d) \/ RollbackSwap(d) \/ CleanUpSwap(d)
    PROVE  Rests'
<1>1. Rests /\ UNCHANGED <<manifest, stored, moved, pc, target, server>> /\ damage \subseteq damage'
  BY DEF StoreInv, Rests, StageSwap, ActivateSwap, CommitSwap, RollbackSwap, CleanUpSwap, Step,
         Goto, restVars, libraryVars, operationVars, Harmed
<1> QED
  BY <1>1 DEF Rests, Fits, Targeted, Served, Active, Known

LEMMA RestKeepsInv ==
    ASSUME StoreInv, Play \/ Crash \/ Restart \/ UNCHANGED vars PROVE Rests'
<1>1. CASE Play \/ UNCHANGED vars
  <2>1. Rests /\ UNCHANGED <<manifest, stored, moved, pc, target, server, damage>>
    BY <1>1 DEF StoreInv, Rests, Play, vars, libraryVars, operationVars
  <2> QED
    BY <2>1 DEF Rests, Fits, Targeted, Served, Active, Known
<1>2. CASE Crash
  <2>1. Rests /\ pc' = "down" /\ UNCHANGED <<manifest, stored>> /\ moved' = Nothing
    BY <1>2 DEF StoreInv, Rests, Crash, Goto
  <2> QED
    BY <2>1, NothingFits DEF Rests, Fits, Targeted, Served, Active, Known
<1>3. CASE Restart
  <2>1. /\ Rests /\ pc' = "idle" /\ UNCHANGED <<manifest, stored, moved>> /\ server' = Active
    BY <1>3 DEF StoreInv, Rests, Restart, Step, Goto, libraryVars
  <2> QED
    BY <2>1 DEF Rests, Fits, Targeted, Served, Active, Known
<1> QED
  BY <1>1, <1>2, <1>3

-----------------------------------------------------------------------------
LEMMA StoreInit == Init => SwapInit /\ StoreInv
<1> SUFFICES ASSUME Init PROVE SwapInit /\ StoreInv
  OBVIOUS
<1>1. FirstActive \in DOMAIN FirstFiles /\ DOMAIN FirstVersion = DOMAIN FirstFiles
  BY StoreConstants
<1>2. SwapInit
  BY <1>1, FirstSetupFits DEF Init, SwapInit
<1>3. Fits(stored) /\ Fits(moved)
  BY FirstSetupFits, NothingFits DEF Init, Fits
<1>4. Targeted /\ Served
  BY <1>1 DEF Init, Targeted, Served, Active, Known
<1> QED
  BY <1>2, <1>3, <1>4, SwapInvInit DEF StoreInv

LEMMA StoreStep == StoreInv /\ [Next]_vars => [SwapNext]_swapVars /\ StoreInv'
<1> SUFFICES ASSUME StoreInv, [Next]_vars PROVE [SwapNext]_swapVars /\ StoreInv'
  OBVIOUS
<1>1. [SwapNext]_swapVars
  BY StoreIsSwap
<1>2. SwapInv'
  BY <1>1, SwapInvStep DEF StoreInv
<1>3. Rests'
  BY OperationsBegin, LibraryKeepsInv, SnapshotKeepsInv, SwitchKeepsInv, CommitKeepsInv,
     SwapsKeepInv, RestKeepsInv DEF Next
<1> QED
  BY <1>1, <1>2, <1>3 DEF StoreInv, Rests

\* ProfileStore implements DirectorySwap: whatever fails or crashes, and however often the
\* profiles are switched, the directories change by swaps and by nothing else.
THEOREM StoreSwaps == Spec => SwapSpec
BY StoreInit, StoreStep, PTL DEF Spec, SwapSpec

\* NothingLost: no rename that fails in a switch or in its rollback costs an old entry.
THEOREM StoreLosesNothing == Spec => []NothingLost
BY StoreSwaps, SwapLosesNothing, PTL

\* AllOrNothing: each directory of a switch shows all of the target or, unless a rename
\* of the rollback failed, all of the old profile.
THEOREM StoreAllOrNothing == Spec => []AllOrNothing
BY StoreSwaps, SwapAllOrNothing, PTL

\* ServesActive: unless the reload of a rollback failed, a manager at rest has loaded the
\* settings of the profile its manifest names.
THEOREM StoreServesActive == Spec => []ServesActive
<1>1. StoreInv => ServesActive
  BY DEF StoreInv, Served, ServesActive
<1> QED
  BY <1>1, StoreInit, StoreStep, PTL DEF Spec

-----------------------------------------------------------------------------
(* Every profile is as its user last saw it.                               *)

\* The files of a directory without the mark of a leftover, and those a user sees.
Bare(f) == [f EXCEPT !.leftover = FALSE]
Files(S) == {Bare(f) : f \in S}
Shown(S) == {f \in S : ~f.leftover}

\* The directory S has all files its user last saw, and shows these unless harm was done.
Preserves(S, seen, harm) == seen \subseteq Files(S) /\ ("files" \notin harm => Shown(S) = seen)
KeptIn(S, p, d) == Preserves(S, latest[p].files[d], damage)
AllKeptIn(setup, p) == \A d \in Directories : KeptIn(setup[d], p, d)

LatestTyped == latest \in [Known -> [files : EntrySets, version : Versions]]

\* The phases of the swaps at each step of an operation.
PhasesAt ==
    /\ pc \in {"activate", "rollback"} => AllIn(Directories, Undoable)
    /\ pc = "stage" => AllIn(Directories, {"none", "staged"})
    /\ pc = "install" => AllIn(Directories, {"staged"})
    /\ pc \in {"builtIns", "reload", "persist", "save"} => AllIn(Directories, {"active"})
    /\ pc \in {"undoRelease", "undoReload"} => AllIn(Directories, {"staged", "rolledBack"})
    /\ pc = "cleanup" => AllIn(Directories, {"none", "staged", "rolledBack"})
    /\ pc = "commit" => AllIn(Directories, {"none", "active", "committed"})
    /\ pc \in {"idle", "down", "createSave", "deleteSave", "snapshot", "place", "discard"}
          => AllIn(Directories, {"none"})

\* A directory whose swap is over holds the active profile; the others have it aside, and
\* are given the target.
InDirectories ==
    /\ \A d \in Directories :
          /\ phase[d] = "none" => KeptIn(destination[d], Active, d)
          /\ phase[d] # "none" /\ pc # "commit" => KeptIn(previous[d], Active, d)
          /\ phase[d] # "none" => KeptIn(replacement[d], target, d)
          /\ preserveRecovery[d] => "files" \in damage
    /\ pc = "commit" => Active = target

Snapshotted == {"discard", "stage", "install", "activate", "builtIns", "reload", "persist", "save"}

\* The other profiles are in the library, on their way out of it, or where a crash or a
\* failed rename has left them.  So is the active one from its snapshot on.
InLibrary ==
    /\ \A p \in Known \ {Active} :
          IF p \in DOMAIN stored THEN AllKeptIn(stored[p], p)
          ELSE \/ pc = "deleteSave" /\ p = target
               \/ /\ "files" \in damage
                  /\ \A d \in Directories : latest[p].files[d] \subseteq Files(litter)
    /\ pc \in Snapshotted => Active \in DOMAIN stored /\ AllKeptIn(stored[Active], Active)
    /\ Active \in DOMAIN stored \/ pc = "place" \/ "files" \in damage
    /\ pc = "createSave" => target \in DOMAIN stored \ Known
    /\ pc = "deleteSave" => target \in DOMAIN moved /\ AllKeptIn(moved[target], target)
    /\ pc = "place" => Active \in DOMAIN moved
    /\ DOMAIN moved \subseteq IF pc = "deleteSave" THEN {target}
                              ELSE IF pc \in {"place", "discard"} THEN {Active} ELSE {}

KeptInv == LatestTyped /\ PhasesAt /\ InDirectories /\ InLibrary

\* Leftovers are files of the disk that nobody sees.
LEMMA FilesAre ==
    ASSUME NEW S \in SUBSET File, NEW T \in SUBSET File
    PROVE  /\ Shown(S) \subseteq Files(S) /\ (S \subseteq T => Files(S) \subseteq Files(T))
           /\ Files(S \cup Leftover(T)) = Files(S) \cup Files(T)
           /\ Shown(S \cup Leftover(T)) = Shown(S)
<1> DEFINE Marked(f) == [f EXCEPT !.leftover = TRUE]
<1>1. \A f \in File : /\ ~f.leftover => Bare(f) = f
                      /\ Marked(f).leftover /\ Bare(Marked(f)) = Bare(f)
  BY DEF File, Bare
<1>2. Leftover(T) = {Marked(f) : f \in T}
  BY DEF Leftover
<1> HIDE DEF Marked
<1>3. Shown(S) \subseteq Files(S) /\ (S \subseteq T => Files(S) \subseteq Files(T))
  BY <1>1 DEF Shown, Files
<1>4. Files(Leftover(T)) = Files(T)
  BY <1>1, <1>2 DEF Files
<1>5. Files(S \cup Leftover(T)) = Files(S) \cup Files(Leftover(T))
  BY DEF Files
<1>6. Shown(S \cup Leftover(T)) = Shown(S)
  BY <1>1, <1>2 DEF Shown
<1> QED
  BY <1>3, <1>4, <1>5, <1>6

LEMMA PreservesMore ==
    ASSUME NEW S \in SUBSET File, NEW T \in SUBSET File, NEW seen, NEW harm,
           Preserves(S, seen, harm)
    PROVE  Preserves(S \cup Leftover(T), seen, harm)
BY FilesAre DEF Preserves

LEMMA PreservesShown ==
    ASSUME NEW S \in SUBSET File, NEW harm PROVE Preserves(S, Shown(S), harm)
BY FilesAre DEF Preserves

\* Once files are out of place it only matters that they are there.
LEMMA PreservesHarmed ==
    ASSUME NEW S \in SUBSET File, NEW T \in SUBSET File, NEW R \in SUBSET File, NEW seen,
           NEW harm, Preserves(R, seen, harm), R \subseteq S \cup T, "files" \in damage'
    PROVE  Preserves(S \cup Leftover(T), seen, damage')
<1>1. Files(R) \subseteq Files(S) \cup Files(T)
  BY DEF Files
<1> QED
  BY <1>1, FilesAre DEF Preserves

\* Harm is not mended.
LEMMA PreservesStill ==
    ASSUME "files" \in damage => "files" \in damage'
    PROVE  \A S, seen : Preserves(S, seen, damage) => Preserves(S, seen, damage')
BY DEF Preserves

LEMMA DirectoriesTyped ==
    ASSUME StoreInv
    PROVE  /\ \A d \in Directories :
                 /\ destination[d] \in SUBSET File /\ backup[d] \in SUBSET File
                 /\ previous[d] \in SUBSET File /\ replacement[d] \in SUBSET File
           /\ \A p \in DOMAIN stored : stored[p] \in EntrySets
           /\ \A p \in DOMAIN moved : moved[p] \in EntrySets
BY DEF StoreInv, SwapInv, TypeOK, EntrySets, Fits, Setups

\* Steps that leave the directories and the library alone.
AsideStep ==
    /\ UNCHANGED <<swapVars, libraryVars, latest>>
    /\ "files" \in damage => "files" \in damage'
    /\ pc \notin {"createSave", "deleteSave", "place", "discard"}
    /\ pc' \notin {"commit", "createSave", "deleteSave", "place", "discard"}
    /\ pc' \in Snapshotted => pc \in Snapshotted
    /\ target' = target \/ pc = "idle"
    /\ pc = "commit" => AllIn(Directories, {"none"})

LEMMA AsideKept ==
    ASSUME StoreInv, KeptInv, AsideStep, PhasesAt' PROVE KeptInv'
<1>1. /\ UNCHANGED <<destination, previous, replacement, phase, preserveRecovery>>
      /\ UNCHANGED <<manifest, stored, moved, litter, latest>>
      /\ Active' = Active /\ Known' = Known
  BY DEF AsideStep, swapVars, libraryVars, Active, Known
<1>2. \A S, seen : Preserves(S, seen, damage) => Preserves(S, seen, damage')
  BY PreservesStill DEF AsideStep
<1>3. \A d \in Directories : pc \in {"idle", "commit"} => phase[d] = "none"
  BY DEF KeptInv, PhasesAt, AllIn, AsideStep
<1>4. InDirectories'
  BY <1>1, <1>2, <1>3 DEF KeptInv, InDirectories, KeptIn, AsideStep
<1>5. InLibrary'
  BY <1>1, <1>2 DEF KeptInv, InLibrary, AllKeptIn, KeptIn, AsideStep
<1> QED
  BY <1>1, <1>4, <1>5 DEF KeptInv, LatestTyped

LEMMA AsideKeeps ==
    ASSUME StoreInv, KeptInv,
           \/ \E p \in Profiles : BeginSwitch(p)
           \/ SnapshotFails \/ StageFails \/ Staged \/ InstallTarget \/ Activated
           \/ SetBuiltIns \/ ReloadTarget \/ PersistTarget \/ SaveManifestFails
           \/ RolledBack \/ UndoRelease \/ UndoReload \/ Finish \/ Restart
    PROVE  KeptInv'
<1>1. /\ UNCHANGED <<swapVars, libraryVars, latest>>
      /\ "files" \in damage => "files" \in damage'
      /\ target' = target \/ pc = "idle"
  BY DEF BeginSwitch, Begin, SnapshotFails, StageFails, Staged, InstallTarget, Activated,
         SetBuiltIns, ReloadTarget, PersistTarget, SaveManifestFails, RolledBack, UndoRelease,
         UndoReload, Finish, Restart, Step, Goto, Harmed, restVars, libraryVars
<1>2. \/ pc = "idle" /\ pc' = "snapshot"
      \/ pc \in {"snapshot", "down"} /\ pc' = "idle"
      \/ pc = "stage" /\ pc' = "cleanup"
      \/ pc = "stage" /\ pc' \in {"install", "activate"} /\ AllIn(Directories, {"staged"})
      \/ pc = "install" /\ pc' \in {"activate", "cleanup"}
      \/ pc = "activate" /\ pc' = "builtIns" /\ AllIn(Directories, {"active"})
      \/ pc = "activate" /\ pc' = "rollback"
      \/ pc = "builtIns" /\ pc' \in {"reload", "rollback"}
      \/ pc = "reload" /\ pc' \in {"persist", "rollback"}
      \/ pc = "persist" /\ pc' \in {"save", "rollback"}
      \/ pc = "save" /\ pc' = "rollback"
      \/ pc = "rollback" /\ pc' = "undoRelease" /\ AllIn(Directories, {"staged", "rolledBack"})
      \/ pc = "undoRelease" /\ pc' = "undoReload"
      \/ pc = "undoReload" /\ pc' = "cleanup"
      \/ pc \in {"cleanup", "commit"} /\ pc' = "idle" /\ AllIn(Directories, {"none"})
  BY DEF BeginSwitch, Begin, SnapshotFails, StageFails, Staged, InstallTarget, Activated,
         SetBuiltIns, ReloadTarget, PersistTarget, SaveManifestFails, RolledBack, UndoRelease,
         UndoReload, Finish, Restart, Step, Goto
<1>3. AsideStep
  BY <1>1, <1>2 DEF AsideStep, Snapshotted
<1>4. phase' = phase
  BY <1>1 DEF swapVars
<1>5. PhasesAt'
  BY <1>2, <1>4 DEF KeptInv, PhasesAt, AllIn, Undoable
<1> QED
  BY <1>3, <1>5, AsideKept

\* DeleteProfile and CreateProfile begin.
LEMMA BeginKept ==
    ASSUME StoreInv, KeptInv, NEW p \in Profiles,
           Delete(p) \/ \E source \in {"clone", "empty"} : Create(p, source)
    PROVE  KeptInv'
<1>1. /\ UNCHANGED <<swapVars, manifest, latest, damage, litter>>
      /\ UNCHANGED <<destination, previous, replacement, phase, preserveRecovery>>
      /\ Active' = Active /\ Known' = Known
      /\ pc = "idle" /\ target' = p /\ Known \subseteq DOMAIN stored /\ Active \in Known
  BY DEF Delete, Create, Begin, swapVars, Active, Known, Loadable, StoreInv, Targeted
<1>2. AllIn(Directories, {"none"}) /\ DOMAIN moved = {}
  BY <1>1 DEF KeptInv, PhasesAt, InLibrary
<1>3. pc' \in {"createSave", "deleteSave"}
  BY DEF Delete, Create, Begin
<1>4. PhasesAt' /\ InDirectories' /\ LatestTyped'
  BY <1>1, <1>2, <1>3 DEF KeptInv, PhasesAt, InDirectories, LatestTyped, AllIn, KeptIn
<1>5. \A q \in Known \ {Active} : AllKeptIn(stored[q], q)
  BY <1>1 DEF KeptInv, InLibrary
<1>6. CASE Delete(p)
  <2>1. /\ moved' = Only(p, stored[p]) /\ stored' = Without(stored, p) /\ p \in Known \ {Active}
        /\ pc' = "deleteSave"
    BY <1>6 DEF Delete, Begin
  <2>2. /\ DOMAIN moved' = {p} /\ moved'[p] = stored[p] /\ DOMAIN stored' = DOMAIN stored \ {p}
        /\ \A q \in DOMAIN stored' : stored'[q] = stored[q]
    BY <2>1 DEF Only, Without
  <2>3. InLibrary'
    BY <1>1, <1>5, <2>1, <2>2 DEF InLibrary, AllKeptIn, KeptIn, Snapshotted
  <2> QED
    BY <1>4, <2>3 DEF KeptInv
<1>7. ASSUME NEW source \in {"clone", "empty"}, Create(p, source) PROVE KeptInv'
  <2>1. /\ \E new : stored' = With(stored, p, new)
        /\ moved' = moved /\ pc' = "createSave" /\ p \notin Known \cup DOMAIN stored
    BY <1>7 DEF Create, Begin
  <2>2. /\ DOMAIN stored' = DOMAIN stored \cup {p}
        /\ \A q \in DOMAIN stored : stored'[q] = stored[q]
    BY <2>1 DEF With, Merge, Only
  <2>3. InLibrary'
    BY <1>1, <1>2, <1>5, <2>1, <2>2 DEF InLibrary, AllKeptIn, KeptIn, Snapshotted
  <2> QED
    BY <1>4, <2>3 DEF KeptInv
<1> QED
  BY <1>6, <1>7

\* ... and end.
LEMMA CreateKept ==
    ASSUME StoreInv, StoreTypeOK, KeptInv, CreateSave \/ CreateSaveFails PROVE KeptInv'
<1>1. /\ UNCHANGED <<destination, previous, replacement, phase, preserveRecovery>>
      /\ UNCHANGED <<moved, litter, damage, target>> /\ Active' = Active
      /\ pc = "createSave" /\ pc' = "idle"
  BY DEF CreateSave, CreateSaveFails, swapVars, Active, Step, Goto
<1>2. /\ AllIn(Directories, {"none"}) /\ target \in DOMAIN stored \ Known /\ DOMAIN moved = {}
      /\ Active \in Known
  BY <1>1 DEF KeptInv, PhasesAt, InLibrary, StoreInv, Targeted
<1>3. PhasesAt'
  BY <1>1, <1>2 DEF PhasesAt, AllIn
<1>4. CASE CreateSave
  <2> DEFINE seen == [files |-> Visible(stored[target]), version |-> captured]
  <2>1. /\ manifest' = [active |-> Active, version |-> With(manifest.version, target, captured)]
        /\ latest' = With(latest, target, seen) /\ stored' = stored
    BY <1>4 DEF CreateSave
  <2>2. /\ Known' = Known \cup {target} /\ DOMAIN latest = Known
        /\ DOMAIN latest' = Known' /\ latest'[target] = seen
        /\ \A p \in Known : latest'[p] = latest[p]
    BY <1>2, <2>1 DEF Known, With, Merge, Only, KeptInv, LatestTyped
  <2>3. /\ \A d \in Directories : /\ stored[target][d] \in SUBSET File
                                  /\ Visible(stored[target])[d] = Shown(stored[target][d])
        /\ Visible(stored[target]) \in EntrySets
    BY <1>2, DirectoriesTyped DEF EntrySets, Visible, Shown
  <2>4. AllKeptIn(stored[target], target)'
    BY <1>1, <2>1, <2>2, <2>3, PreservesShown DEF AllKeptIn, KeptIn
  <2>5. LatestTyped'
    <3>1. \A p \in Known' : latest'[p] \in [files : EntrySets, version : Versions]
      BY <2>2, <2>3 DEF KeptInv, LatestTyped, StoreTypeOK
    <3>2. latest' = [p \in Known' |-> latest'[p]]
      BY <2>1, <2>2 DEF With, Merge
    <3> QED
      BY <3>1, <3>2 DEF LatestTyped
  <2>6. InDirectories'
    BY <1>1, <1>2, <2>2 DEF KeptInv, InDirectories, KeptIn, AllIn
  <2>7. InLibrary'
    BY <1>1, <1>2, <2>1, <2>2, <2>4 DEF KeptInv, InLibrary, AllKeptIn, KeptIn, Snapshotted
  <2> QED
    BY <1>3, <2>5, <2>6, <2>7 DEF KeptInv
<1>5. CASE CreateSaveFails
  <2>1. /\ stored' = Without(stored, target) /\ UNCHANGED <<manifest, latest>>
        /\ Known' = Known
    BY <1>5 DEF CreateSaveFails, Known
  <2>2. /\ DOMAIN stored' = DOMAIN stored \ {target}
        /\ \A p \in DOMAIN stored' : stored'[p] = stored[p]
    BY <2>1 DEF Without
  <2>3. InDirectories' /\ LatestTyped'
    BY <1>1, <1>2, <2>1 DEF KeptInv, InDirectories, LatestTyped, KeptIn, AllIn
  <2>4. InLibrary'
    BY <1>1, <1>2, <2>1, <2>2 DEF KeptInv, InLibrary, AllKeptIn, KeptIn, Snapshotted
  <2> QED
    BY <1>3, <2>3, <2>4 DEF KeptInv
<1> QED
  BY <1>4, <1>5

LEMMA DeleteKept ==
    ASSUME StoreInv, KeptInv, DeleteSave \/ DeleteSaveFails PROVE KeptInv'
<1>1. /\ UNCHANGED <<destination, previous, replacement, phase, preserveRecovery>>
      /\ target' = target /\ Active' = Active /\ pc = "deleteSave" /\ pc' = "idle"
      /\ moved' = Nothing
  BY DEF DeleteSave, DeleteSaveFails, PutBack, LeaveAside, swapVars, Active, Step, Goto
<1>2. /\ AllIn(Directories, {"none"}) /\ DOMAIN moved = {target} /\ DOMAIN moved' = {}
      /\ target \in Known \ {Active} /\ Active \in Known /\ AllKeptIn(moved[target], target)
  <2>1. AllIn(Directories, {"none"}) /\ target \in Known \ {Active} /\ Active \in Known
    BY <1>1 DEF KeptInv, PhasesAt, StoreInv, Targeted
  <2>2. DOMAIN moved = {target} /\ AllKeptIn(moved[target], target)
    BY <1>1 DEF KeptInv, InLibrary
  <2>3. DOMAIN moved' = {}
    BY <1>1 DEF Nothing
  <2> QED
    BY <2>1, <2>2, <2>3
<1>3. PhasesAt'
  BY <1>1, <1>2 DEF PhasesAt, AllIn
<1>4. CASE DeleteSave
  <2>1. /\ manifest' = [active |-> Active, version |-> Without(manifest.version, target)]
        /\ latest' = Without(latest, target) /\ UNCHANGED <<stored, litter, damage>>
    BY <1>4 DEF DeleteSave
  <2>2. /\ Known' = Known \ {target} /\ DOMAIN latest = Known
        /\ \A p \in Known' : latest'[p] = latest[p]
    BY <2>1 DEF Known, Without, KeptInv, LatestTyped
  <2>3. LatestTyped'
    <3>1. \A p \in Known' : latest'[p] \in [files : EntrySets, version : Versions]
      BY <2>2 DEF KeptInv, LatestTyped
    <3>2. latest' = [p \in Known' |-> latest'[p]]
      BY <2>1, <2>2 DEF Without
    <3> QED
      BY <3>1, <3>2 DEF LatestTyped
  <2>4. InDirectories'
    BY <1>1, <1>2, <2>1, <2>2 DEF KeptInv, InDirectories, KeptIn, AllIn
  <2>5. InLibrary'
    BY <1>1, <1>2, <2>1, <2>2 DEF KeptInv, InLibrary, AllKeptIn, KeptIn, Snapshotted
  <2> QED
    BY <1>3, <2>3, <2>4, <2>5 DEF KeptInv
<1>5. CASE DeleteSaveFails
  <2>1. UNCHANGED <<manifest, latest>> /\ Known' = Known
    BY <1>5 DEF DeleteSaveFails, Known
  <2>2. "files" \in damage => "files" \in damage'
    BY <1>5 DEF DeleteSaveFails, PutBack, LeaveAside, Harmed
  <2>3. \A S, seen : Preserves(S, seen, damage) => Preserves(S, seen, damage')
    BY <2>2, PreservesStill
  <2>4. InDirectories' /\ LatestTyped'
    BY <1>1, <1>2, <2>1, <2>2, <2>3 DEF KeptInv, InDirectories, LatestTyped, KeptIn, AllIn
  <2>5. CASE PutBack
    <3>1. stored' = Merge(moved, stored) /\ UNCHANGED <<litter, damage>>
      BY <2>5 DEF PutBack
    <3>2. /\ DOMAIN stored' = DOMAIN stored \cup {target} /\ stored'[target] = moved[target]
          /\ \A p \in DOMAIN stored \ {target} : stored'[p] = stored[p]
      BY <1>2, <3>1 DEF Merge
    <3>3. InLibrary'
      BY <1>1, <1>2, <2>1, <3>1, <3>2 DEF KeptInv, InLibrary, AllKeptIn, KeptIn, Snapshotted
    <3> QED
      BY <1>3, <2>4, <3>3 DEF KeptInv
  <2>6. CASE LeaveAside
    <3>1. stored' = stored /\ litter' = litter \cup Entries(moved) /\ "files" \in damage'
      BY <2>6 DEF LeaveAside, Harmed
    <3>2. \A d \in Directories : moved[target][d] \subseteq litter'
      BY <1>2, <3>1 DEF Entries
    <3>3. \A d \in Directories : latest[target].files[d] \subseteq Files(litter')
      BY <1>2, <3>2 DEF AllKeptIn, KeptIn, Preserves, Files
    <3>4. Files(litter) \subseteq Files(litter')
      BY <3>1 DEF Files
    <3>5. InLibrary'
      BY <1>1, <1>2, <2>1, <2>3, <3>1, <3>3, <3>4
         DEF KeptInv, InLibrary, AllKeptIn, KeptIn, Snapshotted
    <3> QED
      BY <1>3, <2>4, <3>5 DEF KeptInv
  <2> QED
    BY <1>5, <2>5, <2>6 DEF DeleteSaveFails
<1> QED
  BY <1>4, <1>5

\* The snapshot of the active profile: its stored copy is replaced by the directories.
LEMMA SnapshotKept ==
    ASSUME StoreInv, KeptInv,
           \/ SnapshotAside \/ SnapshotPlace \/ SnapshotPlaceFails
           \/ SnapshotDiscard \/ SnapshotDiscardFails
    PROVE  KeptInv'
<1>1. /\ UNCHANGED <<destination, previous, replacement, phase, preserveRecovery>>
      /\ UNCHANGED <<manifest, latest, target>> /\ Active' = Active /\ Known' = Known
      /\ "files" \in damage => "files" \in damage'
      /\ pc \in {"snapshot", "place", "discard"}
      /\ pc' \in {"idle", "place", "discard", "stage"}
  BY DEF SnapshotAside, SnapshotPlace, SnapshotPlaceFails, SnapshotDiscard, SnapshotDiscardFails,
         PutBack, LeaveAside, Harmed, swapVars, Active, Known, Step, Goto
<1>2. AllIn(Directories, {"none"}) /\ Active \in Known
  BY <1>1 DEF KeptInv, PhasesAt, StoreInv, Targeted
<1>3. \A S, seen : Preserves(S, seen, damage) => Preserves(S, seen, damage')
  BY <1>1, PreservesStill
<1>4. PhasesAt' /\ InDirectories' /\ LatestTyped'
  BY <1>1, <1>2, <1>3 DEF KeptInv, PhasesAt, InDirectories, LatestTyped, AllIn, KeptIn
<1>5. CASE SnapshotAside
  <2>1. /\ pc = "snapshot" /\ pc' = "place" /\ UNCHANGED <<litter, damage>>
        /\ moved' = Only(Active, stored[Active]) /\ stored' = Without(stored, Active)
    BY <1>5 DEF SnapshotAside, Step, Goto
  <2>2. /\ DOMAIN moved' = {Active} /\ DOMAIN stored' = DOMAIN stored \ {Active}
        /\ \A p \in DOMAIN stored' : stored'[p] = stored[p]
    BY <2>1 DEF Only, Without
  <2> QED
    BY <1>1, <1>4, <2>1, <2>2 DEF KeptInv, InLibrary, AllKeptIn, KeptIn, Snapshotted
<1>6. CASE SnapshotPlace
  <2>1. /\ pc = "place" /\ pc' = "discard" /\ UNCHANGED <<moved, litter, damage>>
        /\ stored' = With(stored, Active, destination)
    BY <1>6 DEF SnapshotPlace, Step, Goto
  <2>2. /\ DOMAIN stored' = DOMAIN stored \cup {Active} /\ stored'[Active] = destination
        /\ \A p \in DOMAIN stored \ {Active} : stored'[p] = stored[p]
    BY <2>1 DEF With, Merge, Only
  <2>3. AllKeptIn(destination, Active)
    <3>1. \A d \in Directories : phase[d] = "none"
      BY <1>2, Zenon DEF AllIn
    <3>2. \A d \in Directories : phase[d] = "none" => KeptIn(destination[d], Active, d)
      BY DEF KeptInv, InDirectories
    <3> QED
      BY <3>1, <3>2, Zenon DEF AllKeptIn
  <2>4. InLibrary'
    BY <1>1, <2>1, <2>2, <2>3 DEF KeptInv, InLibrary, AllKeptIn, KeptIn, Snapshotted
  <2> QED
    BY <1>4, <2>4 DEF KeptInv
<1>7. CASE SnapshotPlaceFails
  <2>1. pc = "place" /\ pc' = "idle" /\ moved' = Nothing /\ DOMAIN moved' = {}
        /\ DOMAIN moved = {Active}
    BY <1>7 DEF SnapshotPlaceFails, Step, Goto, PutBack, LeaveAside, Nothing, KeptInv, InLibrary
  <2>2. CASE PutBack
    <3>1. stored' = Merge(moved, stored) /\ UNCHANGED <<litter, damage>>
      BY <2>2 DEF PutBack
    <3>2. /\ DOMAIN stored' = DOMAIN stored \cup {Active}
          /\ \A p \in DOMAIN stored \ {Active} : stored'[p] = stored[p]
      BY <2>1, <3>1 DEF Merge
    <3>3. InLibrary'
      BY <1>1, <2>1, <3>1, <3>2 DEF KeptInv, InLibrary, AllKeptIn, KeptIn, Snapshotted
    <3> QED
      BY <1>4, <3>3 DEF KeptInv
  <2>3. CASE LeaveAside
    <3>1. stored' = stored /\ litter' = litter \cup Entries(moved) /\ "files" \in damage'
      BY <2>3 DEF LeaveAside, Harmed
    <3>2. Files(litter) \subseteq Files(litter')
      BY <3>1 DEF Files
    <3>3. InLibrary'
      BY <1>1, <1>3, <2>1, <3>1, <3>2 DEF KeptInv, InLibrary, AllKeptIn, KeptIn, Snapshotted
    <3> QED
      BY <1>4, <3>3 DEF KeptInv
  <2> QED
    BY <1>7, <2>2, <2>3 DEF SnapshotPlaceFails
<1>8. CASE SnapshotDiscard \/ SnapshotDiscardFails
  <2>1. /\ pc = "discard" /\ pc' \in {"stage", "idle"} /\ stored' = stored /\ damage' = damage
        /\ DOMAIN moved' = {} /\ litter \subseteq litter'
    BY <1>8 DEF SnapshotDiscard, SnapshotDiscardFails, Step, Goto, Nothing
  <2>2. Files(litter) \subseteq Files(litter')
    BY <2>1 DEF Files
  <2>3. InLibrary'
    BY <1>1, <2>1, <2>2 DEF KeptInv, InLibrary, AllKeptIn, KeptIn, Snapshotted
  <2> QED
    BY <1>4, <2>3 DEF KeptInv
<1> QED
  BY <1>5, <1>6, <1>7, <1>8

\* The switch is committed: the target is the active profile.
LEMMA CommitKept == ASSUME StoreInv, KeptInv, SaveManifest PROVE KeptInv'
<1>1. /\ UNCHANGED <<destination, previous, replacement, phase, preserveRecovery>>
      /\ UNCHANGED <<stored, moved, litter, latest, target>>
      /\ pc = "save" /\ pc' = "commit" /\ Active' = target /\ Known' = Known
      /\ "files" \in damage => "files" \in damage'
  BY DEF SaveManifest, swapVars, Active, Known, Step, Goto
<1>2. AllIn(Directories, {"active"}) /\ target \in Known /\ Active \in Known
  BY <1>1 DEF KeptInv, PhasesAt, StoreInv, Targeted
<1>3. \A S, seen : Preserves(S, seen, damage) => Preserves(S, seen, damage')
  BY <1>1, PreservesStill
<1>4. PhasesAt' /\ InDirectories' /\ LatestTyped'
  BY <1>1, <1>2, <1>3 DEF KeptInv, PhasesAt, InDirectories, LatestTyped, AllIn, KeptIn
<1>5. \A p \in Known \ {target} :
         IF p \in DOMAIN stored THEN AllKeptIn(stored[p], p)
         ELSE "files" \in damage /\ \A d \in Directories : latest[p].files[d] \subseteq Files(litter)
  BY <1>1 DEF KeptInv, InLibrary, Snapshotted
<1>6. InLibrary'
  BY <1>1, <1>2, <1>3, <1>5 DEF KeptInv, InLibrary, AllKeptIn, KeptIn, Snapshotted
<1> QED
  BY <1>4, <1>6 DEF KeptInv

-----------------------------------------------------------------------------
(* The steps on the directories.                                           *)

\* What the swap of one directory changes.
SwapOf(d) ==
    /\ UNCHANGED <<previous, replacement>>
    /\ phase' = [phase EXCEPT ![d] = phase'[d]]
    /\ phase[d] # "none" /\ phase'[d] # "none"
    /\ phase[d] \in Undoable /\ (phase'[d] \in Undoable \/ Commit(d))
    /\ \A e \in Directories \ {d} : /\ destination'[e] = destination[e]
                                    /\ preserveRecovery'[e] = preserveRecovery[e]

LEMMA SwapsMove ==
    ASSUME StoreInv, NEW d \in Directories,
           Activate(d) \/ Rollback(d) \/ Commit(d) \/ Advance(d) \/ Stumble(d)
    PROVE  SwapOf(d)
<1>1. TypeOK
  BY DEF StoreInv, SwapInv
<1>2. ASSUME NEW from \in Undoable, NEW to, Turns(d, from, to), to \in Undoable \/ Commit(d)
      PROVE  SwapOf(d)
  <2>1. /\ phase[d] = from /\ phase' = [phase EXCEPT ![d] = to]
        /\ UNCHANGED <<destination, preserveRecovery, previous, replacement>>
    BY <1>2 DEF Turns, Goes, entries, history
  <2>2. phase'[d] = to
    BY <1>1, <2>1 DEF TypeOK
  <2>3. to # "none" /\ from # "none"
    BY <1>2, <2>2 DEF Undoable, Commit, Turns, Goes
  <2> QED
    BY <1>2, <2>1, <2>2, <2>3 DEF SwapOf
<1>3. ASSUME NEW at \in Undoable, Keeps(d, at),
             \A e \in Directories \ {d} : /\ destination'[e] = destination[e]
                                          /\ preserveRecovery'[e] = preserveRecovery[e]
      PROVE  SwapOf(d)
  BY <1>1, <1>3 DEF Keeps, history, SwapOf, Undoable, TypeOK
<1>4. CASE Activate(d) \/ Rollback(d)
  BY <1>2, <1>4 DEF Activate, Rollback, Undoable
<1>5. CASE Commit(d)
  BY <1>2, <1>5 DEF Commit, Undoable
<1>6. CASE BackedUp(d) \/ Placed(d) \/ Unplaced(d) \/ Restored(d)
  BY <1>2, <1>6 DEF BackedUp, Placed, Unplaced, Restored, Undoable
<1>7. CASE BackUpFails(d) \/ PlaceFails(d)
  BY <1>2, <1>7 DEF BackUpFails, PlaceFails, Undoable
<1>8. ASSUME NEW f, BackUp(d, f) \/ Place(d, f) \/ Unplace(d, f) \/ Restore(d, f)
      PROVE  SwapOf(d)
  <2>1. \E at \in Undoable : Keeps(d, at)
    BY <1>8 DEF BackUp, Place, Unplace, Restore, Undoable
  <2>2. \A e \in Directories \ {d} : /\ destination'[e] = destination[e]
                                     /\ preserveRecovery'[e] = preserveRecovery[e]
    BY <1>1, <1>8 DEF BackUp, Place, Unplace, Restore, Take, Give, TypeOK, EntrySets
  <2> QED
    BY <1>3, <2>1, <2>2
<1>9. ASSUME NEW f, UnplaceFails(d, f) \/ RestoreFails(d, f)
      PROVE  SwapOf(d)
  <2>1. \E at \in Undoable : Keeps(d, at)
    BY <1>9 DEF UnplaceFails, RestoreFails, Undoable
  <2>2. \A e \in Directories \ {d} : /\ destination'[e] = destination[e]
                                     /\ preserveRecovery'[e] = preserveRecovery[e]
    BY <1>1, <1>9 DEF UnplaceFails, RestoreFails, Failed, TypeOK, EntrySets
  <2> QED
    BY <1>3, <2>1, <2>2
<1> QED
  BY <1>4, <1>5, <1>6, <1>7, <1>8, <1>9 DEF Advance, Stumble

LEMMA StagedKept ==
    ASSUME StoreInv, KeptInv, NEW d \in Directories, StageSwap(d) PROVE KeptInv'
<1>1. /\ Prepare(d, stored[target][d])
      /\ UNCHANGED <<manifest, stored, moved, litter, latest, damage, pc, target>>
      /\ pc = "stage" /\ Active' = Active /\ Known' = Known
  BY DEF StageSwap, Step, Goto, restVars, libraryVars, Active, Known
<1>2. TypeOK
  BY DEF StoreInv, SwapInv
<1>3. /\ phase[d] = "none" /\ phase'[d] = "staged" /\ destination' = destination
      /\ previous'[d] = destination[d] /\ replacement'[d] = stored[target][d]
      /\ preserveRecovery'[d] = FALSE
      /\ \A e \in Directories \ {d} :
            /\ phase'[e] = phase[e] /\ preserveRecovery'[e] = preserveRecovery[e]
            /\ previous'[e] = previous[e] /\ replacement'[e] = replacement[e]
  BY <1>1, <1>2 DEF Prepare, Goes, TypeOK, EntrySets
<1>4. PhasesAt'
  BY <1>1, <1>3 DEF KeptInv, PhasesAt, AllIn
<1>5. KeptIn(stored[target][d], target, d)
  <2>1. target \in Known \ {Active} /\ target \in DOMAIN stored
    BY <1>1 DEF StoreInv, Targeted
  <2>2. AllKeptIn(stored[target], target)
    BY <2>1 DEF KeptInv, InLibrary
  <2> QED
    BY <2>2 DEF AllKeptIn
<1>6. InDirectories'
  BY <1>1, <1>3, <1>5 DEF KeptInv, InDirectories, KeptIn
<1>7. InLibrary' /\ LatestTyped'
  BY <1>1 DEF KeptInv, InLibrary, LatestTyped, AllKeptIn, KeptIn
<1> QED
  BY <1>4, <1>6, <1>7 DEF KeptInv

LEMMA SwapKept ==
    ASSUME StoreInv, KeptInv, NEW d \in Directories,
           ActivateSwap(d) \/ CommitSwap(d) \/ RollbackSwap(d)
    PROVE  KeptInv'
<1>1. /\ SwapOf(d)
      /\ UNCHANGED <<manifest, stored, moved, litter, latest, pc, target>>
      /\ Active' = Active /\ Known' = Known /\ pc \in {"activate", "rollback", "commit"}
      /\ "files" \in damage => "files" \in damage'
  BY SwapsMove
     DEF ActivateSwap, CommitSwap, RollbackSwap, Step, Goto, restVars, libraryVars,
         operationVars, Active, Known, Harmed
<1>2. TypeOK
  BY DEF StoreInv, SwapInv
<1>3. /\ previous' = previous /\ replacement' = replacement
      /\ phase[d] # "none" /\ phase'[d] # "none"
      /\ \A e \in Directories \ {d} :
            phase'[e] = phase[e] /\ preserveRecovery'[e] = preserveRecovery[e]
            /\ destination'[e] = destination[e]
  BY <1>1, <1>2 DEF SwapOf, TypeOK
<1>4. preserveRecovery'[d] => preserveRecovery[d] \/ "files" \in damage'
  BY <1>2 DEF ActivateSwap, CommitSwap, RollbackSwap, Harmed, TypeOK, EntrySets, Activate,
              Rollback, Commit, Advance, Turns, BackUp, Place, Unplace, Restore, BackedUp,
              Placed, Unplaced, Restored
<1>5. /\ pc \in {"activate", "rollback"} => phase'[d] \in Undoable
      /\ pc = "commit" => phase'[d] = "committed"
  <2>1. CASE ActivateSwap(d) \/ RollbackSwap(d)
    <3>1. ~Commit(d)
      BY <1>2, <2>1 DEF ActivateSwap, RollbackSwap, Commit, Activate, Rollback, Advance, Stumble,
         Turns, Goes, Keeps, BackUp, Place, Unplace, Restore, BackedUp, Placed, Unplaced,
         Restored, BackUpFails, PlaceFails, UnplaceFails, RestoreFails, TypeOK
    <3> QED
      BY <1>1, <2>1, <3>1 DEF SwapOf, ActivateSwap, RollbackSwap
  <2>2. CASE CommitSwap(d)
    BY <1>2, <2>2 DEF CommitSwap, Step, Commit, Turns, Goes, TypeOK
  <2> QED
    BY <2>1, <2>2
<1>6. PhasesAt'
  BY <1>1, <1>3, <1>5 DEF KeptInv, PhasesAt, AllIn
<1>7. \A S, seen : Preserves(S, seen, damage) => Preserves(S, seen, damage')
  BY <1>1, PreservesStill
<1>8. InDirectories'
  BY <1>1, <1>3, <1>4, <1>7 DEF KeptInv, InDirectories, KeptIn
<1>9. InLibrary' /\ LatestTyped'
  BY <1>1, <1>7 DEF KeptInv, InLibrary, LatestTyped, AllKeptIn, KeptIn
<1> QED
  BY <1>6, <1>8, <1>9 DEF KeptInv

LEMMA CleanedKept ==
    ASSUME StoreInv, KeptInv, NEW d \in Directories, CleanUpSwap(d) PROVE KeptInv'
<1>1. PICK left \in SUBSET backup[d] : Cleanup(d, left)
  BY DEF CleanUpSwap
<1>2. /\ UNCHANGED <<manifest, stored, moved, litter, latest, damage, pc, target>>
      /\ Active' = Active /\ Known' = Known /\ pc \in {"cleanup", "commit"}
  BY DEF CleanUpSwap, restVars, libraryVars, operationVars, Active, Known
<1>3. TypeOK /\ Where(d)
  BY DEF StoreInv, SwapInv
<1>4. /\ phase[d] \in {"staged", "rolledBack", "committed"} /\ phase'[d] = "none"
      /\ destination'[d] = destination[d] \cup Leftover(left)
      /\ preserveRecovery[d] => left = backup[d]
      /\ previous' = previous /\ replacement' = replacement
      /\ preserveRecovery' = preserveRecovery
      /\ \A e \in Directories \ {d} :
            phase'[e] = phase[e] /\ destination'[e] = destination[e]
  BY <1>1, <1>3 DEF Cleanup, TypeOK, EntrySets, history
<1>5. PhasesAt'
  BY <1>2, <1>4 DEF KeptInv, PhasesAt, AllIn
<1>6. /\ destination[d] \in SUBSET File /\ left \in SUBSET File
      /\ previous[d] \in SUBSET File /\ backup[d] \in SUBSET File
  BY <1>1, DirectoriesTyped
<1>7. KeptIn(destination'[d], Active, d)
  <2>1. CASE pc = "commit"
    <3>1. destination[d] = replacement[d] /\ KeptIn(destination[d], Active, d)
      BY <1>3, <1>4, <2>1 DEF Where, KeptInv, PhasesAt, AllIn, InDirectories
    <3> QED
      BY <1>4, <1>6, <3>1, PreservesMore DEF KeptIn
  <2>2. CASE pc = "cleanup" /\ ~preserveRecovery[d]
    <3>1. destination[d] = previous[d] /\ KeptIn(destination[d], Active, d)
      BY <1>3, <1>4, <2>2 DEF Where, Whole, KeptInv, PhasesAt, AllIn, InDirectories
    <3> QED
      BY <1>4, <1>6, <3>1, PreservesMore DEF KeptIn
  <2>3. CASE pc = "cleanup" /\ preserveRecovery[d]
    <3>1. /\ previous[d] \subseteq destination[d] \cup left /\ KeptIn(previous[d], Active, d)
          /\ "files" \in damage'
      BY <1>2, <1>3, <1>4, <2>3 DEF Where, Whole, KeptInv, PhasesAt, AllIn, InDirectories
    <3> QED
      BY <1>2, <1>4, <1>6, <3>1, PreservesHarmed DEF KeptIn
  <2> QED
    BY <1>2, <2>1, <2>2, <2>3
<1>8. InDirectories'
  BY <1>2, <1>4, <1>7 DEF KeptInv, InDirectories, KeptIn
<1>9. InLibrary' /\ LatestTyped'
  BY <1>2 DEF KeptInv, InLibrary, LatestTyped, AllKeptIn, KeptIn
<1> QED
  BY <1>5, <1>8, <1>9 DEF KeptInv

-----------------------------------------------------------------------------
(* Play, the crash, and the beginning.                                     *)

LEMMA PlayKept == ASSUME StoreInv, StoreTypeOK', KeptInv, Play PROVE KeptInv'
<1>1. /\ UNCHANGED <<manifest, stored, moved, litter, pc, target, damage>>
      /\ UNCHANGED <<previous, replacement, phase, preserveRecovery>>
      /\ pc = "idle" /\ Active' = Active /\ Known' = Known /\ Active \in Known
      /\ latest' = [latest EXCEPT ![Active].files = Visible(destination')]
  BY DEF Play, Edit, libraryVars, operationVars, Active, Known, history, StoreInv, Targeted
<1>2. \A d \in Directories : phase[d] = "none"
  BY <1>1 DEF KeptInv, PhasesAt, AllIn
<1>3. \A d \in Directories : /\ destination'[d] \in SUBSET File
                             /\ Visible(destination')[d] = Shown(destination'[d])
  BY DEF StoreTypeOK, TypeOK, EntrySets, Visible, Shown
<1>4. Visible(destination') \in EntrySets
  BY <1>3 DEF EntrySets, Visible
<1>5. /\ latest' \in [Known -> [files : EntrySets, version : Versions]]
      /\ latest'[Active].files = Visible(destination')
      /\ \A p \in Known \ {Active} : latest'[p] = latest[p]
  BY <1>1, <1>4 DEF KeptInv, LatestTyped
<1>6. \A d \in Directories :
         Preserves(destination'[d], latest'[Active].files[d], damage')
  BY <1>1, <1>3, <1>5, PreservesShown
<1>7. PhasesAt'
  BY <1>1 DEF KeptInv, PhasesAt, AllIn
<1>8. InDirectories'
  BY <1>1, <1>2, <1>6 DEF KeptInv, InDirectories, KeptIn
<1>9. InLibrary' /\ LatestTyped'
  BY <1>1, <1>5 DEF KeptInv, InLibrary, LatestTyped, AllKeptIn, KeptIn, Snapshotted
<1> QED
  BY <1>7, <1>8, <1>9 DEF KeptInv

LEMMA CrashKept == ASSUME StoreInv, StoreTypeOK, KeptInv, Crash PROVE KeptInv'
<1>1. /\ UNCHANGED <<manifest, stored, latest, target, previous, replacement>>
      /\ pc \notin {"idle", "down"} /\ pc' = "down" /\ Active' = Active /\ Known' = Known
      /\ damage' = IF Vulnerable THEN damage \cup {"files"} ELSE damage
      /\ litter' = litter \cup Entries(moved) /\ DOMAIN moved' = {}
      /\ phase' = [d \in Directories |-> "none"]
      /\ destination' = [d \in Directories |-> destination[d] \cup Leftover(backup[d])]
      /\ preserveRecovery' = [d \in Directories |-> FALSE]
  BY DEF Crash, Goto, Active, Known, Abandon, history, Nothing
<1>2. "files" \in damage => "files" \in damage'
  BY <1>1
<1>3. \A S, seen : Preserves(S, seen, damage) => Preserves(S, seen, damage')
  BY <1>2, PreservesStill
<1>4. PhasesAt'
  BY <1>1 DEF PhasesAt, AllIn
<1>5. ASSUME NEW d \in Directories
      PROVE  Preserves(destination[d] \cup Leftover(backup[d]), latest[Active].files[d], damage')
  <2>1. /\ destination[d] \in SUBSET File /\ backup[d] \in SUBSET File
        /\ previous[d] \in SUBSET File
    BY DirectoriesTyped
  <2>2. Where(d)
    BY DEF StoreInv, SwapInv
  <2>3. CASE \/ phase[d] = "none" \/ pc = "commit"
    <3>1. KeptIn(destination[d], Active, d)
      BY <2>2, <2>3 DEF Where, KeptInv, PhasesAt, AllIn, InDirectories
    <3> QED
      BY <1>3, <2>1, <3>1, PreservesMore DEF KeptIn
  <2>4. CASE phase[d] # "none" /\ pc # "commit"
    <3>1. KeptIn(previous[d], Active, d) /\ (preserveRecovery[d] => "files" \in damage)
      BY <2>4 DEF KeptInv, InDirectories
    <3>2. phase[d] \in Undoable
      <4>1. pc \in Steps
        BY DEF StoreTypeOK
      <4> QED
        BY <1>1, <2>4, <4>1 DEF KeptInv, PhasesAt, AllIn, Undoable, Steps
    <3>3. previous[d] \subseteq destination[d] \cup backup[d]
      BY <2>2, <3>2 DEF Where, Undoable
    <3>4. CASE "files" \in damage'
      BY <2>1, <3>1, <3>3, <3>4, PreservesHarmed DEF KeptIn
    <3>5. CASE "files" \notin damage'
      <4>1. phase[d] \in {"staged", "rolledBack"} /\ ~preserveRecovery[d]
        <5>1. pc \in Steps /\ ~Vulnerable
          BY <1>1, <3>5 DEF StoreTypeOK
        <5>2. pc \in {"activate", "rollback"} => phase[d] = "staged"
          BY <5>1 DEF Vulnerable, AllIn
        <5>3. pc \in {"builtIns", "reload", "persist", "save"} => phase[d] = "staged"
          BY <5>1 DEF Vulnerable, AllIn
        <5> QED
          BY <1>1, <1>2, <2>4, <3>1, <3>5, <5>1, <5>2, <5>3 DEF KeptInv, PhasesAt, AllIn, Steps
      <4>2. destination[d] = previous[d]
        BY <2>2, <4>1 DEF Where, Whole
      <4> QED
        BY <1>3, <2>1, <3>1, <4>2, PreservesMore DEF KeptIn
    <3> QED
      BY <3>4, <3>5
  <2> QED
    BY <2>3, <2>4
<1>6. InDirectories'
  BY <1>1, <1>5 DEF InDirectories, KeptIn
<1>7. Files(litter) \subseteq Files(litter')
  BY <1>1 DEF Files
<1>8. CASE pc = "deleteSave"
  <2>1. "files" \in damage' /\ DOMAIN moved = {target} /\ AllKeptIn(moved[target], target)
    BY <1>1, <1>8 DEF Vulnerable, KeptInv, InLibrary
  <2>2. \A d \in Directories : moved[target][d] \subseteq litter'
    BY <1>1, <2>1 DEF Entries
  <2>3. \A d \in Directories : latest[target].files[d] \subseteq Files(litter')
    BY <2>1, <2>2 DEF AllKeptIn, KeptIn, Preserves, Files
  <2>4. InLibrary'
    BY <1>1, <1>2, <1>3, <1>7, <1>8, <2>1, <2>3
       DEF KeptInv, InLibrary, AllKeptIn, KeptIn, Snapshotted
  <2> QED
    BY <1>1, <1>4, <1>6, <2>4 DEF KeptInv, LatestTyped
<1>9. CASE pc # "deleteSave"
  <2>1. pc = "place" => "files" \in damage'
    BY <1>1 DEF Vulnerable
  <2>2. InLibrary'
    BY <1>1, <1>2, <1>3, <1>7, <1>9, <2>1 DEF KeptInv, InLibrary, AllKeptIn, KeptIn, Snapshotted
  <2> QED
    BY <1>1, <1>4, <1>6, <2>2 DEF KeptInv, LatestTyped
<1> QED
  BY <1>8, <1>9

LEMMA KeptAtFirst == ASSUME Init PROVE KeptInv
<1>1. /\ FirstActive \in DOMAIN FirstFiles /\ DOMAIN FirstVersion = DOMAIN FirstFiles
      /\ \A p \in DOMAIN FirstFiles : FirstVersion[p] \in Versions
  BY StoreConstants
<1>2. ASSUME NEW p \in DOMAIN FirstFiles
      PROVE  /\ FirstSetup(p) \in EntrySets
             /\ \A d \in Directories :
                   FirstSetup(p)[d] \in SUBSET File /\ Shown(FirstSetup(p)[d]) = FirstSetup(p)[d]
  <2>1. FirstSetup(p) \in EntrySets
    BY FirstSetupFits DEF Setups
  <2>2. \A d \in Directories : \A f \in FirstSetup(p)[d] : ~f.leftover
    BY DEF FirstSetup
  <2> QED
    BY <2>1, <2>2 DEF EntrySets, Shown
<1>3. /\ manifest = [active |-> FirstActive, version |-> FirstVersion]
      /\ destination = FirstSetup(FirstActive)
      /\ stored = [p \in DOMAIN FirstFiles |-> FirstSetup(p)] /\ DOMAIN moved = {}
      /\ latest = [p \in DOMAIN FirstFiles |->
                      [files |-> FirstSetup(p), version |-> FirstVersion[p]]]
      /\ pc = "idle" /\ damage = {} /\ phase = [d \in Directories |-> "none"]
      /\ preserveRecovery = [d \in Directories |-> FALSE]
  BY DEF Init, InitWith, Nothing
<1>4. Known = DOMAIN FirstFiles /\ Active = FirstActive
  BY <1>1, <1>3 DEF Known, Active
<1>5. LatestTyped /\ PhasesAt
  BY <1>1, <1>2, <1>3, <1>4 DEF LatestTyped, PhasesAt, AllIn
<1>6. \A p \in DOMAIN FirstFiles : AllKeptIn(FirstSetup(p), p)
  <2> SUFFICES ASSUME NEW p \in DOMAIN FirstFiles, NEW d \in Directories
               PROVE  KeptIn(FirstSetup(p)[d], p, d)
    BY DEF AllKeptIn
  <2>1. latest[p].files[d] = Shown(FirstSetup(p)[d]) /\ FirstSetup(p)[d] \in SUBSET File
    BY <1>2, <1>3
  <2> QED
    BY <2>1, PreservesShown DEF KeptIn
<1>7. InDirectories
  BY <1>1, <1>3, <1>4, <1>6 DEF InDirectories, AllKeptIn
<1>8. InLibrary
  BY <1>1, <1>3, <1>4, <1>6 DEF InLibrary, Snapshotted
<1> QED
  BY <1>5, <1>7, <1>8 DEF KeptInv

-----------------------------------------------------------------------------
(* Types.                                                                  *)

LEMMA PartialIs ==
    ASSUME NEW S, NEW T, NEW f
    PROVE  f \in Partial(S, T) <=> DOMAIN f \subseteq S /\ f \in [DOMAIN f -> T]
BY DEF Partial

\* However an installation ends.
Outcome == /\ engine \in Versions \cup {Mixed} /\ runtime \in Versions \cup {Broken}
           /\ unresolved \in BOOLEAN

LEMMA EndsTyped ==
    ASSUME Outcome, NEW v \in Versions, NEW S \in SUBSET Outcomes(v), Ends(S)
    PROVE  Outcome'
<1>1. PICK o \in Outcomes(v) : engine' = o[1] /\ runtime' = o[2] /\ unresolved' = o[3]
  BY DEF Ends
<1>2. o[1] \in {engine, v, Mixed} /\ o[2] \in {runtime, v, Broken} /\ o[3] \in BOOLEAN
  BY DEF Outcomes
<1> QED
  BY <1>1, <1>2 DEF Outcome

LEMMA InstallTyped ==
    ASSUME Outcome, NEW v \in Versions, Installs(v) \/ InstallFails(v) \/ InstallCut(v)
    PROVE  Outcome'
<1>1. Installed(v) \in SUBSET Outcomes(v)
  BY DEF Installed
<1>2. \A n \in 0..MaxFaults : /\ NotInstalled(v, n) \in SUBSET Outcomes(v)
                              /\ Cut(v, n) \in SUBSET Outcomes(v)
  BY DEF NotInstalled, Cut
<1>3. \E S \in SUBSET Outcomes(v) : Ends(S)
  BY <1>1, <1>2 DEF Installs, InstallFails, InstallCut
<1> QED
  BY <1>3, EndsTyped

Counters == ops \in 0..MaxOps /\ faults \in 0..MaxFaults /\ crashes \in 0..MaxCrashes

\* What happens is counted, up to the bounds.
Counted ==
    /\ ops' = ops \/ (ops < MaxOps /\ ops' = ops + 1)
    /\ \E n \in Nat : (n = 0 \/ faults + n <= MaxFaults) /\ faults' = faults + n
    /\ crashes' = crashes \/ (crashes < MaxCrashes /\ crashes' = crashes + 1)

LEMMA CountersTyped == ASSUME Counters, Counted PROVE Counters'
BY StoreConstants DEF Counters, Counted

LEMMA SureCounted == ASSUME Counters, Sure, ops' = ops \/ (ops < MaxOps /\ ops' = ops + 1) PROVE Counted
BY DEF Counters, Sure, Counted

LEMMA FaultCounted == ASSUME NEW n \in Nat, Fault(n), ops' = ops PROVE Counted
BY DEF Fault, Counted

\* What the other variables are.
RestTyped ==
    /\ manifest.version \in Partial(Profiles, Versions) /\ DOMAIN latest = Known
    /\ DOMAIN stored \subseteq Profiles /\ DOMAIN moved \subseteq Profiles /\ litter \subseteq File
    /\ Outcome /\ captured \in Versions
    /\ server \in Profiles /\ target \in Profiles
    /\ pc \in Steps /\ damage \subseteq {"files", "server"} /\ Counters

LEMMA TypesAre == ASSUME StoreInv PROVE RestTyped <=> StoreTypeOK
<1>1. TypeOK /\ manifest.active \in Known
  BY DEF StoreInv, SwapInv, Targeted, Active
<1>2. /\ \A p \in DOMAIN stored : stored[p] \in EntrySets
      /\ \A p \in DOMAIN moved : moved[p] \in EntrySets
  BY DEF StoreInv, Fits, Setups
<1> QED
  BY ONLY <1>1, <1>2 DEF RestTyped, StoreTypeOK, Outcome, Counters

LEMMA AsideTyped ==
    ASSUME StoreInv, RestTyped,
           \/ SnapshotFails \/ StageFails \/ Staged \/ Activated \/ SetBuiltIns \/ ReloadTarget
           \/ SaveManifestFails \/ RolledBack \/ UndoReload \/ Finish \/ Restart
    PROVE  RestTyped'
<1>1. /\ UNCHANGED <<manifest, latest, stored, moved, litter, target, captured, ops>>
      /\ UNCHANGED <<engine, runtime, unresolved>>
      /\ damage' \subseteq damage \cup {"server"}
      /\ server' \in {server, target, Active} /\ pc' \in Steps
      /\ Sure \/ Fault(1)
  BY DEF SnapshotFails, StageFails, Staged, Activated, SetBuiltIns, ReloadTarget,
         SaveManifestFails, RolledBack, UndoReload, Finish, Restart, Step, Goto, Harmed,
         restVars, libraryVars, releaseVars, Steps
<1>2. Active \in Profiles
  BY PartialIs DEF StoreInv, Targeted, RestTyped, Known
<1>3. Counters'
  BY <1>1, SureCounted, FaultCounted, CountersTyped DEF RestTyped
<1> QED
  BY <1>1, <1>2, <1>3 DEF RestTyped, Known, Outcome

\* The steps that change the release or what is recorded of it.
LEMMA ReleaseTyped ==
    ASSUME StoreInv, RestTyped, InstallTarget \/ PersistTarget \/ UndoRelease
    PROVE  RestTyped'
<1>1. /\ UNCHANGED <<manifest, latest, stored, moved, litter, target, captured, ops>>
      /\ UNCHANGED <<server, damage>> /\ pc' \in Steps /\ target \in Known
  BY DEF InstallTarget, PersistTarget, UndoRelease, Step, Goto, libraryVars, Steps, StoreInv,
         Targeted
<1>2. manifest.version[target] \in Versions /\ captured \in Versions /\ Outcome /\ Counters
  BY <1>1, PartialIs DEF RestTyped, Known
<1>3. CASE InstallTarget
  <2>1. \/ Installs(manifest.version[target]) \/ InstallFails(manifest.version[target])
    BY <1>3 DEF InstallTarget
  <2>2. Outcome'
    BY <1>2, <2>1, InstallTyped
  <2>3. Counters'
    BY <1>1, <1>2, <2>1, SureCounted, FaultCounted, CountersTyped DEF Installs, InstallFails
  <2> QED
    BY <1>1, <2>2, <2>3 DEF RestTyped, Known
<1>4. CASE UndoRelease /\ ReleaseChanged
  <2>1. Installs(captured) \/ InstallFails(captured)
    BY <1>4 DEF UndoRelease
  <2>2. Outcome'
    BY <1>2, <2>1, InstallTyped
  <2>3. Counters'
    BY <1>1, <1>2, <2>1, SureCounted, FaultCounted, CountersTyped DEF Installs, InstallFails
  <2> QED
    BY <1>1, <2>2, <2>3 DEF RestTyped, Known
<1>5. CASE PersistTarget \/ (UndoRelease /\ ~ReleaseChanged)
  <2>1. /\ UNCHANGED <<engine, unresolved>> /\ (Sure \/ Fault(1))
        /\ runtime' \in {runtime, captured, manifest.version[target]}
    BY <1>5 DEF PersistTarget, UndoRelease
  <2>2. Outcome' /\ Counters'
    BY <1>1, <1>2, <2>1, SureCounted, FaultCounted, CountersTyped DEF Outcome
  <2> QED
    BY <1>1, <2>2 DEF RestTyped, Known
<1> QED
  BY <1>3, <1>4, <1>5

\* The domains of the functions the library is made of.
LEMMA DomainsAre ==
    /\ \A f, x, v : DOMAIN With(f, x, v) = DOMAIN f \cup {x}
    /\ \A f, x : DOMAIN Without(f, x) = DOMAIN f \ {x}
    /\ \A x, v : DOMAIN Only(x, v) = {x}
    /\ \A f, g : DOMAIN Merge(f, g) = DOMAIN f \cup DOMAIN g
    /\ DOMAIN Nothing = {}
BY DEF With, Without, Only, Merge, Nothing

LEMMA EntriesAreFiles == ASSUME Fits(moved) PROVE Entries(moved) \subseteq File
BY DEF Fits, Setups, EntrySets, Entries

\* What is renamed aside comes back or is left as it lies.
LEMMA BackTyped ==
    ASSUME Fits(moved), RestTyped, PutBack \/ LeaveAside
    PROVE  /\ DOMAIN stored' \subseteq Profiles /\ DOMAIN moved' \subseteq Profiles
           /\ litter' \subseteq File /\ damage' \subseteq {"files", "server"}
<1>1. DOMAIN moved' = {} /\ Entries(moved) \subseteq File
  BY DomainsAre, EntriesAreFiles DEF PutBack, LeaveAside
<1>2. CASE PutBack
  <2>1. DOMAIN stored' = DOMAIN moved \cup DOMAIN stored /\ UNCHANGED <<litter, damage>>
    BY <1>2, DomainsAre DEF PutBack
  <2> QED
    BY <1>1, <2>1 DEF RestTyped
<1>3. CASE LeaveAside
  BY <1>1, <1>3 DEF LeaveAside, Harmed, RestTyped
<1> QED
  BY <1>2, <1>3

LEMMA BeginTyped ==
    ASSUME StoreInv, RestTyped, NEW p \in Profiles,
           BeginSwitch(p) \/ Delete(p) \/ \E source \in {"clone", "empty"} : Create(p, source)
    PROVE  RestTyped'
<1>1. /\ UNCHANGED <<manifest, latest, litter, server, damage, engine, runtime, unresolved>>
      /\ Sure /\ pc' \in Steps /\ target' = p /\ captured' = runtime /\ runtime # Broken
      /\ ops < MaxOps /\ ops' = ops + 1
  BY DEF BeginSwitch, Delete, Create, Begin, libraryVars, releaseVars, Steps
<1>2. DOMAIN stored' \subseteq Profiles /\ DOMAIN moved' \subseteq Profiles
  <2>1. CASE BeginSwitch(p)
    BY <2>1 DEF BeginSwitch, libraryVars, RestTyped
  <2>2. CASE Delete(p)
    <3>1. DOMAIN moved' = {p} /\ DOMAIN stored' = DOMAIN stored \ {p}
      BY <2>2, DomainsAre DEF Delete
    <3> QED
      BY <3>1 DEF RestTyped
  <2>3. CASE \E source \in {"clone", "empty"} : Create(p, source)
    <3>1. PICK setup : moved' = moved /\ stored' = With(stored, p, setup)
      BY <2>3 DEF Create
    <3>2. DOMAIN stored' = DOMAIN stored \cup {p}
      BY <3>1, DomainsAre, Zenon
    <3> QED
      BY <3>1, <3>2 DEF RestTyped
  <2> QED
    BY <2>1, <2>2, <2>3
<1>3. Counters'
  BY <1>1, SureCounted, CountersTyped DEF RestTyped
<1> QED
  BY <1>1, <1>2, <1>3 DEF RestTyped, Outcome, Known

\* The saves that end a creation or a deletion.
LEMMA SavedTyped ==
    ASSUME StoreInv, RestTyped,
           CreateSave \/ CreateSaveFails \/ DeleteSave \/ DeleteSaveFails
    PROVE  RestTyped'
<1>1. /\ UNCHANGED <<server, target, captured, ops, engine, runtime, unresolved>>
      /\ pc' \in Steps /\ (Sure \/ Fault(1) \/ Fault(2))
  BY DEF CreateSave, CreateSaveFails, DeleteSave, DeleteSaveFails, Step, Goto, releaseVars, Steps
<1>2. Counters' /\ Outcome'
  BY <1>1, SureCounted, FaultCounted, CountersTyped DEF RestTyped, Outcome
<1>3. /\ DOMAIN manifest.version \subseteq Profiles
      /\ \A p \in DOMAIN manifest.version : manifest.version[p] \in Versions
      /\ DOMAIN latest = DOMAIN manifest.version
  BY PartialIs DEF RestTyped, Known
<1>4. CASE CreateSave
  <2>1. manifest.version' = With(manifest.version, target, captured)
    BY <1>4 DEF CreateSave
  <2>2. DOMAIN latest' = DOMAIN latest \cup {target}
    BY <1>4, DomainsAre DEF CreateSave
  <2>3. UNCHANGED <<stored, moved, litter, damage>>
    BY <1>4 DEF CreateSave
  <2>4. /\ DOMAIN manifest.version' = DOMAIN manifest.version \cup {target}
        /\ manifest.version' \in [DOMAIN manifest.version' -> Versions]
    BY <1>3, <2>1 DEF With, Merge, Only, RestTyped
  <2>5. manifest.version' \in Partial(Profiles, Versions)
    BY <1>3, <2>4, PartialIs DEF RestTyped
  <2> QED
    BY <1>1, <1>2, <1>3, <2>2, <2>3, <2>4, <2>5 DEF RestTyped, Known
<1>5. CASE DeleteSave
  <2>1. manifest.version' = Without(manifest.version, target)
    BY <1>5 DEF DeleteSave
  <2>2. DOMAIN latest' = DOMAIN latest \ {target} /\ DOMAIN moved' = {}
    BY <1>5, DomainsAre DEF DeleteSave
  <2>3. UNCHANGED <<stored, litter, damage>>
    BY <1>5 DEF DeleteSave
  <2>4. /\ DOMAIN manifest.version' = DOMAIN manifest.version \ {target}
        /\ manifest.version' \in [DOMAIN manifest.version' -> Versions]
    BY <1>3, <2>1 DEF Without
  <2>5. manifest.version' \in Partial(Profiles, Versions)
    BY <1>3, <2>4, PartialIs
  <2> QED
    BY <1>1, <1>2, <1>3, <2>2, <2>3, <2>4, <2>5 DEF RestTyped, Known
<1>6. CASE CreateSaveFails \/ DeleteSaveFails
  <2>1. UNCHANGED <<manifest, latest>>
    BY <1>6 DEF CreateSaveFails, DeleteSaveFails
  <2>2. \/ stored' = Without(stored, target) /\ UNCHANGED <<moved, litter, damage>>
        \/ PutBack \/ LeaveAside
    BY <1>6 DEF CreateSaveFails, DeleteSaveFails
  <2>3. /\ DOMAIN stored' \subseteq Profiles /\ DOMAIN moved' \subseteq Profiles
        /\ litter' \subseteq File /\ damage' \subseteq {"files", "server"}
    <3>1. CASE stored' = Without(stored, target) /\ UNCHANGED <<moved, litter, damage>>
      <4>1. DOMAIN stored' = DOMAIN stored \ {target}
        BY <3>1, DomainsAre, Zenon
      <4> QED
        BY <3>1, <4>1 DEF RestTyped
    <3>2. CASE PutBack \/ LeaveAside
      BY <3>2, BackTyped DEF StoreInv
    <3> QED
      BY <2>2, <3>1, <3>2
  <2> QED
    BY <1>1, <1>2, <2>1, <2>3 DEF RestTyped, Known
<1> QED
  BY <1>4, <1>5, <1>6

LEMMA SnapshotTyped ==
    ASSUME StoreInv, RestTyped,
           \/ SnapshotAside \/ SnapshotPlace \/ SnapshotPlaceFails
           \/ SnapshotDiscard \/ SnapshotDiscardFails
    PROVE  RestTyped'
<1>1. /\ UNCHANGED <<manifest, latest, server, target, captured, ops, engine, runtime, unresolved>>
      /\ pc' \in Steps /\ (Sure \/ Fault(1) \/ Fault(2))
  BY DEF SnapshotAside, SnapshotPlace, SnapshotPlaceFails, SnapshotDiscard,
         SnapshotDiscardFails, Step, Goto, releaseVars, Steps
<1>2. Counters' /\ Outcome'
  BY <1>1, SureCounted, FaultCounted, CountersTyped DEF RestTyped, Outcome
<1>3. Active \in Profiles
  BY PartialIs DEF StoreInv, Targeted, RestTyped, Known
<1>4. \/ /\ moved' = Only(Active, stored[Active]) /\ stored' = Without(stored, Active)
         /\ UNCHANGED <<litter, damage>>
      \/ stored' = With(stored, Active, destination) /\ UNCHANGED <<moved, litter, damage>>
      \/ PutBack \/ LeaveAside
      \/ moved' = Nothing /\ UNCHANGED <<stored, litter, damage>>
      \/ /\ moved' = Nothing /\ litter' = litter \cup Entries(moved)
         /\ UNCHANGED <<stored, damage>>
  BY DEF SnapshotAside, SnapshotPlace, SnapshotPlaceFails, SnapshotDiscard, SnapshotDiscardFails
<1>5. /\ DOMAIN stored' \subseteq Profiles /\ DOMAIN moved' \subseteq Profiles
      /\ litter' \subseteq File /\ damage' \subseteq {"files", "server"}
  <2>1. CASE PutBack \/ LeaveAside
    BY <2>1, BackTyped DEF StoreInv
  <2>2. CASE /\ moved' = Only(Active, stored[Active]) /\ stored' = Without(stored, Active)
             /\ UNCHANGED <<litter, damage>>
    <3>1. DOMAIN stored' = DOMAIN stored \ {Active} /\ DOMAIN moved' = {Active}
      BY <2>2, DomainsAre, Zenon
    <3> QED
      BY <1>3, <2>2, <3>1 DEF RestTyped
  <2>3. CASE stored' = With(stored, Active, destination) /\ UNCHANGED <<moved, litter, damage>>
    <3>1. DOMAIN stored' = DOMAIN stored \cup {Active}
      BY <2>3, DomainsAre, Zenon
    <3> QED
      BY <1>3, <2>3, <3>1 DEF RestTyped
  <2>4. CASE /\ moved' = Nothing /\ litter' \subseteq litter \cup Entries(moved)
             /\ UNCHANGED <<stored, damage>>
    BY <2>4, DomainsAre, EntriesAreFiles DEF RestTyped, StoreInv
  <2> QED
    BY <1>4, <2>1, <2>2, <2>3, <2>4
<1> QED
  BY <1>1, <1>2, <1>5 DEF RestTyped, Known

\* The swaps, and what the user does in between.
LEMMA SwapsTyped ==
    ASSUME StoreInv, RestTyped,
           \/ Play
           \/ \E d \in Directories : \/ StageSwap(d) \/ ActivateSwap(d) \/ CommitSwap(d)
                                     \/ RollbackSwap(d) \/ CleanUpSwap(d)
    PROVE  RestTyped'
<1>1. /\ UNCHANGED <<manifest, stored, moved, litter, server, engine, runtime, unresolved>>
      /\ UNCHANGED <<pc, target, captured, ops>> /\ DOMAIN latest' = DOMAIN latest
  BY DEF Play, StageSwap, ActivateSwap, CommitSwap, RollbackSwap, CleanUpSwap, Step, Goto,
         restVars, libraryVars, releaseVars, operationVars
<1>2. damage' \subseteq damage \cup {"files"} /\ (Sure \/ Fault(1))
  BY DEF Play, StageSwap, ActivateSwap, CommitSwap, RollbackSwap, CleanUpSwap, Harmed
<1>3. Counters'
  BY <1>1, <1>2, SureCounted, FaultCounted, CountersTyped DEF RestTyped
<1> QED
  BY <1>1, <1>2, <1>3 DEF RestTyped, Known, Outcome

LEMMA CommitTyped == ASSUME StoreInv, RestTyped, SaveManifest PROVE RestTyped'
<1>1. /\ UNCHANGED <<latest, stored, moved, litter, server, engine, runtime, unresolved>>
      /\ UNCHANGED <<target, captured, ops>> /\ Sure /\ pc' \in Steps /\ damage' \subseteq damage
      /\ manifest.version' = [manifest.version EXCEPT ![Active] = captured]
  BY DEF SaveManifest, Step, Goto, releaseVars, Steps
<1>2. Counters'
  BY <1>1, SureCounted, CountersTyped DEF RestTyped
<1>3. DOMAIN manifest.version' = Known /\ manifest.version' \in Partial(Profiles, Versions)
  BY <1>1, PartialIs DEF RestTyped, Known
<1> QED
  BY <1>1, <1>2, <1>3 DEF RestTyped, Known, Outcome

LEMMA CrashTyped == ASSUME StoreInv, RestTyped, Crash PROVE RestTyped'
<1>1. /\ UNCHANGED <<manifest, latest, stored, server, target, captured, ops>>
      /\ pc' \in Steps /\ damage' \subseteq damage \cup {"files"}
      /\ litter' = litter \cup Entries(moved) /\ moved' = Nothing
      /\ crashes < MaxCrashes /\ crashes' = crashes + 1
  BY DEF Crash, Goto, Steps
<1>2. DOMAIN moved' \subseteq Profiles /\ litter' \subseteq File
  BY <1>1, DomainsAre, EntriesAreFiles DEF RestTyped, StoreInv
<1>3. Outcome' /\ \E n \in Nat : (n = 0 \/ faults + n <= MaxFaults) /\ faults' = faults + n
  <2>1. captured \in Versions /\ Outcome
    BY DEF RestTyped
  <2>2. CASE UNCHANGED <<releaseVars, faults>>
    BY <2>1, <2>2 DEF releaseVars, Outcome, RestTyped, Counters
  <2>3. CASE \E v \in Versions : InstallCut(v)
    <3>1. \E n \in Nat : faults + n <= MaxFaults /\ faults' = faults + n
      BY <2>3 DEF InstallCut
    <3> QED
      BY <2>1, <2>3, <3>1, InstallTyped
  <2>4. pc = "install" => manifest.version[target] \in Versions
    BY PartialIs DEF RestTyped, StoreInv, Targeted, Known
  <2> QED
    BY <2>1, <2>2, <2>3, <2>4 DEF Crash
<1>4. Counters'
  BY <1>1, <1>3, CountersTyped DEF Counted, RestTyped
<1> QED
  BY <1>1, <1>2, <1>3, <1>4 DEF RestTyped, Known

LEMMA TypedAtFirst == ASSUME Init PROVE RestTyped
<1>1. /\ FirstActive \in DOMAIN FirstFiles /\ DOMAIN FirstFiles \subseteq Profiles
      /\ DOMAIN FirstVersion = DOMAIN FirstFiles /\ FirstVersion \in [DOMAIN FirstFiles -> Versions]
  BY StoreConstants
<1>2. /\ manifest = [active |-> FirstActive, version |-> FirstVersion]
      /\ DOMAIN stored = DOMAIN FirstFiles /\ DOMAIN moved = {} /\ litter = {}
      /\ engine = FirstVersion[FirstActive] /\ runtime = engine /\ unresolved = FALSE
      /\ server = FirstActive /\ target = FirstActive /\ captured = engine
      /\ DOMAIN latest = DOMAIN FirstFiles
      /\ pc = "idle" /\ damage = {} /\ ops = 0 /\ faults = 0 /\ crashes = 0
  BY DEF Init, Nothing
<1>3. manifest.version \in Partial(Profiles, Versions) /\ Known = DOMAIN FirstFiles
  BY <1>1, <1>2, PartialIs DEF Known
<1>4. Outcome /\ captured \in Versions
  BY <1>1, <1>2 DEF Outcome
<1>5. Counters
  BY <1>2, StoreConstants DEF Counters
<1> QED
  BY <1>1, <1>2, <1>3, <1>4, <1>5 DEF RestTyped, Steps

-----------------------------------------------------------------------------
(* The invariant and what it says.                                         *)

ProfilesInv == StoreInv /\ StoreTypeOK /\ KeptInv

LEMMA ProfilesStep == ProfilesInv /\ [Next]_vars => ProfilesInv'
<1> SUFFICES ASSUME ProfilesInv, [Next]_vars PROVE ProfilesInv'
  OBVIOUS
<1>0. StoreInv /\ StoreTypeOK /\ KeptInv /\ RestTyped
  BY TypesAre DEF ProfilesInv
<1>1. StoreInv'
  BY <1>0, StoreStep
<1>2. RestTyped'
  <2>1. CASE Next
    BY <1>0, <2>1, AsideTyped, ReleaseTyped, BeginTyped, SavedTyped, SnapshotTyped, SwapsTyped,
       CommitTyped, CrashTyped DEF Next
  <2>2. CASE UNCHANGED vars
    BY <1>0, <2>2 DEF vars, libraryVars, releaseVars, operationVars, RestTyped, Outcome,
       Counters, Known
  <2> QED
    BY <2>1, <2>2
<1>3. StoreTypeOK'
  <2>1. StoreInv' => (RestTyped' <=> StoreTypeOK')
    BY TypesAre, PTL
  <2> QED
    BY <1>1, <1>2, <2>1
<1>4. KeptInv'
  <2>1. CASE Next
    BY <1>0, <1>1, <1>3, <2>1, AsideKeeps, BeginKept, CreateKept, DeleteKept, SnapshotKept,
       CommitKept, StagedKept, SwapKept, CleanedKept, PlayKept, CrashKept DEF Next
  <2>2. CASE UNCHANGED vars
    BY <1>0, <2>2 DEF vars, swapVars, libraryVars, releaseVars, operationVars, KeptInv, LatestTyped,
       PhasesAt, InDirectories, InLibrary, AllIn, KeptIn, AllKeptIn, Known, Active
  <2> QED
    BY <2>1, <2>2
<1> QED
  BY <1>1, <1>3, <1>4 DEF ProfilesInv

\* Between operations and without a crash's damage every user sees what he last saw.
LEMMA KeptInPlace == ASSUME ProfilesInv PROVE SetupsInPlace
<1> SUFFICES ASSUME pc = "idle", "files" \notin damage
             PROVE  Loadable /\ \A p \in Known : Visible(Setup(p)) = latest[p].files
  BY DEF SetupsInPlace
<1>1. Known \subseteq DOMAIN stored
  BY DEF ProfilesInv, KeptInv, InLibrary
<1>2. ASSUME NEW p \in Known PROVE Setup(p) \in EntrySets /\ AllKeptIn(Setup(p), p)
  <2>1. destination \in EntrySets /\ \A q \in Known : stored[q] \in EntrySets
    BY <1>1, DirectoriesTyped DEF ProfilesInv, StoreInv, SwapInv, TypeOK
  <2>2. CASE p = Active
    <3>1. AllIn(Directories, {"none"})
      BY DEF ProfilesInv, KeptInv, PhasesAt
    <3>2. ASSUME NEW d \in Directories PROVE KeptIn(destination[d], Active, d)
      <4>1. phase[d] = "none"
        BY <3>1 DEF AllIn
      <4> QED
        BY <4>1 DEF ProfilesInv, KeptInv, InDirectories
    <3>3. AllKeptIn(destination, Active)
      BY ONLY <3>2, Zenon DEF AllKeptIn
    <3> QED
      BY <2>1, <2>2, <3>3 DEF Setup
  <2>3. CASE p # Active
    <3>1. AllKeptIn(stored[p], p)
      BY <1>1, <2>3 DEF ProfilesInv, KeptInv, InLibrary
    <3> QED
      BY <2>1, <2>3, <3>1 DEF Setup
  <2> QED
    BY <2>2, <2>3
<1>3. ASSUME NEW p \in Known PROVE Visible(Setup(p)) = latest[p].files
  <2>1. latest[p].files \in EntrySets
    BY DEF ProfilesInv, KeptInv, LatestTyped
  <2>2. \A d \in Directories : latest[p].files[d] = Shown(Setup(p)[d])
    BY <1>2 DEF AllKeptIn, KeptIn, Preserves
  <2>3. Visible(Setup(p)) = [d \in Directories |-> Shown(Setup(p)[d])]
    BY DEF Visible, Shown
  <2> QED
    BY <2>1, <2>2, <2>3 DEF EntrySets
<1> QED
  BY <1>1, <1>3 DEF Loadable

\* Whatever failed and whenever the manager died, the files are somewhere on the disk.
LEMMA KeptOnDisk == ASSUME ProfilesInv PROVE FilesKept
<1>1. /\ litter \in SUBSET File /\ NothingLost /\ AllOrNothing
      /\ \A d \in Directories : phase[d] \in Phases
      /\ pc \in Steps
  BY InvImplies DEF ProfilesInv, StoreTypeOK, StoreInv, TypeOK
<1> DEFINE Disk == litter \cup Entries(stored) \cup Entries(moved)
                      \cup UNION {destination[d] \cup backup[d] : d \in Directories}
<1>2. OnDisk = Files(Disk)
  BY DEF OnDisk, Files, Bare
<1>3. \A S, T : S \subseteq T => Files(S) \subseteq Files(T)
  BY DEF Files
<1>4. \A d \in Directories : destination[d] \cup backup[d] \subseteq Disk
  OBVIOUS
<1>5. \A p, d : /\ p \in DOMAIN stored /\ d \in Directories => stored[p][d] \subseteq Disk
                /\ p \in DOMAIN moved /\ d \in Directories => moved[p][d] \subseteq Disk
  BY DEF Entries
<1>6. litter \subseteq Disk
  OBVIOUS
<1> HIDE DEF Disk
<1>7. \A S, p, d : S \subseteq Disk /\ KeptIn(S, p, d) => latest[p].files[d] \subseteq OnDisk
  BY <1>2, <1>3 DEF KeptIn, Preserves
<1>8. ASSUME NEW d \in Directories PROVE latest[Active].files[d] \subseteq OnDisk
  <2>1. CASE phase[d] = "none"
    <3>1. KeptIn(destination[d], Active, d)
      BY <2>1 DEF ProfilesInv, KeptInv, InDirectories
    <3> QED
      BY <1>4, <1>7, <3>1
  <2>2. CASE phase[d] # "none" /\ pc # "commit"
    <3>1. KeptIn(previous[d], Active, d)
      BY <2>2 DEF ProfilesInv, KeptInv, InDirectories
    <3>2. phase[d] \in Undoable
      BY <1>1, <2>2 DEF ProfilesInv, KeptInv, PhasesAt, AllIn, Steps, Undoable
    <3>3. previous[d] \subseteq destination[d] \cup backup[d]
      BY <1>1, <3>2 DEF NothingLost
    <3> QED
      BY <1>4, <1>7, <3>1, <3>3
  <2>3. CASE phase[d] # "none" /\ pc = "commit"
    <3>1. KeptIn(replacement[d], target, d) /\ Active = target
      BY <2>3 DEF ProfilesInv, KeptInv, InDirectories
    <3>2. phase[d] \in {"active", "committed"}
      BY <2>3 DEF ProfilesInv, KeptInv, PhasesAt, AllIn
    <3>3. destination[d] = replacement[d]
      BY <1>1, <3>2 DEF AllOrNothing
    <3> QED
      BY <1>4, <1>7, <3>1, <3>3
  <2> QED
    BY <2>1, <2>2, <2>3
<1>9. ASSUME NEW p \in Known \ {Active}, NEW d \in Directories
      PROVE  latest[p].files[d] \subseteq OnDisk
  <2>1. \/ p \in DOMAIN stored /\ AllKeptIn(stored[p], p)
        \/ p \in DOMAIN moved /\ AllKeptIn(moved[p], p)
        \/ latest[p].files[d] \subseteq Files(litter)
    BY DEF ProfilesInv, KeptInv, InLibrary
  <2> QED
    BY <1>2, <1>3, <1>5, <1>6, <1>7, <2>1 DEF AllKeptIn
<1>10. ASSUME NEW p \in Known, NEW d \in Directories PROVE latest[p].files[d] \subseteq OnDisk
  <2>1. CASE p = Active
    BY <1>8, <2>1
  <2>2. CASE p # Active
    BY <1>9, <2>2
  <2> QED
    BY <2>1, <2>2
<1> QED
  BY <1>10, Zenon DEF FilesKept

LEMMA ProfilesInit == Init => ProfilesInv
BY StoreInit, TypedAtFirst, TypesAre, KeptAtFirst DEF ProfilesInv

\* StoreTypeOK: every variable is of its type, and the history knows the profiles the
\* manifest knows.
THEOREM StoreTypeCorrect == Spec => []StoreTypeOK
<1>1. ProfilesInv => StoreTypeOK
  BY DEF ProfilesInv
<1> QED
  BY <1>1, ProfilesInit, ProfilesStep, PTL DEF Spec

\* SetupsKept: between operations every profile is as its user last saw it, unless a
\* rollback failed itself or a crash came between two setups, and not even then does a file
\* of a profile leave the disk (profiles_switch.go:63, profiles.go:192).
THEOREM StoreKeepsSetups == Spec => []SetupsKept
<1>1. ProfilesInv => SetupsKept
  BY KeptInPlace, KeptOnDisk DEF SetupsKept
<1> QED
  BY <1>1, ProfilesInit, ProfilesStep, PTL DEF Spec
=============================================================================
