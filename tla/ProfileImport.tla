---------------------------- MODULE ProfileImport ----------------------------
(***************************************************************************)
(* The import of profiles from a backup (ImportProfileBackup of            *)
(* factorio/profile_backup.go): for each selected profile it makes a       *)
(* directory with an identifier nobody has, fills it and a directory for   *)
(* its checkpoints, and only when all are there it saves the manifest.     *)
(* It holds the gate, the checkpoints and the profiles, so nothing runs    *)
(* beside it; but every step may fail, and the manager may die.  The       *)
(* backup was unpacked and validated before.                               *)
(***************************************************************************)
EXTENDS Naturals, Sequences

CONSTANTS
    Ids,            \* identifiers that newProfileID may draw
    ProfileTexts,   \* names of profiles
    KnownProfiles,          \* the manifest at first: identifier -> name
    Backups,        \* names chosen for what is imported, in order
    MaxImports, MaxImportFaults, MaxImportCrashes   \* bounds

\* loadProfileManifest refuses two profiles of one name.
ASSUME ImportConstants ==
    /\ DOMAIN KnownProfiles \subseteq Ids /\ Backups \subseteq Seq(ProfileTexts)
    /\ KnownProfiles \in [DOMAIN KnownProfiles -> ProfileTexts]
    /\ \A a, b \in DOMAIN KnownProfiles : KnownProfiles[a] = KnownProfiles[b] => a = b

VARIABLES
    listed,     \* the manifest
    folders,    \* profiles/<id>: empty, or with its data
    points,     \* checkpoints/<id>: begun, or complete
    import,     \* the import: its step, the names left, the manifest it builds
    stray,      \* history: directories a failed removal or a crash left
    imports, importFaults, importCrashes    \* counters

importCounters == <<imports, importFaults, importCrashes>>
importVars == <<listed, folders, points, import, stray, importCounters>>

NamesOf(f) == {f[id] : id \in DOMAIN f}
AddTo(f, id, x) == [y \in DOMAIN f \cup {id} |-> IF y = id THEN x ELSE f[y]]
Forget(f, id) == [x \in DOMAIN f \ {id} |-> f[x]]
NoImport == [step |-> "none", names |-> <<>>, manifest |-> KnownProfiles, id |-> "",
             created |-> {}]
ImportSteps == {"none", "allocate", "data", "points", "append", "save", "undo"}

ImportTypeOK ==
    /\ DOMAIN listed \subseteq Ids /\ NamesOf(listed) \subseteq ProfileTexts
    /\ DOMAIN folders \subseteq Ids /\ NamesOf(folders) \subseteq {"empty", "whole"}
    /\ DOMAIN points \subseteq Ids /\ NamesOf(points) \subseteq {"begun", "whole"}
    /\ import.step \in ImportSteps /\ import.created \subseteq Ids /\ stray \subseteq Ids

ImportInit ==
    /\ listed = KnownProfiles /\ folders = [id \in DOMAIN KnownProfiles |-> "whole"]
    /\ points \in {[id \in S |-> "whole"] : S \in SUBSET DOMAIN KnownProfiles}
    /\ import = NoImport /\ stray = {}
    /\ imports = 0 /\ importFaults = 0 /\ importCrashes = 0

Unfailing == UNCHANGED importCounters
ImportFault ==
    /\ importFaults < MaxImportFaults /\ importFaults' = importFaults + 1
    /\ UNCHANGED <<imports, importCrashes>>
Importing(step) == import.step = step
Proceed(step) == import' = [import EXCEPT !.step = step]
GiveUp == Proceed("undo")

----------------------------------------------------------------------------
ImportProfileBackup(names) ==
    /\ Importing("none") /\ imports < MaxImports /\ imports' = imports + 1
    /\ import' = [NoImport EXCEPT !.step = "allocate", !.names = names, !.manifest = listed]
    /\ UNCHANGED <<listed, folders, points, stray, importFaults, importCrashes>>

\* profileNameExists, also among those imported before it.
NameTakenAlready ==
    /\ Importing("allocate") /\ Head(import.names) \in NamesOf(import.manifest) /\ GiveUp
    /\ Unfailing /\ UNCHANGED <<listed, folders, points, stray>>

Drawn == import.names # <<>> /\ Head(import.names) \notin NamesOf(import.manifest)

\* Mutant of Allocate: the directory is noted before it is made, with MkdirAll.
AllocateAnyway(id) ==
    /\ Importing("allocate") /\ Drawn /\ id \notin DOMAIN points
    /\ folders' = IF id \in DOMAIN folders THEN folders ELSE AddTo(folders, id, "empty")
    /\ import' = [import EXCEPT !.step = "data", !.id = id, !.created = @ \cup {id}]
    /\ Unfailing /\ UNCHANGED <<listed, points, stray>>

\* A random identifier may be taken: by a profile, or by what a crash has left.
Allocate(id) ==
    /\ Importing("allocate") /\ Drawn /\ UNCHANGED <<listed, points>>
    /\ IF id \in DOMAIN points \cup DOMAIN folders
       THEN GiveUp /\ UNCHANGED <<folders, stray>> /\ Unfailing
       ELSE \/ /\ folders' = AddTo(folders, id, "empty") /\ stray' = stray \ {id}
               /\ import' = [import EXCEPT !.step = "data", !.id = id, !.created = @ \cup {id}]
               /\ Unfailing
            \/ UNCHANGED <<folders, stray>> /\ GiveUp /\ ImportFault

\* writeProfileData, then validateStoredProfileData; in between its renames there is no
\* directory, and it may stay away.
WriteData ==
    /\ Importing("data") /\ UNCHANGED <<listed, points, stray>>
    /\ \/ folders' = AddTo(folders, import.id, "whole") /\ Proceed("points") /\ Unfailing
       \/ folders' \in {folders, Forget(folders, import.id), AddTo(folders, import.id, "whole")}
          /\ GiveUp /\ ImportFault

\* saveCheckpointStore makes the directory, persistCheckpoint adds the archives.
WritePoints ==
    /\ Importing("points") /\ UNCHANGED <<listed, folders, stray>>
    /\ \/ points' = AddTo(points, import.id, "whole") /\ Proceed("append") /\ Unfailing
       \/ points' \in {points, AddTo(points, import.id, "begun")} /\ GiveUp /\ ImportFault

AppendProfile ==
    /\ Importing("append") /\ Unfailing /\ UNCHANGED <<listed, folders, points, stray>>
    /\ import' = [import EXCEPT !.manifest = AddTo(@, import.id, Head(import.names)),
                      !.names = Tail(@),
                      !.step = IF Len(import.names) = 1 THEN "save" ELSE "allocate"]

SaveManifest ==
    /\ Importing("save") /\ UNCHANGED <<folders, points, stray>>
    /\ \/ listed' = import.manifest /\ import' = NoImport /\ Unfailing
       \/ UNCHANGED listed /\ GiveUp /\ ImportFault

\* The deferred removals, whose errors nobody sees.
UndoProfile(id) ==
    /\ Importing("undo") /\ id \in import.created /\ UNCHANGED listed
    /\ import' = [import EXCEPT !.created = @ \ {id}]
    /\ \/ folders' = Forget(folders, id) /\ points' = Forget(points, id)
          /\ Unfailing /\ UNCHANGED stray
       \/ /\ folders' \in {Forget(folders, id), folders}
          /\ points' \in {Forget(points, id), points}
          /\ stray' = stray \cup {id} /\ ImportFault

ImportFails ==
    /\ Importing("undo") /\ import.created = {} /\ import' = NoImport
    /\ Unfailing /\ UNCHANGED <<listed, folders, points, stray>>

ImportCut ==
    /\ ~Importing("none") /\ importCrashes < MaxImportCrashes
    /\ importCrashes' = importCrashes + 1
    /\ import' = NoImport /\ stray' = stray \cup import.created
    /\ UNCHANGED <<listed, folders, points, imports, importFaults>>

ImportNext ==
    \/ \E names \in Backups : ImportProfileBackup(names)
    \/ \E id \in Ids : Allocate(id) \/ UndoProfile(id)
    \/ NameTakenAlready \/ WriteData \/ WritePoints \/ AppendProfile \/ SaveManifest
    \/ ImportFails \/ ImportCut

ImportSpec == ImportInit /\ [][ImportNext]_importVars

----------------------------------------------------------------------------
\* An import adds every selected profile with all its data and a name of its own, or
\* none, and leaves alone what was there, also when an identifier is drawn twice; what is
\* on disk beside the profiles is left by a crash or a removal that failed
\* (profile_backup.go:263, :296).
ImportAllOrNothing ==
    /\ \A id \in DOMAIN listed :
          /\ id \in DOMAIN folders /\ folders[id] = "whole"
          /\ id \in DOMAIN points => points[id] = "whole"
          /\ \A other \in DOMAIN listed \ {id} : listed[other] # listed[id]
    /\ Importing("none") => (DOMAIN folders \cup DOMAIN points) \ DOMAIN listed \subseteq stray
=============================================================================
