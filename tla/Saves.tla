-------------------------------- MODULE Saves --------------------------------
(***************************************************************************)
(* The saves directory (factorio/saves.go, world_generation.go, api/       *)
(* save_handler.go): uploads, removals and the creation of a world, which  *)
(* only the middleware keeps from a server that is up when they begin, and *)
(* not from each other; and the start of a save.  A file is known by the   *)
(* time it was written at, by which the latest save is found.              *)
(***************************************************************************)
EXTENDS Naturals

CONSTANTS
    SaveNames, FirstSave, \* names of saves
    Uploaders,      \* uploads that may be under way together
    NoSave,
    MaxWrites, MaxSaveFaults, MaxSaveCrashes   \* bounds

ASSUME SavesConstants ==
    /\ FirstSave \in SaveNames /\ SaveNames \cap Uploaders = {} /\ NoSave \notin SaveNames
    /\ {MaxWrites, MaxSaveFaults, MaxSaveCrashes} \subseteq Nat

VARIABLES
    saveFiles, \* the .zip files: of a name, or ".save-upload-*.zip" of an upload
    hidden,    \* ".save-backup-*": what an upload has moved aside
    upload,    \* for each upload its step and the name it is for
    creation,  \* CreateWorld: its step, the name, when it looked for the name
    removal,   \* RemoveSave has found the save of this name
    up,        \* the save the server runs, as it was when it started
    written,   \* the clock: how many files have been written
    saveFaults, saveCrashes

requestVars == <<upload, creation, removal>>
saveCounters == <<written, saveFaults, saveCrashes>>
saveVars == <<saveFiles, hidden, requestVars, up, saveCounters>>

SaveFile == [at : 0..MaxWrites, whole : BOOLEAN]
FirstWhole == [at |-> 0, whole |-> TRUE]
SavePlaces == SaveNames \cup Uploaders
Stopped == up = NoSave

SavesTypeOK ==
    /\ DOMAIN saveFiles \subseteq SavePlaces /\ \A n \in DOMAIN saveFiles : saveFiles[n] \in SaveFile
    /\ DOMAIN hidden \subseteq Uploaders /\ \A u \in DOMAIN hidden : hidden[u] \in SaveFile
    /\ \A u \in Uploaders :
          /\ upload[u].step \in {"none", "copy", "rename", "aside", "place", "back", "tidy"}
          /\ upload[u].name \in SaveNames
    /\ creation.step \in {"none", "generate", "rename"} /\ creation.name \in SaveNames
    /\ creation.seen \subseteq SaveFile \* history: what had the name when it looked
    /\ creation.at \in 0..MaxWrites
    /\ removal \in SaveNames \cup {NoSave} /\ up \in SaveFile \cup {NoSave}

File(f, n, a) == [x \in DOMAIN f \cup {n} |-> IF x = n THEN a ELSE f[x]]
Unfile(f, n) == [x \in DOMAIN f \ {n} |-> f[x]]

SavesInit ==
    /\ saveFiles \in {[n \in S |-> FirstWhole] : S \in {{}, {FirstSave}}}
    /\ hidden = [u \in {} |-> FirstWhole]
    /\ upload = [u \in Uploaders |-> [step |-> "none", name |-> FirstSave]]
    /\ creation = [step |-> "none", name |-> FirstSave, seen |-> {}, at |-> 0]
    /\ removal = NoSave /\ up = NoSave
    /\ written = 0 /\ saveFaults = 0 /\ saveCrashes = 0

NoWrite == UNCHANGED saveCounters
NewWrite == written < MaxWrites /\ written' = written + 1 /\ UNCHANGED <<saveFaults, saveCrashes>>
SaveFault ==
    /\ saveFaults < MaxSaveFaults /\ saveFaults' = saveFaults + 1
    /\ UNCHANGED <<written, saveCrashes>>
Uploading(u, step) == upload[u].step = step
UploadTo(u, step) == upload' = [upload EXCEPT ![u].step = step] /\ UNCHANGED <<creation, removal>>

----------------------------------------------------------------------------
(* UploadSave                                                              *)

\* The temporary file is beside the saves, and one of them while it is copied.
UploadSave(u, n) ==
    /\ Stopped /\ Uploading(u, "none") /\ u \notin DOMAIN saveFiles \cup DOMAIN hidden
    /\ NewWrite
    /\ saveFiles' = File(saveFiles, u, [at |-> written', whole |-> FALSE])
    /\ upload' = [upload EXCEPT ![u] = [step |-> "copy", name |-> n]]
    /\ UNCHANGED <<hidden, creation, removal, up>>

\* Refused: the copy fails, or what was copied is no save.
UploadRefused(u) ==
    /\ Uploading(u, "copy") /\ UploadTo(u, "none")
    /\ saveFiles' = Unfile(saveFiles, u)
    /\ NoWrite /\ UNCHANGED <<hidden, up>>

CopyUpload(u) ==
    /\ Uploading(u, "copy") /\ UploadTo(u, "rename")
    /\ saveFiles' = [saveFiles EXCEPT ![u].whole = TRUE]
    /\ NoWrite /\ UNCHANGED <<hidden, up>>

\* activateSaveUploadInDirectory; an upload that ends takes its temporary file along.
Shown(u) == File(Unfile(saveFiles, u), upload[u].name, saveFiles[u])
RenameUpload(u) ==
    /\ Uploading(u, "rename") /\ UNCHANGED <<hidden, up>>
    /\ \/ saveFiles' = Shown(u) /\ UploadTo(u, "none") /\ NoWrite
       \/ /\ SaveFault
          /\ IF upload[u].name \in DOMAIN saveFiles
             THEN UploadTo(u, "aside") /\ UNCHANGED saveFiles
             ELSE UploadTo(u, "none") /\ saveFiles' = Unfile(saveFiles, u)

MoveSaveAside(u) ==
    /\ Uploading(u, "aside") /\ UNCHANGED up
    /\ \/ /\ upload[u].name \in DOMAIN saveFiles
          /\ hidden' = File(hidden, u, saveFiles[upload[u].name])
          /\ saveFiles' = Unfile(saveFiles, upload[u].name) /\ UploadTo(u, "place") /\ NoWrite
       \/ /\ IF upload[u].name \in DOMAIN saveFiles THEN SaveFault ELSE NoWrite
          /\ saveFiles' = Unfile(saveFiles, u) /\ UploadTo(u, "none") /\ UNCHANGED hidden

PlaceUpload(u) ==
    /\ Uploading(u, "place") /\ UNCHANGED <<hidden, up>>
    /\ \/ saveFiles' = Shown(u) /\ UploadTo(u, "tidy") /\ NoWrite
       \/ UNCHANGED saveFiles /\ UploadTo(u, "back") /\ SaveFault

\* It lands on whatever has taken the name meanwhile.
MoveSaveBack(u) ==
    /\ Uploading(u, "back") /\ UploadTo(u, "none") /\ UNCHANGED up
    /\ \/ /\ saveFiles' = File(Unfile(saveFiles, u), upload[u].name, hidden[u])
          /\ hidden' = Unfile(hidden, u) /\ NoWrite
       \/ saveFiles' = Unfile(saveFiles, u) /\ UNCHANGED hidden /\ SaveFault

RemoveReplaced(u) ==
    /\ Uploading(u, "tidy") /\ UploadTo(u, "none") /\ UNCHANGED <<saveFiles, up>>
    /\ \/ hidden' = Unfile(hidden, u) /\ NoWrite
       \/ UNCHANGED hidden /\ SaveFault

----------------------------------------------------------------------------
(* RemoveSave and CreateWorld                                              *)

FindSave(n) ==
    /\ Stopped /\ removal = NoSave /\ n \in DOMAIN saveFiles \cap SaveNames /\ removal' = n
    /\ NoWrite /\ UNCHANGED <<saveFiles, hidden, upload, creation, up>>

\* What has the name now, if anything.
RemoveSave ==
    /\ removal # NoSave /\ removal' = NoSave
    /\ saveFiles' = Unfile(saveFiles, removal)
    /\ NoWrite /\ UNCHANGED <<hidden, upload, creation, up>>
RemoveSaveFails ==
    /\ removal # NoSave /\ removal' = NoSave /\ SaveFault
    /\ UNCHANGED <<saveFiles, hidden, upload, creation, up>>

Named(n) == {saveFiles[m] : m \in DOMAIN saveFiles \cap {n}}

\* Mutant of BeginWorld: the name is not looked for.
BeginWorldOver(n) ==
    /\ Stopped /\ creation.step = "none"
    /\ creation' = [step |-> "generate", name |-> n, seen |-> Named(n), at |-> 0]
    /\ NoWrite /\ UNCHANGED <<saveFiles, hidden, upload, removal, up>>

\* ErrSaveAlreadyExists, then minutes pass: the save is generated in a directory aside.
BeginWorld(n) ==
    /\ Stopped /\ creation.step = "none" /\ n \notin DOMAIN saveFiles
    /\ creation' = [step |-> "generate", name |-> n, seen |-> Named(n), at |-> 0]
    /\ NoWrite /\ UNCHANGED <<saveFiles, hidden, upload, removal, up>>

WorldGenerated ==
    /\ creation.step = "generate" /\ NewWrite
    /\ creation' = [creation EXCEPT !.step = "rename", !.at = written']
    /\ UNCHANGED <<saveFiles, hidden, upload, removal, up>>

ShowWorld ==
    /\ creation.step = "rename" /\ creation' = [creation EXCEPT !.step = "none"]
    /\ saveFiles' = File(saveFiles, creation.name, [at |-> creation.at, whole |-> TRUE])
    /\ NoWrite /\ UNCHANGED <<hidden, upload, removal, up>>

\* Factorio fails, is stopped after five minutes, or the file cannot be renamed.
CreateWorldFails ==
    /\ creation.step # "none" /\ creation' = [creation EXCEPT !.step = "none"]
    /\ NoWrite /\ UNCHANGED <<saveFiles, hidden, upload, removal, up>>

----------------------------------------------------------------------------
(* The server, the manager                                                 *)

GetLatestSave(n) ==
    n \in DOMAIN saveFiles /\ \A m \in DOMAIN saveFiles : saveFiles[m].at <= saveFiles[n].at

\* The world generation lock is taken by the start, the requests are not waited for.
StartSave(n) ==
    /\ Stopped /\ creation.step = "none"
    /\ GetLatestSave(n) \/ n \in DOMAIN saveFiles \cap SaveNames
    /\ up' = saveFiles[n]
    /\ NoWrite /\ UNCHANGED <<saveFiles, hidden, requestVars>>

\* The server ends; it has saved its world under the name of the user, or not.
EndServer(n) ==
    /\ ~Stopped /\ up' = NoSave
    /\ \/ NoWrite /\ UNCHANGED saveFiles
       \/ NewWrite /\ saveFiles' = File(saveFiles, n, [at |-> written', whole |-> TRUE])
    /\ UNCHANGED <<hidden, requestVars>>

\* The temporary files stay.
SavesCut ==
    /\ saveCrashes < MaxSaveCrashes /\ saveCrashes' = saveCrashes + 1
    /\ upload' = [u \in Uploaders |-> [upload[u] EXCEPT !.step = "none"]]
    /\ creation' = [creation EXCEPT !.step = "none"] /\ removal' = NoSave /\ up' = NoSave
    /\ UNCHANGED <<saveFiles, hidden, written, saveFaults>>

SavesNext ==
    \/ \E u \in Uploaders :
          \/ \E n \in SaveNames : UploadSave(u, n)
          \/ UploadRefused(u) \/ CopyUpload(u) \/ RenameUpload(u) \/ MoveSaveAside(u)
          \/ PlaceUpload(u) \/ MoveSaveBack(u) \/ RemoveReplaced(u)
    \/ RemoveSave \/ RemoveSaveFails \/ WorldGenerated \/ ShowWorld \/ CreateWorldFails
    \/ \E n \in SaveNames : FindSave(n) \/ BeginWorld(n) \/ EndServer(n)
    \/ \E n \in SavePlaces : StartSave(n)
    \/ SavesCut

SavesSpec == SavesInit /\ [][SavesNext]_saveVars

----------------------------------------------------------------------------
Saved == {saveFiles[n] : n \in DOMAIN saveFiles \cap SaveNames} \cup {hidden[u] : u \in DOMAIN hidden}

SavesWhole == \A n \in DOMAIN saveFiles \cap SaveNames : saveFiles[n].whole

\* A save goes only by what was asked of its name: it is removed, an upload replaces it,
\* the server saves it.  A world that is created replaces no save that it could have seen,
\* and an upload that fails only what came while it had moved the save aside.
SaveLeaves(n) ==
    \/ removal = n /\ removal' = NoSave
    \/ \E u \in Uploaders : upload[u].name = n /\ upload[u].step \in {"rename", "place"}
                               /\ saveFiles'[n] = saveFiles[u]
    \/ ~Stopped /\ Stopped' /\ saveFiles'[n].at = written'
    \/ creation.step = "rename" /\ creation.name = n /\ saveFiles[n] \notin creation.seen
    \/ \E u \in Uploaders : Uploading(u, "back") /\ saveFiles'[n] = hidden[u]
                               /\ saveFiles[n] # hidden[u]

\* Whatever overlaps, fails or dies, a save that has a name is whole and goes only by what
\* was asked of that name (saves.go:105, world_generation.go:127).
SavesKept ==
    /\ []SavesWhole
    /\ [][\A n \in DOMAIN saveFiles \cap SaveNames : saveFiles[n] \notin Saved' => SaveLeaves(n)]_saveVars
=============================================================================
