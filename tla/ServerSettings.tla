--------------------------- MODULE ServerSettings ---------------------------
(***************************************************************************)
(* The settings of the server are two files, server-settings.json and      *)
(* server-adminlist.json, and what the server has loaded of them           *)
(* (factorio/server_settings.go, server_config.go).  An update replaces    *)
(* one file after the other (atomic_file.go) and puts the first one back   *)
(* when the second cannot be written.  The lifecycle mutex lets one update *)
(* or reload run at a time, while the server is stopped.                   *)
(***************************************************************************)
EXTENDS Naturals

CONSTANTS
    Bodies, Example,      \* settings without the admins; those Factorio brings along
    AdminLists, NoAdmins, \* arrays of names; the empty one
    Null,                 \* what is written for settings without an array of names
    Absent,               \* no such file
    MaxUpdates, MaxWriteFaults, MaxSettingsCrashes   \* bounds

ASSUME SettingsConstants ==
    /\ Example \in Bodies /\ NoAdmins \in AdminLists
    /\ Null \notin AdminLists /\ Absent \notin AdminLists \cup {Null}
    /\ Absent \notin [body : Bodies, admins : AdminLists \cup {Null}]

VARIABLES
    config,   \* the two files
    spare,    \* ".fsm-backup-*": the old file, while the new one is placed without it
    served,   \* Server.Settings
    update,   \* UpdateServerSettings: its step, which write that is, old and new settings
    updates, writeFaults, settingsCrashes   \* counters

settingsVars == <<config, spare, served, update, updates, writeFaults, settingsCrashes>>

Document(b, a) == [body |-> b, admins |-> a]
Documents == [body : Bodies, admins : AdminLists \cup {Null}]
Rewriting == {"write", "rename", "aside", "place", "back", "tidy"}

ServerSettingsTypeOK ==
    /\ config.settings \in Documents \cup {Absent}
    /\ config.admins \in AdminLists \cup {Null, Absent}
    /\ spare \in Documents \cup AdminLists \cup {Null, Absent} /\ served \in Documents
    /\ update.step \in {"none", "remove", "down"} \cup Rewriting
    /\ update.phase \in {"settings", "admins", "undo"}
    /\ update.new \in Documents /\ update.old \in Documents \cup {Absent}
    /\ update.torn \in BOOLEAN     \* history: a recovery failed, the files are half updated
    /\ update.cut \in BOOLEAN      \* history: the manager died during an update

ServerSettingsInit ==
    /\ served = Document(Example, NoAdmins)
    /\ config = [settings |-> served, admins |-> NoAdmins] /\ spare = Absent
    /\ update = [step |-> "none", phase |-> "settings", new |-> served, old |-> Absent,
                 torn |-> FALSE, cut |-> FALSE]
    /\ updates = 0 /\ writeFaults = 0 /\ settingsCrashes = 0

Written == UNCHANGED <<updates, writeFaults, settingsCrashes>>
WriteFault ==
    /\ writeFaults < MaxWriteFaults /\ writeFaults' = writeFaults + 1
    /\ UNCHANGED <<updates, settingsCrashes>>
UpdateAt(step) == update.step = step
Continue(step) == update' = [update EXCEPT !.step = step]

----------------------------------------------------------------------------
(* UpdateServerSettings                                                    *)

UpdateServerSettings(new) ==
    /\ UpdateAt("none") /\ updates < MaxUpdates /\ updates' = updates + 1
    /\ update' = [update EXCEPT !.step = "write", !.phase = "settings",
                      !.new = new, !.old = config.settings]
    /\ UNCHANGED <<config, spare, served, writeFaults, settingsCrashes>>

\* After the settings the admins, after those the server.
Rewritten ==
    CASE update.phase = "settings" ->
           /\ update' = [update EXCEPT !.step = "write", !.phase = "admins"]
           /\ UNCHANGED served
      [] update.phase = "admins" ->
           served' = update.new /\ update' = [update EXCEPT !.step = "none", !.torn = FALSE]
      [] update.phase = "undo" -> UNCHANGED served /\ Continue("none")

\* Mutant of Undo: an error of the admin list leaves the settings that were written.
NoUndo == [update EXCEPT !.step = "none"]
\* restoreOptionalFile
Undo == [update EXCEPT !.phase = "undo",
             !.step = IF update.old = Absent THEN "remove" ELSE "write"]

\* The write of this file ends with an error; the old file may be lost by it.
NotRewritten(lost) ==
    LET next == CASE update.phase = "settings" -> [update EXCEPT !.step = "none"]
                  [] update.phase = "admins"   -> Undo
                  [] update.phase = "undo"     -> [update EXCEPT !.step = "none", !.torn = TRUE]
    IN  update' = [next EXCEPT !.torn = @ \/ lost] /\ UNCHANGED served

RemoveSettings ==
    /\ UpdateAt("remove") /\ UNCHANGED <<spare, served>>
    /\ \/ config' = [config EXCEPT !.settings = Absent] /\ Continue("none") /\ Written
       \/ UNCHANGED config /\ WriteFault
          /\ update' = [update EXCEPT !.step = "none", !.torn = TRUE]

----------------------------------------------------------------------------
(* writeFileAtomically                                                     *)

Name == IF update.phase = "admins" THEN "admins" ELSE "settings"
Payload ==
    CASE update.phase = "settings" -> update.new
      [] update.phase = "admins"   -> update.new.admins
      [] update.phase = "undo"     -> update.old
Rewrite == config' = [config EXCEPT ![Name] = Payload]

WriteTemporary ==
    /\ UpdateAt("write") /\ UNCHANGED <<config, spare>>
    /\ \/ Continue("rename") /\ UNCHANGED served /\ Written
       \/ NotRewritten(FALSE) /\ WriteFault

RenameTemporary ==
    /\ UpdateAt("rename") /\ UNCHANGED spare
    /\ \/ Rewrite /\ Rewritten /\ Written
       \/ /\ UNCHANGED config /\ WriteFault
          /\ IF config[Name] = Absent THEN NotRewritten(FALSE)
             ELSE Continue("aside") /\ UNCHANGED served

\* replaceFileWithRollback, where a rename does not replace a file.
MoveAside ==
    /\ UpdateAt("aside")
    /\ \/ /\ spare' = config[Name] /\ config' = [config EXCEPT ![Name] = Absent]
          /\ Continue("place") /\ UNCHANGED served /\ Written
       \/ NotRewritten(FALSE) /\ UNCHANGED <<config, spare>> /\ WriteFault

PlaceTemporary ==
    /\ UpdateAt("place") /\ UNCHANGED <<spare, served>>
    /\ \/ Rewrite /\ Continue("tidy") /\ Written
       \/ UNCHANGED config /\ Continue("back") /\ WriteFault

\* The deferred removal takes the old file too when it could not be moved back.
MoveBack ==
    /\ UpdateAt("back") /\ spare' = Absent
    /\ \/ config' = [config EXCEPT ![Name] = spare] /\ NotRewritten(FALSE) /\ Written
       \/ UNCHANGED config /\ NotRewritten(TRUE) /\ WriteFault

\* An error here is only logged.
RemoveSpare ==
    /\ UpdateAt("tidy") /\ spare' = Absent /\ Rewritten
    /\ UNCHANGED config /\ Written

----------------------------------------------------------------------------
(* Files of another profile; a crash and the start of the manager.         *)

\* What is served of the files.
Loaded(files) ==
    [files.settings EXCEPT !.admins = IF files.admins = Absent THEN NoAdmins ELSE files.admins]

\* ReloadFactorioServerProfile, after the switch has exchanged the files: a list that is
\* no array of names is refused and the switch undone.
ReloadProfile(files) ==
    /\ UpdateAt("none") /\ updates < MaxUpdates /\ updates' = updates + 1
    /\ files.admins # Null
    /\ config' = files /\ served' = Loaded(files)
    /\ update' = [update EXCEPT !.torn = FALSE, !.cut = FALSE]
    /\ UNCHANGED <<spare, writeFaults, settingsCrashes>>

SettingsCut ==
    /\ ~UpdateAt("down") /\ settingsCrashes < MaxSettingsCrashes
    /\ settingsCrashes' = settingsCrashes + 1
    /\ update' = [update EXCEPT !.step = "down", !.cut = ~UpdateAt("none")]
    /\ spare' = Absent
    /\ UNCHANGED <<config, served, updates, writeFaults>>

\* NewFactorioServer writes the files that are missing; it fails with a list that is none.
NewFactorioServer ==
    /\ UpdateAt("down") /\ config.admins # Null
    /\ config' = [settings |-> IF config.settings = Absent THEN Document(Example, NoAdmins)
                               ELSE config.settings,
                  admins |-> IF config.admins = Absent THEN NoAdmins ELSE config.admins]
    /\ served' = Loaded(config')
    /\ update' = [update EXCEPT !.step = "none", !.torn = FALSE, !.cut = FALSE]
    /\ UNCHANGED spare /\ Written

ServerSettingsNext ==
    \/ \E new \in Documents : UpdateServerSettings(new)
    \/ WriteTemporary \/ RenameTemporary \/ MoveAside \/ PlaceTemporary \/ MoveBack
    \/ RemoveSpare \/ RemoveSettings
    \/ \E d \in Documents, a \in AdminLists \cup {Null, Absent} :
          ReloadProfile([settings |-> d, admins |-> a])
    \/ SettingsCut \/ NewFactorioServer

ServerSettingsSpec == ServerSettingsInit /\ [][ServerSettingsNext]_settingsVars

----------------------------------------------------------------------------
\* Between updates the files hold what the server serves, whichever single write failed:
\* only a rollback that failed itself leaves one file new and the other old; and the
\* settings are never missing but while, or because, the fallback for platforms without a
\* replacing rename was cut or failed (server_settings.go:61, atomic_file.go:72).
SettingsAgree ==
    /\ UpdateAt("none") /\ ~update.torn =>
          config.settings # Absent /\ served = Loaded(config)
    /\ config.settings = Absent =>
          \/ UpdateAt("place") \/ UpdateAt("back") \/ UpdateAt("remove")
          \/ update.torn \/ update.cut
    /\ update.torn => writeFaults > 1
=============================================================================
