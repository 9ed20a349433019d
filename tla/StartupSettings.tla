--------------------------- MODULE StartupSettings ---------------------------
(***************************************************************************)
(* The startup settings of the mods (factorio/mod_startup_settings.go,     *)
(* mod_startup_revision.go, mod_startup_settings_export.go).  A form shows *)
(* what Factorio makes of mod-settings.dat, and is sent back with the      *)
(* revision it was made from.  An update lets Factorio evaluate the file   *)
(* as it would become, looks at the revision again and replaces the file.  *)
(* Evaluations take minutes and are remembered by revision.                *)
(* One operation runs at a time, nothing else of the manager changes these *)
(* files meanwhile and the server is down (LockCoordination); somebody may *)
(* edit the files of the volume by hand at any time.                       *)
(***************************************************************************)
EXTENDS Naturals, FiniteSets

CONSTANTS
    Editors,           \* administrators, each with a form
    Options,           \* names of startup settings
    OptionValues, Unset,
    OptionOf,          \* the mod that defines a setting
    Default,           \* the default of the settings
    Surroundings,      \* an active profile with its exact release
    Strict, ExtremeIn, \* a mod that excludes values; which they are in each surrounding
    Evaluations,       \* how many are remembered
    NoForm,
    MaxEvents, MaxEdited, MaxStartupFaults   \* bounds

ASSUME StartupConstants ==
    /\ Unset \notin OptionValues /\ Default \in OptionValues /\ Evaluations \in Nat \ {0}
    /\ \A c \in Surroundings : Default \notin ExtremeIn[c]

VARIABLES
    settingsFile,  \* mod-settings.dat
    enabledMods,   \* mod-list.json and the archives of the enabled mods
    surrounding,   \* the active profile and the installed release
    remembered,    \* modStartupSettingsCache
    forms,         \* the view each editor got last
    editing,       \* the operation that holds modStartupSettingsOperationMutex
    sent, edited, startupFaults   \* counters

startupFiles == <<settingsFile, enabledMods, surrounding>>
startupCounters == <<sent, edited, startupFaults>>
startupVars == <<startupFiles, remembered, forms, editing, startupCounters>>

OptionMods == {OptionOf[n] : n \in Options} \cup {Strict}
SettingsFiles == [Options -> OptionValues \cup {Unset}]
Values == UNION {[S -> OptionValues] : S \in SUBSET Options}

NoSettings == [n \in Options |-> Unset]   \* there is no file

\* modStartupSettingsRevision hashes all of it.
RevisionOf(c, mods, file) == [around |-> c, mods |-> mods, file |-> file]
Revisions == [around : Surroundings, mods : SUBSET OptionMods, file : SettingsFiles]

\* What Factorio makes of a file: the settings of the enabled mods, each with the stored
\* value, or with its default when nothing is stored or the value is not allowed.
Evaluated(r) ==
    LET allowed == IF Strict \in r.mods THEN OptionValues \ ExtremeIn[r.around]
                   ELSE OptionValues
    IN  [n \in {m \in Options : OptionOf[m] \in r.mods} |->
            IF r.file[n] \in allowed THEN r.file[n] ELSE Default]

\* shaky is a history field: the files were edited while the view was made.
View(revision, values, shaky) == [revision |-> revision, values |-> values, shaky |-> shaky]

\* No operation.  late, a history field too: they were edited since the revision was
\* looked at for the last time.
Unlocked == [step |-> "none", who |-> NoForm, name |-> NoForm, value |-> Unset,
             file |-> NoSettings, revision |-> NoForm, view |-> NoForm,
             shaky |-> FALSE, late |-> FALSE]

StartupTypeOK ==
    /\ settingsFile \in SettingsFiles /\ enabledMods \subseteq OptionMods
    /\ surrounding \in Surroundings
    /\ DOMAIN remembered \subseteq Revisions /\ Cardinality(DOMAIN remembered) <= Evaluations
    /\ \A r \in DOMAIN remembered : remembered[r].revision = r /\ remembered[r].values \in Values
    /\ \A e \in Editors : forms[e] = NoForm \/ forms[e].revision \in Revisions
    /\ editing.step \in {"none", "revision", "evaluate", "apply", "reload", "compare", "write",
                         "publish"}

StartupInit ==
    /\ settingsFile = NoSettings /\ enabledMods \in SUBSET OptionMods
    /\ surrounding \in Surroundings
    /\ remembered = [r \in {} |-> NoForm] /\ forms = [e \in Editors |-> NoForm]
    /\ editing = Unlocked
    /\ sent = 0 /\ edited = 0 /\ startupFaults = 0

----------------------------------------------------------------------------
Editing(step) == editing.step = step
Advance(step) == editing' = [editing EXCEPT !.step = step]
IsUpdate == editing.name # NoForm
Steady == UNCHANGED startupCounters
AnotherEvent == sent + edited < MaxEvents
StartupFault ==
    /\ startupFaults < MaxStartupFaults /\ startupFaults' = startupFaults + 1
    /\ UNCHANGED <<sent, edited>>

\* A full cache is emptied first.
Remember(view) ==
    LET kept == IF Cardinality(DOMAIN remembered) >= Evaluations THEN {} ELSE DOMAIN remembered
    IN  remembered' = [r \in kept \cup {view.revision} |->
                          IF r = view.revision THEN view ELSE remembered[r]]

\* The operation answers with a view.
Answer(view) ==
    /\ forms' = [forms EXCEPT ![editing.who] = view] /\ editing' = Unlocked

\* GetModStartupSettings and UpdateModStartupSettings; mod-settings.dat is read.
OpenForm(e) ==
    /\ Editing("none") /\ AnotherEvent /\ sent' = sent + 1
    /\ editing' = [Unlocked EXCEPT !.step = "revision", !.who = e, !.file = settingsFile]
    /\ UNCHANGED <<startupFiles, remembered, forms, edited, startupFaults>>

SendForm(e, n, v) ==
    /\ Editing("none") /\ forms[e] # NoForm /\ AnotherEvent /\ sent' = sent + 1
    /\ editing' = [Unlocked EXCEPT !.step = "revision", !.who = e, !.name = n, !.value = v,
                                   !.file = settingsFile]
    /\ UNCHANGED <<startupFiles, remembered, forms, edited, startupFaults>>

\* The mod list and the archives are hashed after it.  A form of another revision is
\* refused as stale.
ReadRevision ==
    /\ Editing("revision") /\ Steady
    /\ LET current == RevisionOf(surrounding, enabledMods, editing.file)
       IN  editing' = IF IsUpdate /\ forms[editing.who].revision # current THEN Unlocked
                      ELSE [editing EXCEPT !.step = "evaluate", !.revision = current]
    /\ UNCHANGED <<startupFiles, remembered, forms>>

\* The schema for the form or for the change, from the cache if it is there.
ViewFromCache ==
    /\ Editing("evaluate") /\ editing.revision \in DOMAIN remembered /\ Steady
    /\ LET view == remembered[editing.revision]
       IN  IF IsUpdate
           THEN /\ editing' = [editing EXCEPT !.step = "apply", !.view = view.values,
                                              !.shaky = @ \/ view.shaky]
                /\ UNCHANGED forms
           ELSE Answer(view)
    /\ UNCHANGED <<startupFiles, remembered>>

\* Factorio takes the mods as they are by now and the settings that were read; without
\* any, those in the directory by now.
EvaluateForm ==
    /\ Editing("evaluate") /\ editing.revision \notin DOMAIN remembered /\ Steady
    /\ LET file == IF editing.file = NoSettings THEN settingsFile ELSE editing.file
           values == Evaluated(RevisionOf(surrounding, enabledMods, file))
           view == View(editing.revision, values, editing.shaky)
       IN  IF IsUpdate
           THEN /\ editing' = [editing EXCEPT !.step = "apply", !.view = values]
                /\ UNCHANGED <<remembered, forms>>
           ELSE Remember(view) /\ Answer(view)
    /\ UNCHANGED startupFiles

Candidate == [editing.revision.file EXCEPT ![editing.name] = editing.value]

\* The change is applied to what was read, and Factorio evaluates that; it must know the
\* setting before and after, and keep the value.
ValidateCandidate ==
    /\ Editing("apply") /\ Steady
    /\ LET values == Evaluated(RevisionOf(surrounding, enabledMods, Candidate))
       IN  IF editing.name \in DOMAIN editing.view \cap DOMAIN values
              /\ values[editing.name] = editing.value
           THEN editing' = [editing EXCEPT !.step = "reload", !.view = values]
           ELSE editing' = Unlocked
    /\ UNCHANGED <<startupFiles, remembered, forms>>

\* The file is loaded once more, and the mods are hashed once more.
ReloadSettings ==
    /\ Editing("reload") /\ Steady
    /\ editing' = [editing EXCEPT !.step = "compare", !.file = settingsFile, !.late = FALSE]
    /\ UNCHANGED <<startupFiles, remembered, forms>>

\* Mutant of CompareRevision: the settings alone are compared.
CompareSettings ==
    /\ Editing("compare") /\ Steady
    /\ IF editing.revision.file = editing.file THEN Advance("write") ELSE editing' = Unlocked
    /\ UNCHANGED <<startupFiles, remembered, forms>>

CompareRevision ==
    /\ Editing("compare") /\ Steady
    /\ IF editing.revision = RevisionOf(surrounding, enabledMods, editing.file)
       THEN Advance("write") ELSE editing' = Unlocked
    /\ UNCHANGED <<startupFiles, remembered, forms>>

\* writeFileAtomically
WriteSettings ==
    /\ Editing("write")
    /\ \/ settingsFile' = Candidate /\ Advance("publish") /\ Steady
       \/ UNCHANGED settingsFile /\ editing' = Unlocked /\ StartupFault
    /\ UNCHANGED <<enabledMods, surrounding, remembered, forms>>

\* The revision of what was written is the key for what Factorio made of it.
PublishView ==
    /\ Editing("publish") /\ Steady
    /\ LET written == RevisionOf(surrounding, enabledMods, Candidate)
           view == View(written, editing.view, editing.shaky)
       IN  Remember(view) /\ Answer(view)
    /\ UNCHANGED startupFiles

\* A file that cannot be read, an evaluation that Factorio does not complete, a value that
\* the definition does not allow: the operation ends there.
StartupFails ==
    /\ ~Editing("none") /\ ~Editing("write") /\ editing' = Unlocked /\ StartupFault
    /\ UNCHANGED <<startupFiles, remembered, forms>>

----------------------------------------------------------------------------
(* What changes the files otherwise                                        *)

\* By hand, at any time; or by the manager, which switches the profile, installs a release
\* or mods, and is started again: the operation above must not be under way.
EditOutside ==
    /\ edited < MaxEdited /\ AnotherEvent /\ edited' = edited + 1
    /\ UNCHANGED <<sent, startupFaults>>
    /\ editing' = IF Editing("none") THEN Unlocked
                  ELSE [editing EXCEPT !.shaky = TRUE, !.late = TRUE]
    /\ UNCHANGED <<remembered, forms>>
EditMods(mods) ==
    /\ EditOutside /\ mods # enabledMods
    /\ enabledMods' = mods /\ UNCHANGED <<settingsFile, surrounding>>
EditSettings(n, v) ==
    /\ EditOutside /\ settingsFile[n] # v
    /\ settingsFile' = [settingsFile EXCEPT ![n] = v] /\ UNCHANGED <<enabledMods, surrounding>>
Reconfigure(c, mods) ==
    /\ EditOutside /\ Editing("none") /\ c # surrounding
    /\ surrounding' = c /\ enabledMods' = mods
    /\ settingsFile' \in {settingsFile, NoSettings}

ManagerRestarts ==
    /\ edited < MaxEdited /\ AnotherEvent /\ edited' = edited + 1
    /\ UNCHANGED <<sent, startupFaults>>
    /\ editing' = Unlocked /\ remembered' = [r \in {} |-> NoForm]
    /\ UNCHANGED <<startupFiles, forms>>

----------------------------------------------------------------------------
StartupNext ==
    \/ \E e \in Editors : \/ OpenForm(e)
                          \/ \E n \in Options, v \in OptionValues : SendForm(e, n, v)
    \/ ReadRevision \/ ViewFromCache \/ EvaluateForm \/ ValidateCandidate
    \/ ReloadSettings \/ CompareRevision \/ WriteSettings \/ PublishView \/ StartupFails
    \/ \E mods \in SUBSET OptionMods : EditMods(mods)
    \/ \E n \in Options, v \in OptionValues \cup {Unset} : EditSettings(n, v)
    \/ \E c \in Surroundings, mods \in SUBSET OptionMods : Reconfigure(c, mods)
    \/ ManagerRestarts

StartupSpec == StartupInit /\ [][StartupNext]_startupVars

----------------------------------------------------------------------------
\* What is remembered or shown for a revision is what Factorio makes of that revision,
\* unless somebody edited the files during the evaluation (mod_startup_settings.go:108).
ViewsTrue ==
    \A view \in {forms[e] : e \in Editors} \cup {remembered[r] : r \in DOMAIN remembered} :
        view # NoForm /\ ~view.shaky => view.values = Evaluated(view.revision)

\* An update is made to the profile, release, mods and settings its form was made from,
\* edits by hand between the two included: it changes the one setting.  And what Factorio
\* makes of the new file has the value that was asked for, unless the files were edited and
\* put back while it ran (mod_startup_settings.go:155).
UpdateAsShown ==
    [][Editing("write") /\ editing'.step = "publish" =>
          LET form == forms[editing.who]
              written == RevisionOf(surrounding, enabledMods, settingsFile')
          IN
          /\ ~editing.late => RevisionOf(surrounding, enabledMods, settingsFile) = form.revision
          /\ \A n \in Options \ {editing.name} : settingsFile'[n] = form.revision.file[n]
          /\ ~editing.shaky => Evaluated(written)[editing.name] = editing.value
      ]_startupVars

\* Forms, the cache and the file go together whatever happens in the minutes between.
StartupSound == UpdateAsShown /\ []ViewsTrue
=============================================================================
