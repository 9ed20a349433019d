---------------------------- MODULE StoresProofs ----------------------------
(***************************************************************************)
(* Proofs about what is stored beside the profiles.                        *)
(*                                                                         *)
(* ServerSettings, for any settings and lists of admins and any number of  *)
(* updates, failed writes and crashes: the two files agree with each other *)
(* and with what the server serves.                                        *)
(*                                                                         *)
(* StartupSettings, for any settings, values, mods and editors and any     *)
(* number of edits, failures and restarts: the views are what Factorio     *)
(* makes of their revisions, and an update changes what its form showed.   *)
(*                                                                         *)
(* ProfileImport, for any profiles and backups, and any number of imports, *)
(* failures and crashes: an import adds whole profiles or none.            *)
(*                                                                         *)
(* MapSnapshots, for any profiles and any number of jobs, failures and     *)
(* crashes: a map that was stored is there, whole.                         *)
(*                                                                         *)
(* ModPacks, for any packs, requests and archives, and any number of       *)
(* requests, failures and crashes: a pack is what was asked of it.         *)
(*                                                                         *)
(* Saves, for any names, requests and number of writes, failures and       *)
(* crashes: a save with a name is whole, and goes only as it was asked.    *)
(*                                                                         *)
(* ModPackMerge, for any mods, packs and games that change and change      *)
(* back: a merge is the one that was reviewed, and it loads.               *)
(*                                                                         *)
(* ModList, for any archives, lists and number of overlapping requests,    *)
(* failures and restarts: the mods change only as it was asked.            *)
(*                                                                         *)
(* ModPlan, for any portal, installed mods, requests and limits: a plan    *)
(* meets every requirement of every mod in it, what it installs works, and *)
(* planning and installing come to an end.                                 *)
(*                                                                         *)
(* MCStores: in the composed run each store behaves as it does by itself,  *)
(* so what is proved of it holds there.                                    *)
(***************************************************************************)
EXTENDS MCStores, CheckpointsProofs, ReleaseInstallProofs

-----------------------------------------------------------------------------
(* ServerSettings: the inductive invariant.                                *)

AdminValues == AdminLists \cup {Null, Absent}
Files == [settings : Documents \cup {Absent}, admins : AdminValues]
UpdateRecords == [step : {"none", "remove", "down"} \cup Rewriting,
                  phase : {"settings", "admins", "undo"}, new : Documents,
                  old : Documents \cup {Absent}, torn : BOOLEAN, cut : BOOLEAN]

SettingsTyped ==
    /\ config \in Files /\ spare \in Documents \cup AdminValues /\ served \in Documents
    /\ update \in UpdateRecords /\ writeFaults \in Nat

Updating == update.step \in Rewriting \cup {"remove"}

\* The admins as they were when the update began, until they are replaced.
OldAdmins == IF update.phase = "admins" /\ update.step \in {"place", "back"} THEN spare
             ELSE config.admins

\* What an update began with is what the server still serves.
ServesOld ==
    Updating /\ ~update.torn /\ ~(update.phase = "admins" /\ update.step = "tidy") =>
        /\ update.old # Absent
        /\ served = Loaded([settings |-> update.old, admins |-> OldAdmins])

\* Where the settings are in each phase.
SettingsPhase ==
    Updating /\ update.phase = "settings" =>
        /\ update.step \in {"write", "rename", "aside"} => config.settings = update.old
        /\ update.step \in {"place", "back"} => config.settings = Absent /\ spare = update.old
        /\ update.step = "tidy" => config.settings = update.new
        /\ update.step # "remove"
AdminsPhase ==
    Updating /\ update.phase = "admins" =>
        /\ config.settings = update.new /\ update.step # "remove"
        /\ update.step \in {"place", "back"} => spare \in AdminValues
        /\ update.step = "tidy" => config.admins = update.new.admins
UndoPhase ==
    Updating /\ update.phase = "undo" =>
        /\ update.step \in {"write", "rename", "aside", "remove"} => config.settings # Absent
        /\ update.step \in {"place", "back"} => spare \in Documents
        /\ update.step = "tidy" => config.settings = update.old
        /\ update.step = "remove" <=> update.old = Absent

AtRest ==
    /\ UpdateAt("none") /\ ~update.torn => config.settings # Absent /\ served = Loaded(config)
    /\ UpdateAt("down") /\ config.settings = Absent => update.torn \/ update.cut

\* How many writes have failed where the update is.
Failed ==
    /\ update.torn => writeFaults > 1
    /\ Updating /\ update.phase = "undo" => writeFaults > 0
    /\ update.step \in {"aside", "place"} => writeFaults > 0
    /\ update.step = "back" => writeFaults > 1

SettingsInv ==
    /\ SettingsTyped /\ ServesOld /\ SettingsPhase /\ AdminsPhase /\ UndoPhase /\ AtRest /\ Failed

-----------------------------------------------------------------------------
(* What is loaded.                                                         *)

LEMMA LoadedTyped ==
    ASSUME NEW files, files.settings \in Documents, files.admins \in AdminValues
    PROVE  Loaded(files) \in Documents
BY SettingsConstants DEF Loaded, Documents, AdminValues

LEMMA LoadedNew ==
    ASSUME NEW new \in Documents, NEW files, files.settings = new, files.admins = new.admins
    PROVE  Loaded(files) = new
<1>1. new.admins # Absent /\ new = [body |-> new.body, admins |-> new.admins]
  BY SettingsConstants DEF Documents
<1> QED
  BY <1>1 DEF Loaded

LEMMA NeverAbsent == Absent \notin Documents
BY SettingsConstants DEF Documents

LEMMA SettingsStart == ServerSettingsInit => SettingsInv
<1> SUFFICES ASSUME ServerSettingsInit PROVE SettingsInv
  OBVIOUS
<1>1. served \in Documents /\ served.admins = NoAdmins
  BY SettingsConstants DEF ServerSettingsInit, Document, Documents
<1>2. config = [settings |-> served, admins |-> NoAdmins]
  BY DEF ServerSettingsInit
<1>3. SettingsTyped
  BY <1>1, <1>2, SettingsConstants
     DEF ServerSettingsInit, SettingsTyped, Files, AdminValues, UpdateRecords
<1>4. served = Loaded(config)
  BY <1>1, <1>2, LoadedNew
<1>5. update.step = "none" /\ ~update.torn
  BY DEF ServerSettingsInit
<1> QED
  BY <1>1, <1>2, <1>3, <1>4, <1>5, NeverAbsent
     DEF SettingsInv, ServesOld, SettingsPhase, AdminsPhase, UndoPhase, AtRest, Failed, Updating,
         Rewriting, UpdateAt

-----------------------------------------------------------------------------
(* One lemma per kind of step.                                             *)

\* The records and their fields.
LEMMA Fields ==
    ASSUME SettingsInv
    PROVE  /\ config = [settings |-> config.settings, admins |-> config.admins]
           /\ config.settings \in Documents \cup {Absent} /\ config.admins \in AdminValues
           /\ update = [step |-> update.step, phase |-> update.phase, new |-> update.new,
                        old |-> update.old, torn |-> update.torn, cut |-> update.cut]
           /\ update.phase \in {"settings", "admins", "undo"} /\ update.torn \in BOOLEAN
           /\ update.step \in {"none", "remove", "down"} \cup Rewriting
           /\ update.new \in Documents /\ update.old \in Documents \cup {Absent}
           /\ update.new.admins \in AdminValues /\ update.cut \in BOOLEAN
           /\ writeFaults \in Nat /\ served \in Documents /\ spare \in Documents \cup AdminValues
BY DEF SettingsInv, SettingsTyped, Files, UpdateRecords, Documents, AdminValues

\* An update that is over keeps what AtRest says of it.
LEMMA Over ==
    ASSUME SettingsTyped', update'.step = "none",
           ~update'.torn => config'.settings # Absent /\ served' = Loaded(config'),
           update'.torn => writeFaults' > 1
    PROVE  SettingsInv'
BY DEF SettingsInv, ServesOld, SettingsPhase, AdminsPhase, UndoPhase, AtRest, Failed, Updating,
       Rewriting, UpdateAt

LEMMA BeginUpdate ==
    ASSUME SettingsInv, NEW new \in Documents, UpdateServerSettings(new) PROVE SettingsInv'
<1> USE Fields
<1>1. /\ update' = [step |-> "write", phase |-> "settings", new |-> new, old |-> config.settings,
                    torn |-> update.torn, cut |-> update.cut]
      /\ UpdateAt("none") /\ UNCHANGED <<config, spare, served, writeFaults>>
  BY DEF UpdateServerSettings
<1>2. SettingsTyped'
  BY <1>1 DEF SettingsInv, SettingsTyped, UpdateRecords, Rewriting
<1>3. ~update.torn => config.settings # Absent /\ served = Loaded(config)
  BY <1>1 DEF SettingsInv, AtRest
<1>4. ServesOld'
  BY <1>1, <1>3 DEF ServesOld, OldAdmins
<1>5. SettingsPhase' /\ AdminsPhase' /\ UndoPhase' /\ AtRest'
  BY <1>1 DEF SettingsPhase, AdminsPhase, UndoPhase, AtRest, UpdateAt
<1>6. Failed'
  BY <1>1 DEF SettingsInv, Failed
<1> QED
  BY <1>2, <1>4, <1>5, <1>6 DEF SettingsInv

\* A write that ends with an error before it has touched its file.
LEMMA NotWritten ==
    ASSUME SettingsInv, NotRewritten(FALSE), update.step \in {"write", "rename", "aside"},
           UNCHANGED <<config, spare>>, writeFaults' = writeFaults + 1
    PROVE  SettingsInv'
<1> USE Fields
<1>1. CASE update.phase = "settings"
  <2>1. /\ update' = [step |-> "none", phase |-> "settings", new |-> update.new,
                      old |-> update.old, torn |-> update.torn, cut |-> update.cut]
        /\ served' = served
    BY <1>1 DEF NotRewritten
  <2>2. SettingsTyped'
    BY <2>1 DEF SettingsInv, SettingsTyped, UpdateRecords
  <2>3. ~update.torn => config.settings # Absent /\ served = Loaded(config)
    BY <1>1 DEF SettingsInv, ServesOld, SettingsPhase, Updating, Rewriting, OldAdmins
  <2>4. update.torn => writeFaults > 1
    BY DEF SettingsInv, Failed
  <2> QED
    BY <2>1, <2>2, <2>3, <2>4, Over
<1>2. CASE update.phase = "admins"
  <2> DEFINE next == IF update.old = Absent THEN "remove" ELSE "write"
  <2>1. /\ update' = [step |-> next, phase |-> "undo", new |-> update.new,
                      old |-> update.old, torn |-> update.torn, cut |-> update.cut]
        /\ served' = served
    BY <1>2 DEF NotRewritten, Undo
  <2>2. SettingsTyped'
    BY <2>1 DEF SettingsInv, SettingsTyped, UpdateRecords, Rewriting
  <2>3. ~update.torn => /\ update.old # Absent
                        /\ served = Loaded([settings |-> update.old, admins |-> config.admins])
    BY <1>2 DEF SettingsInv, ServesOld, Updating, Rewriting, OldAdmins
  <2>4. ServesOld'
    BY <2>1, <2>3 DEF ServesOld, OldAdmins
  <2>5. config.settings # Absent
    BY <1>2, NeverAbsent DEF SettingsInv, AdminsPhase, Updating, Rewriting
  <2>6. SettingsPhase' /\ AdminsPhase' /\ UndoPhase' /\ AtRest'
    BY <2>1, <2>5 DEF SettingsPhase, AdminsPhase, UndoPhase, AtRest, UpdateAt
  <2>7. Failed'
    BY <2>1 DEF SettingsInv, Failed
  <2> QED
    BY <2>2, <2>4, <2>6, <2>7 DEF SettingsInv
<1>3. CASE update.phase = "undo"
  <2>1. /\ update' = [step |-> "none", phase |-> "undo", new |-> update.new,
                      old |-> update.old, torn |-> TRUE, cut |-> update.cut]
        /\ served' = served
    BY <1>3 DEF NotRewritten
  <2>2. SettingsTyped'
    BY <2>1 DEF SettingsInv, SettingsTyped, UpdateRecords
  <2>3. writeFaults > 0
    BY <1>3 DEF SettingsInv, Failed, Updating, Rewriting
  <2> QED
    BY <2>1, <2>2, <2>3, Over
<1> QED
  BY <1>1, <1>2, <1>3

\* A file has been replaced.
LEMMA Wrote ==
    ASSUME SettingsInv, Rewrite, Rewritten, update.step \in {"rename", "tidy"},
           spare' \in {spare, Absent}, UNCHANGED writeFaults
    PROVE  SettingsInv'
<1> USE Fields
<1>1. CASE update.phase = "settings"
  <2>1. /\ update' = [step |-> "write", phase |-> "admins", new |-> update.new,
                      old |-> update.old, torn |-> update.torn, cut |-> update.cut]
        /\ config' = [settings |-> update.new, admins |-> config.admins]
        /\ served' = served
    BY <1>1 DEF Rewritten, Rewrite, Name, Payload
  <2>2. SettingsTyped'
    BY <2>1 DEF SettingsInv, SettingsTyped, UpdateRecords, Rewriting, Files, AdminValues
  <2>3. ServesOld'
    BY <1>1, <2>1 DEF SettingsInv, ServesOld, OldAdmins, Updating, Rewriting
  <2>4. SettingsPhase' /\ AdminsPhase' /\ UndoPhase' /\ AtRest'
    BY <2>1 DEF SettingsPhase, AdminsPhase, UndoPhase, AtRest, UpdateAt
  <2>5. Failed'
    BY <2>1 DEF SettingsInv, Failed
  <2> QED
    BY <2>2, <2>3, <2>4, <2>5 DEF SettingsInv
<1>2. CASE update.phase = "admins"
  <2>1. /\ update' = [step |-> "none", phase |-> "admins", new |-> update.new,
                      old |-> update.old, torn |-> FALSE, cut |-> update.cut]
        /\ config' = [settings |-> update.new, admins |-> update.new.admins]
        /\ served' = update.new
    BY <1>2 DEF Rewritten, Rewrite, Name, Payload, SettingsInv, AdminsPhase, Updating, Rewriting
  <2>2. SettingsTyped'
    BY <2>1 DEF SettingsInv, SettingsTyped, UpdateRecords, Files, AdminValues
  <2>3. config'.settings # Absent /\ served' = Loaded(config')
    BY <2>1, LoadedNew, NeverAbsent
  <2> QED
    BY <2>1, <2>2, <2>3, Over
<1>3. CASE update.phase = "undo"
  <2>1. /\ update' = [step |-> "none", phase |-> "undo", new |-> update.new,
                      old |-> update.old, torn |-> update.torn, cut |-> update.cut]
        /\ config' = [settings |-> update.old, admins |-> config.admins]
        /\ served' = served
    BY <1>3 DEF Rewritten, Rewrite, Name, Payload, Continue
  <2>2. SettingsTyped'
    BY <2>1 DEF SettingsInv, SettingsTyped, UpdateRecords, Files, AdminValues
  <2>3. ~update.torn => config'.settings # Absent /\ served' = Loaded(config')
    BY <1>3, <2>1 DEF SettingsInv, ServesOld, OldAdmins, Updating, Rewriting
  <2>4. update.torn => writeFaults > 1
    BY DEF SettingsInv, Failed
  <2> QED
    BY <2>1, <2>2, <2>3, <2>4, Over
<1> QED
  BY <1>1, <1>2, <1>3

LEMMA WriteKeeps == ASSUME SettingsInv, WriteTemporary PROVE SettingsInv'
<1> USE Fields
<1>1. CASE Continue("rename") /\ UNCHANGED served /\ Written
  <2>1. /\ update' = [step |-> "rename", phase |-> update.phase, new |-> update.new,
                      old |-> update.old, torn |-> update.torn, cut |-> update.cut]
        /\ update.step = "write" /\ UNCHANGED <<config, spare, served, writeFaults>>
    BY <1>1 DEF WriteTemporary, Continue, Written, UpdateAt
  <2>2. SettingsTyped'
    BY <2>1 DEF SettingsInv, SettingsTyped, UpdateRecords, Rewriting
  <2>3. ServesOld' /\ Failed'
    BY <2>1 DEF SettingsInv, ServesOld, OldAdmins, Failed, Updating, Rewriting
  <2>4. SettingsPhase' /\ AdminsPhase' /\ UndoPhase' /\ AtRest'
    BY <2>1 DEF SettingsInv, SettingsPhase, AdminsPhase, UndoPhase, AtRest, UpdateAt, Updating,
                Rewriting
  <2> QED
    BY <2>2, <2>3, <2>4 DEF SettingsInv
<1>2. CASE NotRewritten(FALSE) /\ WriteFault
  BY <1>2, NotWritten DEF WriteTemporary, WriteFault, UpdateAt
<1> QED
  BY <1>1, <1>2 DEF WriteTemporary

LEMMA RenameKeeps == ASSUME SettingsInv, RenameTemporary PROVE SettingsInv'
<1> USE Fields
<1>1. CASE Rewrite /\ Rewritten /\ Written
  BY <1>1, Wrote DEF RenameTemporary, Written, UpdateAt
<1>2. CASE config[Name] = Absent /\ NotRewritten(FALSE) /\ WriteFault /\ UNCHANGED config
  BY <1>2, NotWritten DEF RenameTemporary, WriteFault, UpdateAt
<1>3. CASE /\ config[Name] # Absent /\ Continue("aside")
           /\ UNCHANGED <<config, served>> /\ WriteFault
  <2>1. /\ update' = [step |-> "aside", phase |-> update.phase, new |-> update.new,
                      old |-> update.old, torn |-> update.torn, cut |-> update.cut]
        /\ update.step = "rename" /\ UNCHANGED <<config, spare, served>>
        /\ writeFaults' = writeFaults + 1
    BY <1>3 DEF RenameTemporary, Continue, WriteFault, UpdateAt
  <2>2. SettingsTyped'
    BY <2>1 DEF SettingsInv, SettingsTyped, UpdateRecords, Rewriting
  <2>3. ServesOld' /\ Failed'
    BY <2>1 DEF SettingsInv, ServesOld, OldAdmins, Failed, Updating, Rewriting
  <2>4. SettingsPhase' /\ AdminsPhase' /\ UndoPhase' /\ AtRest'
    BY <2>1 DEF SettingsInv, SettingsPhase, AdminsPhase, UndoPhase, AtRest, UpdateAt, Updating,
                Rewriting
  <2> QED
    BY <2>2, <2>3, <2>4 DEF SettingsInv
<1> QED
  BY <1>1, <1>2, <1>3 DEF RenameTemporary

LEMMA AsideKeeps == ASSUME SettingsInv, MoveAside PROVE SettingsInv'
<1> USE Fields
<1>1. CASE /\ spare' = config[Name] /\ config' = [config EXCEPT ![Name] = Absent]
           /\ Continue("place") /\ UNCHANGED served /\ Written
  <2>1. /\ update' = [step |-> "place", phase |-> update.phase, new |-> update.new,
                      old |-> update.old, torn |-> update.torn, cut |-> update.cut]
        /\ update.step = "aside" /\ UNCHANGED <<served, writeFaults>>
    BY <1>1 DEF MoveAside, Continue, Written, UpdateAt
  <2>2. /\ update.phase = "admins" =>
             /\ config' = [settings |-> config.settings, admins |-> Absent]
             /\ spare' = config.admins
        /\ update.phase # "admins" =>
             /\ config' = [settings |-> Absent, admins |-> config.admins]
             /\ spare' = config.settings
    BY <1>1 DEF Name
  <2>3. SettingsTyped'
    BY <2>1, <2>2 DEF SettingsInv, SettingsTyped, UpdateRecords, Rewriting, Files, AdminValues
  <2>4. ServesOld' /\ Failed'
    BY <2>1, <2>2 DEF SettingsInv, ServesOld, OldAdmins, Failed, Updating, Rewriting
  <2>5. SettingsPhase' /\ AdminsPhase' /\ UndoPhase' /\ AtRest'
    BY <2>1, <2>2 DEF SettingsInv, SettingsPhase, AdminsPhase, UndoPhase, AtRest, UpdateAt,
                Updating, Rewriting
  <2> QED
    BY <2>3, <2>4, <2>5 DEF SettingsInv
<1>2. CASE NotRewritten(FALSE) /\ UNCHANGED <<config, spare>> /\ WriteFault
  BY <1>2, NotWritten DEF MoveAside, WriteFault, UpdateAt
<1> QED
  BY <1>1, <1>2 DEF MoveAside

LEMMA PlaceKeeps == ASSUME SettingsInv, PlaceTemporary PROVE SettingsInv'
<1> USE Fields
<1>0. update.step = "place" /\ UNCHANGED <<spare, served>>
  BY DEF PlaceTemporary, UpdateAt
<1>1. CASE Rewrite /\ Continue("tidy") /\ Written
  <2>1. /\ update' = [step |-> "tidy", phase |-> update.phase, new |-> update.new,
                      old |-> update.old, torn |-> update.torn, cut |-> update.cut]
        /\ UNCHANGED writeFaults
    BY <1>1 DEF Continue, Written
  <2>2. /\ update.phase = "settings" =>
             config' = [settings |-> update.new, admins |-> config.admins]
        /\ update.phase = "undo" =>
             config' = [settings |-> update.old, admins |-> config.admins]
        /\ update.phase = "admins" =>
             config' = [settings |-> config.settings, admins |-> update.new.admins]
    BY <1>1 DEF Rewrite, Name, Payload
  <2>3. SettingsTyped'
    BY <1>0, <2>1, <2>2 DEF SettingsInv, SettingsTyped, UpdateRecords, Rewriting, Files, AdminValues
  <2>4. ServesOld' /\ Failed'
    BY <1>0, <2>1, <2>2 DEF SettingsInv, ServesOld, OldAdmins, Failed, Updating, Rewriting
  <2>5. SettingsPhase' /\ AdminsPhase' /\ UndoPhase' /\ AtRest'
    BY <1>0, <2>1, <2>2 DEF SettingsInv, SettingsPhase, AdminsPhase, UndoPhase, AtRest, UpdateAt,
                Updating, Rewriting
  <2> QED
    BY <2>3, <2>4, <2>5 DEF SettingsInv
<1>2. CASE UNCHANGED config /\ Continue("back") /\ WriteFault
  <2>1. /\ update' = [step |-> "back", phase |-> update.phase, new |-> update.new,
                      old |-> update.old, torn |-> update.torn, cut |-> update.cut]
        /\ writeFaults' = writeFaults + 1 /\ UNCHANGED config
    BY <1>2 DEF Continue, WriteFault
  <2>2. SettingsTyped'
    BY <1>0, <2>1 DEF SettingsInv, SettingsTyped, UpdateRecords, Rewriting
  <2>3. ServesOld' /\ Failed'
    BY <1>0, <2>1 DEF SettingsInv, ServesOld, OldAdmins, Failed, Updating, Rewriting
  <2>4. SettingsPhase' /\ AdminsPhase' /\ UndoPhase' /\ AtRest'
    BY <1>0, <2>1 DEF SettingsInv, SettingsPhase, AdminsPhase, UndoPhase, AtRest, UpdateAt,
                Updating, Rewriting
  <2> QED
    BY <2>2, <2>3, <2>4 DEF SettingsInv
<1> QED
  BY <1>1, <1>2 DEF PlaceTemporary

LEMMA BackKeeps == ASSUME SettingsInv, MoveBack PROVE SettingsInv'
<1> USE Fields
<1>0. /\ update.step = "back" /\ spare' = Absent /\ served' = served /\ writeFaults > 1
      /\ writeFaults' \in {writeFaults, writeFaults + 1}
  BY DEF MoveBack, UpdateAt, Written, WriteFault, NotRewritten, SettingsInv, Failed
<1>1. PICK lost \in BOOLEAN :
        /\ NotRewritten(lost)
        /\ IF lost THEN config' = config ELSE config' = [config EXCEPT ![Name] = spare]
  BY DEF MoveBack
<1>2. CASE update.phase = "settings"
  <2>1. /\ update' = [step |-> "none", phase |-> "settings", new |-> update.new,
                      old |-> update.old, torn |-> update.torn \/ lost, cut |-> update.cut]
        /\ lost => config' = config
        /\ ~lost => config' = [settings |-> update.old, admins |-> config.admins]
    BY <1>0, <1>1, <1>2 DEF NotRewritten, Name, SettingsInv, SettingsPhase, Updating, Rewriting
  <2>2. SettingsTyped'
    BY <1>0, <2>1 DEF SettingsInv, SettingsTyped, UpdateRecords, Files, AdminValues
  <2>3. ~update'.torn => config'.settings # Absent /\ served' = Loaded(config')
    BY <1>0, <1>2, <2>1 DEF SettingsInv, ServesOld, OldAdmins, Updating, Rewriting
  <2> QED
    BY <1>0, <2>1, <2>2, <2>3, Over
<1>3. CASE update.phase = "admins"
  <2> DEFINE next == IF update.old = Absent THEN "remove" ELSE "write"
  <2>1. /\ update' = [step |-> next, phase |-> "undo", new |-> update.new,
                      old |-> update.old, torn |-> update.torn \/ lost, cut |-> update.cut]
        /\ lost => config' = config
        /\ ~lost => config' = [settings |-> config.settings, admins |-> spare]
    BY <1>1, <1>3 DEF NotRewritten, Undo, Name
  <2>2. /\ config.settings = update.new /\ spare \in AdminValues
    BY <1>0, <1>3 DEF SettingsInv, AdminsPhase, Updating, Rewriting
  <2>3. SettingsTyped'
    BY <1>0, <2>1, <2>2 DEF SettingsInv, SettingsTyped, UpdateRecords, Rewriting, Files, AdminValues
  <2>4. ServesOld'
    BY <1>0, <1>3, <2>1 DEF SettingsInv, ServesOld, OldAdmins, Updating, Rewriting
  <2>5. SettingsPhase' /\ AdminsPhase' /\ UndoPhase' /\ AtRest'
    BY <2>1, <2>2, NeverAbsent DEF SettingsPhase, AdminsPhase, UndoPhase, AtRest, UpdateAt
  <2>6. Failed'
    BY <1>0, <2>1 DEF Failed
  <2> QED
    BY <2>3, <2>4, <2>5, <2>6 DEF SettingsInv
<1>4. CASE update.phase = "undo"
  <2>1. /\ update' = [step |-> "none", phase |-> "undo", new |-> update.new,
                      old |-> update.old, torn |-> TRUE, cut |-> update.cut]
        /\ lost => config' = config
        /\ ~lost => config' = [settings |-> spare, admins |-> config.admins]
    BY <1>1, <1>4 DEF NotRewritten, Name
  <2>2. spare \in Documents
    BY <1>0, <1>4 DEF SettingsInv, UndoPhase, Updating, Rewriting
  <2>3. SettingsTyped'
    BY <1>0, <2>1, <2>2 DEF SettingsInv, SettingsTyped, UpdateRecords, Files, AdminValues
  <2> QED
    BY <1>0, <2>1, <2>3, Over
<1> QED
  BY <1>2, <1>3, <1>4

LEMMA TidyKeeps == ASSUME SettingsInv, RemoveSpare PROVE SettingsInv'
<1> USE Fields
<1>1. update.step = "tidy" /\ config' = config
  BY DEF RemoveSpare, UpdateAt
<1>2. config[Name] = Payload
  BY <1>1 DEF SettingsInv, SettingsPhase, AdminsPhase, UndoPhase, Updating, Rewriting, Name, Payload
<1>3. Rewrite
  BY <1>1, <1>2 DEF Rewrite, Name
<1> QED
  BY <1>1, <1>3, Wrote DEF RemoveSpare, Written

LEMMA RemoveKeeps == ASSUME SettingsInv, RemoveSettings PROVE SettingsInv'
<1> USE Fields
<1>1. update.step = "remove" /\ UNCHANGED <<spare, served>>
  BY DEF RemoveSettings, UpdateAt
<1>2. update.torn /\ update.phase = "undo" /\ writeFaults > 1
  BY <1>1 DEF SettingsInv, ServesOld, SettingsPhase, AdminsPhase, UndoPhase, Failed, Updating
<1>3. /\ update' = [step |-> "none", phase |-> update.phase, new |-> update.new,
                    old |-> update.old, torn |-> TRUE, cut |-> update.cut]
      /\ config' \in {config, [settings |-> Absent, admins |-> config.admins]}
      /\ writeFaults' \in {writeFaults, writeFaults + 1}
  BY <1>2 DEF RemoveSettings, Continue, Written, WriteFault
<1>4. SettingsTyped'
  BY <1>1, <1>3 DEF SettingsInv, SettingsTyped, UpdateRecords, Files
<1> QED
  BY <1>2, <1>3, <1>4, Over

LEMMA ReloadKeeps ==
    ASSUME SettingsInv, NEW d \in Documents, NEW a \in AdminValues,
           ReloadProfile([settings |-> d, admins |-> a])
    PROVE  SettingsInv'
<1> USE Fields
<1>1. /\ update' = [step |-> update.step, phase |-> update.phase, new |-> update.new,
                    old |-> update.old, torn |-> FALSE, cut |-> FALSE]
      /\ update.step = "none" /\ config' = [settings |-> d, admins |-> a]
      /\ served' = Loaded(config') /\ UNCHANGED <<spare, writeFaults>>
  BY DEF ReloadProfile, UpdateAt
<1>2. served' \in Documents
  BY <1>1, LoadedTyped
<1>3. SettingsTyped'
  BY <1>1, <1>2 DEF SettingsInv, SettingsTyped, UpdateRecords, Files
<1> QED
  BY <1>1, <1>3, NeverAbsent, Over

LEMMA CutKeeps == ASSUME SettingsInv, SettingsCut PROVE SettingsInv'
<1> USE Fields
<1>1. /\ update' = [step |-> "down", phase |-> update.phase, new |-> update.new,
                    old |-> update.old, torn |-> update.torn, cut |-> update.step # "none"]
      /\ spare' = Absent /\ UNCHANGED <<config, served, writeFaults>>
  BY DEF SettingsCut, UpdateAt
<1>2. SettingsTyped'
  BY <1>1 DEF SettingsInv, SettingsTyped, UpdateRecords, AdminValues
<1>3. AtRest'
  BY <1>1 DEF SettingsInv, AtRest, UpdateAt
<1>4. Failed'
  BY <1>1 DEF SettingsInv, Failed, Updating, Rewriting
<1> QED
  BY <1>1, <1>2, <1>3, <1>4
     DEF SettingsInv, ServesOld, SettingsPhase, AdminsPhase, UndoPhase, Updating, Rewriting

LEMMA StartKeeps == ASSUME SettingsInv, NewFactorioServer PROVE SettingsInv'
<1> USE Fields
<1>1. /\ update' = [step |-> "none", phase |-> update.phase, new |-> update.new,
                    old |-> update.old, torn |-> FALSE, cut |-> FALSE]
      /\ served' = Loaded(config') /\ UNCHANGED <<spare, writeFaults>>
  BY DEF NewFactorioServer, Written
<1>2. /\ config' = [settings |-> config'.settings, admins |-> config'.admins]
      /\ config'.settings \in Documents /\ config'.admins \in AdminValues
  BY SettingsConstants DEF NewFactorioServer, Document, Documents, AdminValues
<1>3. served' \in Documents
  BY <1>1, <1>2, LoadedTyped
<1>4. SettingsTyped'
  BY <1>1, <1>2, <1>3 DEF SettingsInv, SettingsTyped, UpdateRecords, Files
<1> QED
  BY <1>1, <1>2, <1>4, NeverAbsent, Over

LEMMA SettingsKeep == SettingsInv /\ [ServerSettingsNext]_settingsVars => SettingsInv'
<1> SUFFICES ASSUME SettingsInv, [ServerSettingsNext]_settingsVars PROVE SettingsInv'
  OBVIOUS
<1>1. ASSUME NEW new \in Documents, UpdateServerSettings(new) PROVE SettingsInv'
  BY <1>1, BeginUpdate
<1>2. CASE WriteTemporary \/ RenameTemporary \/ MoveAside
  BY <1>2, WriteKeeps, RenameKeeps, AsideKeeps
<1>3. CASE PlaceTemporary \/ MoveBack \/ RemoveSpare \/ RemoveSettings
  BY <1>3, PlaceKeeps, BackKeeps, TidyKeeps, RemoveKeeps
<1>4. ASSUME NEW d \in Documents, NEW a \in AdminValues,
             ReloadProfile([settings |-> d, admins |-> a])
      PROVE  SettingsInv'
  BY <1>4, ReloadKeeps
<1>5. CASE SettingsCut \/ NewFactorioServer
  BY <1>5, CutKeeps, StartKeeps
<1>6. CASE UNCHANGED settingsVars
  BY <1>6 DEF settingsVars, SettingsInv, SettingsTyped, ServesOld, OldAdmins, SettingsPhase,
              AdminsPhase, UndoPhase, AtRest, Failed, Updating, UpdateAt
<1> QED
  BY <1>1, <1>2, <1>3, <1>4, <1>5, <1>6 DEF ServerSettingsNext, AdminValues

-----------------------------------------------------------------------------
\* The two files hold what the server serves unless a rollback failed itself, and a file is
\* missing only in or after the fallback of the write (server_settings.go:61,
\* atomic_file.go:72).
THEOREM SettingsStayTogether == ServerSettingsSpec => []SettingsAgree
<1>1. SettingsInv => SettingsAgree
  <2> SUFFICES ASSUME SettingsInv PROVE SettingsAgree
    OBVIOUS
  <2>1. ASSUME config.settings = Absent
        PROVE  \/ UpdateAt("place") \/ UpdateAt("back") \/ UpdateAt("remove")
               \/ update.torn \/ update.cut
    BY <2>1, Fields, NeverAbsent
       DEF SettingsInv, ServesOld, SettingsPhase, AdminsPhase, UndoPhase, AtRest, Updating,
           Rewriting, UpdateAt
  <2>2. /\ UpdateAt("none") /\ ~update.torn => config.settings # Absent /\ served = Loaded(config)
        /\ update.torn => writeFaults > 1
    BY DEF SettingsInv, AtRest, Failed
  <2> QED
    BY <2>1, <2>2 DEF SettingsAgree
<1> QED
  BY <1>1, SettingsStart, SettingsKeep, PTL DEF ServerSettingsSpec

\* The two files, what the server serves and the update have their types, however the writes
\* fail and the manager dies (server_settings.go, server_config.go).
THEOREM SettingsTypeCorrect == ServerSettingsSpec => []ServerSettingsTypeOK
<1>1. SettingsInv => ServerSettingsTypeOK
  BY DEF SettingsInv, SettingsTyped, Files, AdminValues, UpdateRecords, ServerSettingsTypeOK
<1> QED
  BY <1>1, SettingsStart, SettingsKeep, PTL DEF ServerSettingsSpec

-----------------------------------------------------------------------------
(* StartupSettings: the inductive invariant.                               *)

EditingTyped ==
    /\ editing = [step |-> editing.step, who |-> editing.who, name |-> editing.name,
                  value |-> editing.value, file |-> editing.file, revision |-> editing.revision,
                  view |-> editing.view, shaky |-> editing.shaky, late |-> editing.late]
    /\ forms = [e \in Editors |-> forms[e]]
    /\ editing.shaky \in BOOLEAN /\ editing.late \in BOOLEAN
    /\ settingsFile \in SettingsFiles /\ editing.file \in SettingsFiles
    /\ editing.step # "none" => editing.who \in Editors

\* An update is for a revision that its form shows.
UpdateOfForm ==
    /\ IsUpdate => editing.name \in Options /\ editing.value \in OptionValues
    /\ editing.step = "evaluate" => editing.revision.file \in SettingsFiles
    /\ editing.step = "evaluate" /\ IsUpdate =>
          editing.revision = forms[editing.who].revision
    /\ editing.step \in {"apply", "reload", "compare", "write", "publish"} =>
          /\ IsUpdate /\ editing.revision.file \in SettingsFiles
          /\ editing.revision = forms[editing.who].revision

\* What was read is still so, unless somebody edited the files.
StillSo ==
    /\ editing.step \in {"revision", "evaluate"} /\ ~editing.shaky => editing.file = settingsFile
    /\ editing.step = "evaluate" /\ ~editing.shaky =>
          editing.revision = RevisionOf(surrounding, enabledMods, settingsFile)
    /\ editing.step = "compare" /\ ~editing.late => editing.file = settingsFile
    /\ editing.step = "write" /\ ~editing.late =>
          editing.revision = RevisionOf(surrounding, enabledMods, settingsFile)

\* Factorio has accepted the change.
Accepted ==
    editing.step \in {"reload", "compare", "write", "publish"} =>
        /\ editing.view[editing.name] = editing.value
        /\ ~editing.shaky =>
             editing.view = Evaluated(RevisionOf(surrounding, enabledMods, Candidate))

TrueView(view) == view # NoForm /\ ~view.shaky => view.values = Evaluated(view.revision)
AllTrue ==
    /\ \A e \in Editors : TrueView(forms[e])
    /\ \A r \in DOMAIN remembered : TrueView(remembered[r])

StartupInv == EditingTyped /\ UpdateOfForm /\ StillSo /\ Accepted /\ AllTrue

-----------------------------------------------------------------------------
LEMMA StartupStarts == StartupInit => StartupInv
<1> SUFFICES ASSUME StartupInit PROVE StartupInv
  OBVIOUS
<1>1. NoSettings \in SettingsFiles
  BY DEF NoSettings, SettingsFiles
<1>2. EditingTyped
  BY <1>1 DEF StartupInit, EditingTyped, Unlocked
<1>3. UpdateOfForm /\ StillSo /\ Accepted
  BY DEF StartupInit, UpdateOfForm, StillSo, Accepted, Unlocked, IsUpdate
<1>4. AllTrue
  BY DEF StartupInit, AllTrue, TrueView
<1> QED
  BY <1>2, <1>3, <1>4 DEF StartupInv

\* The operation ends, whether it answers or not.
LEMMA EndsWell ==
    ASSUME StartupInv, editing' = Unlocked, settingsFile' \in SettingsFiles, AllTrue',
           forms' = [e \in Editors |-> forms'[e]]
    PROVE  StartupInv'
<1>1. NoSettings \in SettingsFiles
  BY DEF NoSettings, SettingsFiles
<1>2. EditingTyped'
  BY <1>1 DEF EditingTyped, Unlocked
<1>3. UpdateOfForm' /\ StillSo' /\ Accepted'
  BY DEF UpdateOfForm, StillSo, Accepted, Unlocked, IsUpdate
<1> QED
  BY <1>2, <1>3 DEF StartupInv

LEMMA Unchanged ==
    ASSUME AllTrue, UNCHANGED <<forms, remembered>> PROVE AllTrue'
BY DEF AllTrue, TrueView

\* A true view is answered, and remembered.
LEMMA AnswersWell ==
    ASSUME StartupInv, NEW view, TrueView(view), Answer(view), editing.who \in Editors,
           remembered' = remembered \/ Remember(view), settingsFile' \in SettingsFiles
    PROVE  StartupInv'
<1>1. forms' = [forms EXCEPT ![editing.who] = view] /\ editing' = Unlocked
  BY DEF Answer
<1>2. /\ forms' = [e \in Editors |-> forms'[e]]
      /\ \A e \in Editors : forms'[e] \in {forms[e], view}
  BY <1>1 DEF StartupInv, EditingTyped
<1>3. ASSUME NEW r \in DOMAIN remembered'
      PROVE  TrueView(remembered'[r])
  <2>1. CASE remembered' = remembered
    BY <2>1 DEF StartupInv, AllTrue
  <2>2. CASE Remember(view)
    <3>1. PICK kept \in SUBSET DOMAIN remembered :
             remembered' = [x \in kept \cup {view.revision} |->
                               IF x = view.revision THEN view ELSE remembered[x]]
      BY <2>2 DEF Remember
    <3>2. remembered'[r] = view \/ (r \in DOMAIN remembered /\ remembered'[r] = remembered[r])
      BY <3>1
    <3> QED
      BY <3>2 DEF StartupInv, AllTrue
  <2> QED
    BY <2>1, <2>2
<1>4. AllTrue'
  BY <1>2, <1>3 DEF StartupInv, AllTrue, TrueView
<1> QED
  BY <1>1, <1>2, <1>4, EndsWell

LEMMA OpenKeeps == ASSUME StartupInv, NEW e \in Editors, OpenForm(e) PROVE StartupInv'
<1>1. /\ editing' = [Unlocked EXCEPT !.step = "revision", !.who = e, !.file = settingsFile]
      /\ UNCHANGED <<settingsFile, enabledMods, surrounding, remembered, forms>>
  BY DEF OpenForm, startupFiles
<1>2. EditingTyped'
  BY <1>1 DEF StartupInv, EditingTyped, Unlocked
<1>3. UpdateOfForm' /\ StillSo' /\ Accepted'
  BY <1>1 DEF UpdateOfForm, StillSo, Accepted, Unlocked, IsUpdate
<1> QED
  BY <1>1, <1>2, <1>3, Unchanged DEF StartupInv

LEMMA SendKeeps ==
    ASSUME StartupInv, NEW e \in Editors, NEW n \in Options, NEW v \in OptionValues,
           SendForm(e, n, v)
    PROVE  StartupInv'
<1>1. /\ editing' = [Unlocked EXCEPT !.step = "revision", !.who = e, !.name = n, !.value = v,
                                     !.file = settingsFile]
      /\ UNCHANGED <<settingsFile, enabledMods, surrounding, remembered, forms>>
  BY DEF SendForm, startupFiles
<1>2. EditingTyped'
  BY <1>1 DEF StartupInv, EditingTyped, Unlocked
<1>3. UpdateOfForm' /\ StillSo' /\ Accepted'
  BY <1>1 DEF UpdateOfForm, StillSo, Accepted, Unlocked, IsUpdate
<1> QED
  BY <1>1, <1>2, <1>3, Unchanged DEF StartupInv

LEMMA ReadKeeps == ASSUME StartupInv, ReadRevision PROVE StartupInv'
<1> DEFINE present == RevisionOf(surrounding, enabledMods, editing.file)
<1>1. /\ UNCHANGED <<settingsFile, enabledMods, surrounding, remembered, forms>>
      /\ editing.step = "revision"
  BY DEF ReadRevision, startupFiles, Editing
<1>2. CASE editing' = Unlocked
  BY <1>1, <1>2, EndsWell, Unchanged DEF StartupInv, EditingTyped
<1>3. CASE /\ editing' = [editing EXCEPT !.step = "evaluate", !.revision = present]
           /\ ~(IsUpdate /\ forms[editing.who].revision # present)
  <2>1. editing' = [step |-> "evaluate", who |-> editing.who, name |-> editing.name,
                    value |-> editing.value, file |-> editing.file, revision |-> present,
                    view |-> editing.view, shaky |-> editing.shaky, late |-> editing.late]
    BY <1>3 DEF StartupInv, EditingTyped
  <2>2. EditingTyped'
    BY <1>1, <2>1 DEF StartupInv, EditingTyped
  <2>3. UpdateOfForm'
    BY <1>1, <1>3, <2>1 DEF StartupInv, EditingTyped, UpdateOfForm, IsUpdate, RevisionOf
  <2>4. StillSo' /\ Accepted'
    BY <1>1, <2>1 DEF StartupInv, StillSo, Accepted
  <2> QED
    BY <1>1, <2>2, <2>3, <2>4, Unchanged DEF StartupInv
<1> QED
  BY <1>2, <1>3 DEF ReadRevision

\* A view of its revision: a form gets it, an update goes on with it.
LEMMA ViewArrives ==
    ASSUME StartupInv, editing.step = "evaluate", IsUpdate,
           UNCHANGED <<settingsFile, enabledMods, surrounding, remembered, forms>>,
           NEW values, NEW shaky \in BOOLEAN,
           editing' = [editing EXCEPT !.step = "apply", !.view = values, !.shaky = shaky],
           editing.shaky => shaky
    PROVE  StartupInv'
<1>1. editing' = [step |-> "apply", who |-> editing.who, name |-> editing.name,
                  value |-> editing.value, file |-> editing.file, revision |-> editing.revision,
                  view |-> values, shaky |-> shaky, late |-> editing.late]
  BY DEF StartupInv, EditingTyped
<1>2. EditingTyped'
  BY <1>1 DEF StartupInv, EditingTyped
<1>3. UpdateOfForm'
  BY <1>1 DEF StartupInv, UpdateOfForm, IsUpdate
<1>4. StillSo' /\ Accepted'
  BY <1>1 DEF StillSo, Accepted
<1> QED
  BY <1>2, <1>3, <1>4, Unchanged DEF StartupInv

LEMMA CacheKeeps == ASSUME StartupInv, ViewFromCache PROVE StartupInv'
<1> DEFINE view == remembered[editing.revision]
<1>1. /\ UNCHANGED <<settingsFile, enabledMods, surrounding, remembered>>
      /\ editing.step = "evaluate" /\ editing.revision \in DOMAIN remembered
  BY DEF ViewFromCache, startupFiles, Editing
<1>2. CASE /\ IsUpdate /\ UNCHANGED forms
           /\ editing' = [editing EXCEPT !.step = "apply", !.view = view.values,
                                         !.shaky = @ \/ view.shaky]
  <2> DEFINE shaky == editing.shaky \/ view.shaky
  <2>1. shaky \in BOOLEAN /\ (editing.shaky => shaky)
    OBVIOUS
  <2>2. editing' = [editing EXCEPT !.step = "apply", !.view = view.values, !.shaky = shaky]
    BY <1>2
  <2> HIDE DEF shaky
  <2> QED
    BY <1>1, <1>2, <2>1, <2>2, ViewArrives
<1>3. CASE Answer(view)
  <2>1. TrueView(view) /\ editing.who \in Editors /\ settingsFile' \in SettingsFiles
    BY <1>1 DEF StartupInv, AllTrue, EditingTyped
  <2> QED
    BY <1>1, <1>3, <2>1, AnswersWell
<1> QED
  BY <1>2, <1>3 DEF ViewFromCache

LEMMA EvaluateKeeps == ASSUME StartupInv, EvaluateForm PROVE StartupInv'
<1> DEFINE file == IF editing.file = NoSettings THEN settingsFile ELSE editing.file
           values == Evaluated(RevisionOf(surrounding, enabledMods, file))
           view == View(editing.revision, values, editing.shaky)
<1>1. /\ UNCHANGED <<settingsFile, enabledMods, surrounding>> /\ editing.step = "evaluate"
  BY DEF EvaluateForm, startupFiles, Editing
<1>2. CASE /\ IsUpdate /\ editing' = [editing EXCEPT !.step = "apply", !.view = values]
           /\ UNCHANGED <<remembered, forms>>
  <2>1. editing' = [editing EXCEPT !.step = "apply", !.view = values, !.shaky = editing.shaky]
    BY <1>2 DEF StartupInv, EditingTyped
  <2>2. editing.shaky \in BOOLEAN
    BY DEF StartupInv, EditingTyped
  <2> HIDE DEF values
  <2> QED
    BY <1>1, <1>2, <2>1, <2>2, ViewArrives
<1>3. CASE Remember(view) /\ Answer(view)
  <2>1. ~editing.shaky => file = settingsFile /\
                          editing.revision = RevisionOf(surrounding, enabledMods, settingsFile)
    BY <1>1 DEF StartupInv, StillSo
  <2>2. TrueView(view)
    BY <2>1 DEF TrueView, View
  <2>3. editing.who \in Editors /\ settingsFile' \in SettingsFiles
    BY <1>1 DEF StartupInv, EditingTyped
  <2> HIDE DEF view
  <2> QED
    BY <1>3, <2>2, <2>3, AnswersWell
<1> QED
  BY <1>2, <1>3 DEF EvaluateForm

LEMMA ValidateKeeps == ASSUME StartupInv, ValidateCandidate PROVE StartupInv'
<1> DEFINE values == Evaluated(RevisionOf(surrounding, enabledMods, Candidate))
<1>1. /\ UNCHANGED <<settingsFile, enabledMods, surrounding, remembered, forms>>
      /\ editing.step = "apply"
  BY DEF ValidateCandidate, startupFiles, Editing
<1>2. CASE editing' = Unlocked
  BY <1>1, <1>2, EndsWell, Unchanged DEF StartupInv, EditingTyped
<1>3. CASE /\ values[editing.name] = editing.value
           /\ editing' = [editing EXCEPT !.step = "reload", !.view = values]
  <2>1. editing' = [step |-> "reload", who |-> editing.who, name |-> editing.name,
                    value |-> editing.value, file |-> editing.file, revision |-> editing.revision,
                    view |-> values, shaky |-> editing.shaky, late |-> editing.late]
    BY <1>3 DEF StartupInv, EditingTyped
  <2>2. Candidate' = Candidate
    BY <2>1 DEF Candidate
  <2>3. Accepted'
    BY <1>1, <1>3, <2>1, <2>2 DEF Accepted
  <2> HIDE DEF values
  <2>4. EditingTyped'
    BY <1>1, <2>1 DEF StartupInv, EditingTyped
  <2>5. UpdateOfForm' /\ StillSo'
    BY <1>1, <2>1 DEF StartupInv, UpdateOfForm, StillSo, IsUpdate
  <2> QED
    BY <1>1, <2>3, <2>4, <2>5, Unchanged DEF StartupInv
<1> QED
  BY <1>2, <1>3 DEF ValidateCandidate

LEMMA ReloadSettingsKeeps == ASSUME StartupInv, ReloadSettings PROVE StartupInv'
<1>1. /\ UNCHANGED <<settingsFile, enabledMods, surrounding, remembered, forms>>
      /\ editing.step = "reload"
      /\ editing' = [step |-> "compare", who |-> editing.who, name |-> editing.name,
                     value |-> editing.value, file |-> settingsFile,
                     revision |-> editing.revision, view |-> editing.view,
                     shaky |-> editing.shaky, late |-> FALSE]
  BY DEF ReloadSettings, startupFiles, Editing, StartupInv, EditingTyped
<1>2. EditingTyped'
  BY <1>1 DEF StartupInv, EditingTyped
<1>3. UpdateOfForm' /\ StillSo' /\ Accepted'
  BY <1>1 DEF StartupInv, UpdateOfForm, StillSo, Accepted, IsUpdate, Candidate
<1> QED
  BY <1>1, <1>2, <1>3, Unchanged DEF StartupInv

LEMMA CompareKeeps == ASSUME StartupInv, CompareRevision PROVE StartupInv'
<1>1. /\ UNCHANGED <<settingsFile, enabledMods, surrounding, remembered, forms>>
      /\ editing.step = "compare"
  BY DEF CompareRevision, startupFiles, Editing
<1>2. CASE editing' = Unlocked
  BY <1>1, <1>2, EndsWell, Unchanged DEF StartupInv, EditingTyped
<1>3. CASE /\ Advance("write")
           /\ editing.revision = RevisionOf(surrounding, enabledMods, editing.file)
  <2>1. editing' = [step |-> "write", who |-> editing.who, name |-> editing.name,
                    value |-> editing.value, file |-> editing.file, revision |-> editing.revision,
                    view |-> editing.view, shaky |-> editing.shaky, late |-> editing.late]
    BY <1>3 DEF Advance, StartupInv, EditingTyped
  <2>2. EditingTyped'
    BY <1>1, <2>1 DEF StartupInv, EditingTyped
  <2>3. UpdateOfForm' /\ StillSo' /\ Accepted'
    BY <1>1, <1>3, <2>1 DEF StartupInv, UpdateOfForm, StillSo, Accepted, IsUpdate, Candidate
  <2> QED
    BY <1>1, <2>2, <2>3, Unchanged DEF StartupInv
<1> QED
  BY <1>2, <1>3 DEF CompareRevision

LEMMA CandidateTyped ==
    ASSUME StartupInv, editing.step \in {"write", "publish"} PROVE Candidate \in SettingsFiles
BY DEF StartupInv, UpdateOfForm, Candidate, SettingsFiles

LEMMA WriteSettingsKeeps == ASSUME StartupInv, WriteSettings PROVE StartupInv'
<1>1. UNCHANGED <<enabledMods, surrounding, remembered, forms>> /\ editing.step = "write"
  BY DEF WriteSettings, Editing
<1>2. CASE editing' = Unlocked /\ UNCHANGED settingsFile
  BY <1>1, <1>2, EndsWell, Unchanged DEF StartupInv, EditingTyped
<1>3. CASE settingsFile' = Candidate /\ Advance("publish")
  <2>1. editing' = [step |-> "publish", who |-> editing.who, name |-> editing.name,
                    value |-> editing.value, file |-> editing.file, revision |-> editing.revision,
                    view |-> editing.view, shaky |-> editing.shaky, late |-> editing.late]
    BY <1>3 DEF Advance, StartupInv, EditingTyped
  <2>2. EditingTyped'
    BY <1>1, <1>3, <2>1, CandidateTyped DEF StartupInv, EditingTyped
  <2>3. UpdateOfForm' /\ StillSo' /\ Accepted'
    BY <1>1, <2>1 DEF StartupInv, UpdateOfForm, StillSo, Accepted, IsUpdate, Candidate
  <2> QED
    BY <1>1, <2>2, <2>3, Unchanged DEF StartupInv
<1> QED
  BY <1>2, <1>3 DEF WriteSettings

LEMMA PublishKeeps == ASSUME StartupInv, PublishView PROVE StartupInv'
<1> DEFINE target == RevisionOf(surrounding, enabledMods, Candidate)
           view == View(target, editing.view, editing.shaky)
<1>1. Remember(view) /\ Answer(view) /\ UNCHANGED settingsFile /\ editing.step = "publish"
  BY DEF PublishView, Editing, startupFiles
<1>2. TrueView(view)
  BY <1>1 DEF StartupInv, Accepted, TrueView, View
<1>3. editing.who \in Editors /\ settingsFile' \in SettingsFiles
  BY <1>1 DEF StartupInv, EditingTyped
<1> HIDE DEF view
<1> QED
  BY <1>1, <1>2, <1>3, AnswersWell

\* Somebody edits the files: what was read may be old from now on.
LEMMA EditKeeps ==
    ASSUME StartupInv, EditOutside, settingsFile' \in SettingsFiles,
           Editing("none") \/ UNCHANGED surrounding
    PROVE  StartupInv'
<1>1. AllTrue' /\ UNCHANGED forms
  BY Unchanged DEF EditOutside, StartupInv
<1>2. CASE editing' = Unlocked
  BY <1>1, <1>2, EndsWell DEF StartupInv, EditingTyped
<1>3. CASE editing' = [editing EXCEPT !.shaky = TRUE, !.late = TRUE]
  <2>1. editing' = [step |-> editing.step, who |-> editing.who, name |-> editing.name,
                    value |-> editing.value, file |-> editing.file, revision |-> editing.revision,
                    view |-> editing.view, shaky |-> TRUE, late |-> TRUE]
    BY <1>3 DEF StartupInv, EditingTyped
  <2>2. EditingTyped'
    BY <1>1, <2>1 DEF StartupInv, EditingTyped
  <2>3. UpdateOfForm' /\ StillSo' /\ Accepted'
    BY <1>1, <2>1 DEF StartupInv, UpdateOfForm, StillSo, Accepted, IsUpdate
  <2> QED
    BY <1>1, <2>2, <2>3 DEF StartupInv
<1> QED
  BY <1>2, <1>3 DEF EditOutside

LEMMA StartupKeeps == StartupInv /\ [StartupNext]_startupVars => StartupInv'
<1> SUFFICES ASSUME StartupInv, [StartupNext]_startupVars PROVE StartupInv'
  OBVIOUS
<1>1. ASSUME NEW e \in Editors, OpenForm(e) PROVE StartupInv'
  BY <1>1, OpenKeeps
<1>2. ASSUME NEW e \in Editors, NEW n \in Options, NEW v \in OptionValues, SendForm(e, n, v)
      PROVE  StartupInv'
  BY <1>2, SendKeeps
<1>3. CASE ReadRevision \/ ViewFromCache \/ EvaluateForm \/ ValidateCandidate
  BY <1>3, ReadKeeps, CacheKeeps, EvaluateKeeps, ValidateKeeps
<1>4. CASE ReloadSettings \/ CompareRevision \/ WriteSettings \/ PublishView
  BY <1>4, ReloadSettingsKeeps, CompareKeeps, WriteSettingsKeeps, PublishKeeps
<1>5. CASE StartupFails
  BY <1>5, EndsWell, Unchanged DEF StartupFails, startupFiles, StartupInv, EditingTyped
<1>6. ASSUME NEW newMods \in SUBSET OptionMods, EditMods(newMods) PROVE StartupInv'
  BY <1>6, EditKeeps DEF EditMods, StartupInv, EditingTyped
<1>7. ASSUME NEW n \in Options, NEW v \in OptionValues \cup {Unset}, EditSettings(n, v)
      PROVE  StartupInv'
  <2>1. settingsFile' \in SettingsFiles
    BY <1>7 DEF EditSettings, StartupInv, EditingTyped, SettingsFiles
  <2> QED
    BY <1>7, <2>1, EditKeeps DEF EditSettings
<1>8. ASSUME NEW c \in Surroundings, NEW newMods \in SUBSET OptionMods, Reconfigure(c, newMods)
      PROVE  StartupInv'
  <2>1. settingsFile' \in SettingsFiles
    BY <1>8 DEF Reconfigure, StartupInv, EditingTyped, SettingsFiles, NoSettings
  <2> QED
    BY <1>8, <2>1, EditKeeps DEF Reconfigure
<1>9. CASE ManagerRestarts
  <2>1. AllTrue'
    BY <1>9 DEF ManagerRestarts, StartupInv, AllTrue, TrueView
  <2> QED
    BY <1>9, <2>1, EndsWell DEF ManagerRestarts, startupFiles, StartupInv, EditingTyped
<1>10. CASE UNCHANGED startupVars
  BY <1>10, Unchanged
     DEF startupVars, startupFiles, StartupInv, EditingTyped, UpdateOfForm, StillSo, Accepted,
         IsUpdate, Candidate
<1> QED
  BY <1>1, <1>2, <1>3, <1>4, <1>5, <1>6, <1>7, <1>8, <1>9, <1>10 DEF StartupNext

-----------------------------------------------------------------------------
\* An update is written to what its form showed, changes the one setting, and Factorio keeps
\* the value.
LEMMA WritesAsShown ==
    ASSUME StartupInv, [StartupNext]_startupVars, Editing("write"), editing'.step = "publish"
    PROVE  LET form == forms[editing.who]
               target == RevisionOf(surrounding, enabledMods, settingsFile')
           IN
           /\ ~editing.late => RevisionOf(surrounding, enabledMods, settingsFile) = form.revision
           /\ \A n \in Options \ {editing.name} : settingsFile'[n] = form.revision.file[n]
           /\ ~editing.shaky => Evaluated(target)[editing.name] = editing.value
<1>1. settingsFile' = Candidate
  <2>1. editing.step = "write"
    BY DEF Editing
  <2>2. CASE WriteSettings
    BY <2>2 DEF WriteSettings, Unlocked
  <2>3. CASE EditOutside
    <3>1. editing' = [editing EXCEPT !.shaky = TRUE, !.late = TRUE]
      BY <2>1, <2>3 DEF EditOutside, Editing
    <3>2. [editing EXCEPT !.shaky = TRUE, !.late = TRUE].step = editing.step
      BY DEF StartupInv, EditingTyped
    <3> QED
      BY <2>1, <3>1, <3>2
  <2>4. CASE ManagerRestarts \/ UNCHANGED startupVars
    BY <2>1, <2>4 DEF ManagerRestarts, startupVars, Unlocked
  <2> QED
    BY <2>1, <2>2, <2>3, <2>4
       DEF StartupNext, OpenForm, SendForm, ReadRevision, ViewFromCache, EvaluateForm,
           ValidateCandidate, ReloadSettings, CompareRevision, PublishView, StartupFails, EditMods,
           EditSettings, Reconfigure, Editing
<1>2. editing.step = "write"
  BY DEF Editing
<1>3. /\ editing.revision = forms[editing.who].revision /\ editing.revision.file \in SettingsFiles
      /\ ~editing.late => editing.revision = RevisionOf(surrounding, enabledMods, settingsFile)
      /\ editing.view[editing.name] = editing.value
      /\ ~editing.shaky => editing.view = Evaluated(RevisionOf(surrounding, enabledMods, Candidate))
  BY <1>2 DEF StartupInv, UpdateOfForm, StillSo, Accepted
<1>4. \A n \in Options \ {editing.name} : Candidate[n] = editing.revision.file[n]
  BY <1>3 DEF Candidate, SettingsFiles
<1> QED
  BY <1>1, <1>3, <1>4

\* Forms, remembered evaluations and the file go together, whatever is edited, fails or
\* restarts in the minutes between (mod_startup_settings.go:108, :155).
THEOREM StartupStaysSound == StartupSpec => StartupSound
<1>1. StartupInv => ViewsTrue
  BY DEF StartupInv, AllTrue, TrueView, ViewsTrue
<1>2. StartupInv /\ [StartupNext]_startupVars =>
        [Editing("write") /\ editing'.step = "publish" =>
          LET form == forms[editing.who]
              target == RevisionOf(surrounding, enabledMods, settingsFile')
          IN
          /\ ~editing.late => RevisionOf(surrounding, enabledMods, settingsFile) = form.revision
          /\ \A n \in Options \ {editing.name} : settingsFile'[n] = form.revision.file[n]
          /\ ~editing.shaky => Evaluated(target)[editing.name] = editing.value
        ]_startupVars
  BY WritesAsShown
<1> QED
  BY <1>1, <1>2, StartupStarts, StartupKeeps, PTL DEF StartupSpec, StartupSound, UpdateAsShown

\* What is remembered, shown and worked on belongs to a revision.
CacheTyped ==
    /\ DOMAIN remembered \subseteq Revisions /\ IsFiniteSet(DOMAIN remembered)
    /\ Cardinality(DOMAIN remembered) <= Evaluations
    /\ \A r \in DOMAIN remembered : remembered[r].revision = r /\ remembered[r].values \in Values
WorksOnRevision ==
    /\ editing.step \in {"none", "revision", "evaluate", "apply", "reload", "compare", "write",
                         "publish"}
    /\ editing.step \notin {"none", "revision"} => editing.revision \in Revisions
    /\ editing.step \in {"reload", "compare", "write", "publish"} => editing.view \in Values
ViewsTyped ==
    /\ enabledMods \subseteq OptionMods /\ surrounding \in Surroundings
    /\ CacheTyped /\ WorksOnRevision
    /\ \A e \in Editors : forms[e] = NoForm \/ forms[e].revision \in Revisions

LEMMA RevisionTyped ==
    ASSUME NEW c \in Surroundings, NEW some \in SUBSET OptionMods, NEW file \in SettingsFiles
    PROVE  RevisionOf(c, some, file) \in Revisions
BY DEF RevisionOf, Revisions

\* A form has values of settings there are.
LEMMA EvaluatedTyped == ASSUME NEW r \in Revisions PROVE Evaluated(r) \in Values
<1> DEFINE allowed == IF Strict \in r.mods THEN OptionValues \ ExtremeIn[r.around] ELSE OptionValues
           shown == {m \in Options : OptionOf[m] \in r.mods}
<1>1. allowed \subseteq OptionValues /\ Default \in OptionValues /\ shown \in SUBSET Options
  BY StartupConstants
<1>2. Evaluated(r) = [n \in shown |-> IF r.file[n] \in allowed THEN r.file[n] ELSE Default]
  BY DEF Evaluated
<1> HIDE DEF allowed, shown
<1>3. Evaluated(r) \in [shown -> OptionValues]
  BY <1>1, <1>2
<1> QED
  BY <1>1, <1>3 DEF Values

\* A full cache is emptied before it takes another view.
LEMMA RememberKeeps ==
    ASSUME CacheTyped, NEW view, Remember(view), view.revision \in Revisions, view.values \in Values
    PROVE  CacheTyped'
<1> DEFINE kept == IF Cardinality(DOMAIN remembered) >= Evaluations THEN {} ELSE DOMAIN remembered
<1>1. remembered' = [r \in kept \cup {view.revision} |->
                        IF r = view.revision THEN view ELSE remembered[r]]
  BY DEF Remember
<1>2. kept \subseteq DOMAIN remembered /\ IsFiniteSet(kept)
  BY FS_EmptySet DEF CacheTyped
<1>3. Cardinality(kept) \in Nat /\ Cardinality(kept) < Evaluations /\ Evaluations \in Nat
  <2>1. Cardinality({}) = 0 /\ Evaluations \in Nat \ {0}
    BY FS_EmptySet, StartupConstants
  <2>2. Cardinality(DOMAIN remembered) \in Nat
    BY FS_CardinalityType DEF CacheTyped
  <2> QED
    BY <2>1, <2>2
<1> HIDE DEF kept
<1>4. IsFiniteSet(kept \cup {view.revision}) /\ Cardinality(kept \cup {view.revision}) <= Evaluations
  <2>1. /\ IsFiniteSet(kept \cup {view.revision})
        /\ Cardinality(kept \cup {view.revision}) =
             IF view.revision \in kept THEN Cardinality(kept) ELSE Cardinality(kept) + 1
    BY <1>2, FS_AddElement
  <2> QED
    BY <1>3, <2>1
<1>5. DOMAIN remembered' = kept \cup {view.revision}
  BY <1>1
<1>6. ASSUME NEW r \in DOMAIN remembered'
      PROVE  remembered'[r].revision = r /\ remembered'[r].values \in Values
  BY <1>1, <1>2, <1>6 DEF CacheTyped
<1> QED
  BY <1>2, <1>4, <1>5, <1>6 DEF CacheTyped

\* An answer shows a revision, and the operation is over.
LEMMA AnswerTyped ==
    ASSUME StartupInv, ViewsTyped, NEW view, Answer(view), view.revision \in Revisions,
           CacheTyped', UNCHANGED startupFiles
    PROVE  ViewsTyped'
<1>1. forms' = [forms EXCEPT ![editing.who] = view] /\ forms = [e \in Editors |-> forms[e]]
  BY DEF Answer, StartupInv, EditingTyped
<1>2. \A e \in Editors : forms'[e] \in {forms[e], view}
  BY <1>1
<1>3. WorksOnRevision'
  BY DEF Answer, Unlocked, WorksOnRevision
<1> QED
  BY <1>2, <1>3 DEF ViewsTyped, startupFiles

\* A step of an operation that shows and remembers nothing.
LEMMA GoesOnTyped ==
    ASSUME ViewsTyped, UNCHANGED <<remembered, forms>>, WorksOnRevision',
           enabledMods' \subseteq OptionMods, surrounding' \in Surroundings
    PROVE  ViewsTyped'
BY DEF ViewsTyped, CacheTyped

LEMMA StopsTyped == ASSUME editing' = Unlocked PROVE WorksOnRevision'
BY DEF Unlocked, WorksOnRevision

LEMMA ViewsStayTyped ==
    StartupInv /\ ViewsTyped /\ [StartupNext]_startupVars => ViewsTyped'
<1> SUFFICES ASSUME StartupInv, ViewsTyped, [StartupNext]_startupVars PROVE ViewsTyped'
  OBVIOUS
<1>1. /\ enabledMods \subseteq OptionMods /\ surrounding \in Surroundings
      /\ CacheTyped /\ WorksOnRevision
  BY DEF ViewsTyped
<1>2. /\ editing = [step |-> editing.step, who |-> editing.who, name |-> editing.name,
                    value |-> editing.value, file |-> editing.file, revision |-> editing.revision,
                    view |-> editing.view, shaky |-> editing.shaky, late |-> editing.late]
      /\ settingsFile \in SettingsFiles /\ editing.file \in SettingsFiles
  BY DEF StartupInv, EditingTyped
<1>3. \A file \in SettingsFiles : RevisionOf(surrounding, enabledMods, file) \in Revisions
  BY <1>1, RevisionTyped
<1>4. CASE \E e \in Editors : OpenForm(e) \/ \E n \in Options, v \in OptionValues : SendForm(e, n, v)
  <2>1. UNCHANGED <<settingsFile, enabledMods, surrounding, remembered, forms>>
    BY <1>4 DEF OpenForm, SendForm, startupFiles
  <2>2. editing'.step = "revision"
    BY <1>4 DEF OpenForm, SendForm, Unlocked
  <2> QED
    BY <1>1, <2>1, <2>2, GoesOnTyped DEF WorksOnRevision
<1>5. CASE ReadRevision
  <2>1. UNCHANGED <<settingsFile, enabledMods, surrounding, remembered, forms>>
    BY <1>5 DEF ReadRevision, startupFiles
  <2>2. CASE editing' = [editing EXCEPT !.step = "evaluate",
                             !.revision = RevisionOf(surrounding, enabledMods, editing.file)]
    <3>1. editing'.step = "evaluate"
          /\ editing'.revision = RevisionOf(surrounding, enabledMods, editing.file)
      BY <1>2, <2>2
    <3>2. WorksOnRevision'
      BY <1>2, <1>3, <3>1 DEF WorksOnRevision
    <3> QED
      BY <1>1, <2>1, <3>2, GoesOnTyped
  <2> QED
    BY <1>1, <1>5, <2>1, <2>2, GoesOnTyped, StopsTyped DEF ReadRevision
<1>6. CASE ViewFromCache
  <2>1. /\ UNCHANGED <<startupFiles, remembered>> /\ editing.step = "evaluate"
        /\ editing.revision \in DOMAIN remembered
    BY <1>6 DEF ViewFromCache, Editing
  <2>2. CASE IsUpdate
    <3>1. UNCHANGED forms /\ editing'.step = "apply" /\ editing'.revision = editing.revision
      BY <1>2, <1>6, <2>2 DEF ViewFromCache
    <3> QED
      BY <1>1, <2>1, <3>1, GoesOnTyped DEF WorksOnRevision, startupFiles
  <2>3. CASE ~IsUpdate
    <3>1. Answer(remembered[editing.revision])
      BY <1>6, <2>3 DEF ViewFromCache
    <3>2. remembered[editing.revision].revision \in Revisions
      BY <1>1, <2>1 DEF CacheTyped
    <3> QED
      BY <1>1, <2>1, <3>1, <3>2, AnswerTyped DEF CacheTyped
  <2> QED
    BY <2>2, <2>3
<1>7. CASE EvaluateForm
  <2> DEFINE file == IF editing.file = NoSettings THEN settingsFile ELSE editing.file
             values == Evaluated(RevisionOf(surrounding, enabledMods, file))
             view == View(editing.revision, values, editing.shaky)
  <2>1. UNCHANGED startupFiles /\ editing.step = "evaluate" /\ editing.revision \in Revisions
    BY <1>1, <1>7 DEF EvaluateForm, Editing, WorksOnRevision
  <2>2. CASE IsUpdate
    <3>1. UNCHANGED <<remembered, forms>> /\ editing'.step = "apply"
          /\ editing'.revision = editing.revision
      BY <1>2, <1>7, <2>2 DEF EvaluateForm
    <3> QED
      BY <1>1, <2>1, <3>1, GoesOnTyped DEF WorksOnRevision, startupFiles
  <2>3. CASE ~IsUpdate
    <3>1. Remember(view) /\ Answer(view)
      BY <1>7, <2>3 DEF EvaluateForm
    <3>2. values \in Values
      BY <1>2, <1>3, EvaluatedTyped
    <3>3. view.revision = editing.revision /\ view.values = values
      BY DEF View
    <3> HIDE DEF view, values
    <3>4. CacheTyped'
      BY <1>1, <2>1, <3>1, <3>2, <3>3, RememberKeeps
    <3> QED
      BY <2>1, <3>1, <3>3, <3>4, AnswerTyped
  <2> QED
    BY <2>2, <2>3
<1>8. CASE ValidateCandidate
  <2> DEFINE values == Evaluated(RevisionOf(surrounding, enabledMods, Candidate))
  <2>1. /\ UNCHANGED <<enabledMods, surrounding, remembered, forms>> /\ editing.step = "apply"
        /\ editing.revision \in Revisions
    BY <1>1, <1>8 DEF ValidateCandidate, Editing, startupFiles, WorksOnRevision
  <2>2. Candidate \in SettingsFiles
    BY <2>1 DEF StartupInv, UpdateOfForm, Candidate, SettingsFiles
  <2>3. values \in Values
    BY <1>3, <2>2, EvaluatedTyped
  <2>4. editing' = Unlocked \/ editing' = [editing EXCEPT !.step = "reload", !.view = values]
    BY <1>8 DEF ValidateCandidate
  <2> HIDE DEF values
  <2>5. WorksOnRevision'
    BY <1>2, <2>1, <2>3, <2>4, StopsTyped DEF WorksOnRevision
  <2> QED
    BY <1>1, <2>1, <2>5, GoesOnTyped
<1>9. CASE ReloadSettings \/ CompareRevision \/ WriteSettings
  <2>1. UNCHANGED <<enabledMods, surrounding, remembered, forms>>
    BY <1>9 DEF ReloadSettings, CompareRevision, WriteSettings, startupFiles
  <2>2. \/ editing' = Unlocked
        \/ /\ editing.step \in {"reload", "compare", "write"}
           /\ editing'.step \in {"compare", "write", "publish"}
           /\ editing'.revision = editing.revision /\ editing'.view = editing.view
    BY <1>2, <1>9 DEF ReloadSettings, CompareRevision, WriteSettings, Editing, Advance
  <2>3. WorksOnRevision'
    BY <1>1, <2>2, StopsTyped DEF WorksOnRevision
  <2> QED
    BY <1>1, <2>1, <2>3, GoesOnTyped
<1>10. CASE PublishView
  <2> DEFINE target == RevisionOf(surrounding, enabledMods, Candidate)
             view == View(target, editing.view, editing.shaky)
  <2>1. UNCHANGED startupFiles /\ editing.step = "publish" /\ Remember(view) /\ Answer(view)
    BY <1>10 DEF PublishView, Editing
  <2>2. target \in Revisions /\ editing.view \in Values
    BY <1>1, <1>3, <2>1, CandidateTyped DEF WorksOnRevision
  <2>3. view.revision = target /\ view.values = editing.view
    BY DEF View
  <2> HIDE DEF view, target
  <2>4. CacheTyped'
    BY <1>1, <2>1, <2>2, <2>3, RememberKeeps
  <2> QED
    BY <2>1, <2>2, <2>3, <2>4, AnswerTyped
<1>11. CASE StartupFails
  BY <1>1, <1>11, GoesOnTyped, StopsTyped DEF StartupFails, startupFiles
<1>12. CASE \/ \E some \in SUBSET OptionMods : EditMods(some)
            \/ \E n \in Options, v \in OptionValues \cup {Unset} : EditSettings(n, v)
            \/ \E c \in Surroundings, some \in SUBSET OptionMods : Reconfigure(c, some)
  <2>1. EditOutside /\ enabledMods' \subseteq OptionMods /\ surrounding' \in Surroundings
    BY <1>1, <1>12 DEF EditMods, EditSettings, Reconfigure
  <2>2. UNCHANGED <<remembered, forms>>
        /\ (editing' = Unlocked \/ editing' = [editing EXCEPT !.shaky = TRUE, !.late = TRUE])
    BY <2>1 DEF EditOutside
  <2>3. WorksOnRevision'
    BY <1>1, <1>2, <2>2, StopsTyped DEF WorksOnRevision
  <2> QED
    BY <2>1, <2>2, <2>3, GoesOnTyped
<1>13. CASE ManagerRestarts
  <2>1. remembered' = [r \in {} |-> NoForm] /\ editing' = Unlocked
        /\ UNCHANGED <<enabledMods, surrounding, forms>>
    BY <1>13 DEF ManagerRestarts, startupFiles
  <2>2. DOMAIN remembered' = {}
    BY <2>1
  <2>3. CacheTyped'
    BY <2>2, FS_EmptySet, StartupConstants DEF CacheTyped
  <2> QED
    BY <2>1, <2>3, StopsTyped DEF ViewsTyped
<1>14. CASE UNCHANGED startupVars
  BY <1>1, <1>14, GoesOnTyped DEF startupVars, startupFiles, WorksOnRevision
<1> QED
  BY <1>4, <1>5, <1>6, <1>7, <1>8, <1>9, <1>10, <1>11, <1>12, <1>13, <1>14 DEF StartupNext

\* The views that are remembered and shown belong to revisions, with values the settings may
\* have, and never more than the cache takes (mod_startup_settings.go:108).
THEOREM StartupTypeCorrect == StartupSpec => []StartupTypeOK
<1>1. StartupInit => ViewsTyped
  <2> SUFFICES ASSUME StartupInit PROVE ViewsTyped
    OBVIOUS
  <2>1. DOMAIN remembered = {}
    BY DEF StartupInit
  <2>2. CacheTyped
    BY <2>1, FS_EmptySet, StartupConstants DEF CacheTyped
  <2> QED
    BY <2>2 DEF StartupInit, ViewsTyped, WorksOnRevision, Unlocked
<1>2. StartupInv /\ ViewsTyped => StartupTypeOK
  BY DEF StartupInv, EditingTyped, ViewsTyped, CacheTyped, WorksOnRevision, StartupTypeOK
<1> QED
  BY <1>1, <1>2, ViewsStayTyped, StartupStarts, StartupKeeps, PTL DEF StartupSpec

-----------------------------------------------------------------------------
(* ProfileImport: the inductive invariant.                                 *)

\* Functions from some of D to R.
Tables(D, R) == UNION {[S -> R] : S \in SUBSET D}
Manifests == Tables(Ids, ProfileTexts)
Imports == [step : ImportSteps, names : Seq(ProfileTexts), manifest : Manifests,
            id : Ids \cup {""}, created : SUBSET Ids]

ImportTyped ==
    /\ listed \in Manifests
    /\ folders \in Tables(Ids, {"empty", "whole"})
    /\ points \in Tables(Ids, {"begun", "whole"})
    /\ import \in Imports /\ stray \in SUBSET Ids

Unique(manifest) == \A a, b \in DOMAIN manifest : manifest[a] = manifest[b] => a = b

\* The profiles of a manifest are all there.
Stored(manifest) ==
    \A id \in DOMAIN manifest :
        /\ id \in DOMAIN folders /\ folders[id] = "whole"
        /\ id \in DOMAIN points => points[id] = "whole"

\* What an import has made it can still remove, and nothing else.
MadeApart ==
    /\ import.created \cap DOMAIN listed = {}
    /\ DOMAIN folders \cup DOMAIN points \subseteq DOMAIN listed \cup stray \cup import.created
    /\ Importing("none") => import.created = {}

\* The profiles it has made and completed.
Completed ==
    import.created \ (IF import.step \in {"data", "points", "append"} THEN {import.id} ELSE {})

\* Until it gives up, the manifest it builds holds what was there and what it completed.
Building ==
    import.step \in {"allocate", "data", "points", "append", "save"} =>
        /\ Unique(import.manifest) /\ Stored(import.manifest)
        /\ DOMAIN import.manifest = DOMAIN listed \cup Completed

\* The profile it works on.
Filling ==
    /\ import.step \in {"data", "points", "append"} =>
         /\ import.id \in import.created \ DOMAIN import.manifest
         /\ import.names # <<>> /\ Head(import.names) \notin NamesOf(import.manifest)
    /\ import.step \in {"points", "append"} =>
         import.id \in DOMAIN folders /\ folders[import.id] = "whole"
    /\ import.step = "append" => import.id \in DOMAIN points /\ points[import.id] = "whole"

ImportInv ==
    /\ ImportTyped /\ Unique(listed) /\ Stored(listed)
    /\ MadeApart /\ Building /\ Filling

-----------------------------------------------------------------------------
(* Functions with one value more or less.                                  *)

LEMMA OneMoreTyped ==
    ASSUME NEW D, NEW R, NEW f \in Tables(D, R), NEW x \in D, NEW v \in R
    PROVE  AddTo(f, x, v) \in Tables(D, R)
<1>1. PICK S \in SUBSET D : f \in [S -> R]
  BY DEF Tables
<1>2. AddTo(f, x, v) \in [S \cup {x} -> R]
  BY <1>1 DEF AddTo
<1>3. S \cup {x} \in SUBSET D
  OBVIOUS
<1> QED
  BY <1>2, <1>3 DEF Tables

LEMMA OneLessTyped ==
    ASSUME NEW D, NEW R, NEW f \in Tables(D, R), NEW x
    PROVE  Forget(f, x) \in Tables(D, R)
<1>1. PICK S \in SUBSET D : f \in [S -> R]
  BY DEF Tables
<1>2. Forget(f, x) \in [S \ {x} -> R]
  BY <1>1 DEF Forget
<1>3. S \ {x} \in SUBSET D
  OBVIOUS
<1> QED
  BY <1>2, <1>3 DEF Tables

-----------------------------------------------------------------------------
(* The invariant.                                                          *)

LEMMA NoImportTyped == KnownProfiles \in Manifests /\ NoImport \in Imports
<1>1. KnownProfiles \in Manifests
  BY ImportConstants DEF Manifests, Tables
<1>2. <<>> \in Seq(ProfileTexts)
  OBVIOUS
<1> QED
  BY <1>1, <1>2 DEF NoImport, Imports, ImportSteps

LEMMA ImportStarts == ImportInit => ImportInv
<1> SUFFICES ASSUME ImportInit PROVE ImportInv
  OBVIOUS
<1>2. folders \in Tables(Ids, {"empty", "whole"})
  <2>1. folders \in [DOMAIN KnownProfiles -> {"empty", "whole"}]
    BY DEF ImportInit
  <2> QED
    BY <2>1, ImportConstants DEF Tables
<1>3. points \in Tables(Ids, {"begun", "whole"})
      /\ \A id \in DOMAIN points : id \in DOMAIN KnownProfiles /\ points[id] = "whole"
  <2>1. PICK S \in SUBSET DOMAIN KnownProfiles : points = [id \in S |-> "whole"]
    BY DEF ImportInit
  <2>2. S \in SUBSET Ids /\ points \in [S -> {"begun", "whole"}]
    BY <2>1, ImportConstants
  <2> QED
    BY <2>1, <2>2 DEF Tables
<1>4. import = NoImport
  BY DEF ImportInit
<1>5. ImportTyped
  BY <1>2, <1>3, <1>4, NoImportTyped DEF ImportTyped, ImportInit
<1>6. Unique(listed) /\ Stored(listed)
  <2>1. listed = KnownProfiles /\ folders = [id \in DOMAIN KnownProfiles |-> "whole"]
    BY DEF ImportInit
  <2>2. Unique(KnownProfiles)
    BY ImportConstants DEF Unique
  <2> QED
    BY <1>3, <2>1, <2>2 DEF Stored
<1>7. MadeApart /\ Building /\ Filling
  <2>1. /\ import.step = "none" /\ import.created = {} /\ listed = KnownProfiles
        /\ DOMAIN folders = DOMAIN KnownProfiles
    BY DEF ImportInit, NoImport
  <2> QED
    BY <1>3, <2>1 DEF MadeApart, Building, Completed, Filling, Importing
<1> QED
  BY <1>5, <1>6, <1>7 DEF ImportInv

-----------------------------------------------------------------------------
(* One lemma per kind of step.                                             *)

\* What an import that stands at a step knows.
LEMMA ImportPhases ==
    ASSUME ImportInv
    PROVE  /\ import.step \in ImportSteps /\ import.names \in Seq(ProfileTexts)
           /\ import.manifest \in Manifests /\ import.created \in SUBSET Ids
           /\ import = [step |-> import.step, names |-> import.names, manifest |-> import.manifest,
                        id |-> import.id, created |-> import.created]
BY DEF ImportInv, ImportTyped, Imports

\* Giving up needs nothing of what was built.
LEMMA GivenUp ==
    ASSUME ImportInv, GiveUp, UNCHANGED listed,
           ImportTyped', Stored(listed)',
           DOMAIN folders' \cup DOMAIN points'
              \subseteq DOMAIN listed \cup stray' \cup import.created,
           import.step # "none"
    PROVE  ImportInv'
<1>1. /\ import'.step = "undo" /\ import'.created = import.created
  BY ImportPhases DEF GiveUp, Proceed
<1>2. Unique(listed)' /\ MadeApart'
  BY <1>1 DEF ImportInv, Unique, MadeApart, Importing
<1>3. Building' /\ Filling'
  BY <1>1 DEF Building, Completed, Filling
<1> QED
  BY <1>2, <1>3 DEF ImportInv

LEMMA GiveUpTyped == ASSUME ImportInv, GiveUp PROVE import' \in Imports
BY DEF ImportInv, ImportTyped, Imports, GiveUp, Proceed, ImportSteps

LEMMA BeginKeeps ==
    ASSUME ImportInv, NEW names \in Backups, ImportProfileBackup(names) PROVE ImportInv'
<1>1. /\ import' = [step |-> "allocate", names |-> names, manifest |-> listed, id |-> "",
                    created |-> {}]
      /\ import.step = "none" /\ UNCHANGED <<listed, folders, points, stray>>
  BY DEF ImportProfileBackup, NoImport, Importing
<1>2. ImportTyped'
  <2>1. names \in Seq(ProfileTexts)
    BY ImportConstants
  <2> QED
    BY <1>1, <2>1 DEF ImportInv, ImportTyped, Imports, ImportSteps
<1>3. MadeApart'
  BY <1>1 DEF ImportInv, MadeApart, Importing
<1>4. Building' /\ Filling'
  BY <1>1 DEF ImportInv, Building, Completed, Filling, Stored, Unique
<1> QED
  BY <1>1, <1>2, <1>3, <1>4 DEF ImportInv, Unique, Stored

LEMMA TakenKeeps == ASSUME ImportInv, NameTakenAlready PROVE ImportInv'
<1>1. ImportTyped' /\ Stored(listed)'
  BY GiveUpTyped DEF NameTakenAlready, ImportInv, ImportTyped, Stored
<1> QED
  BY <1>1, GivenUp DEF NameTakenAlready, ImportInv, MadeApart, Importing

LEMMA AllocateKeeps == ASSUME ImportInv, NEW id \in Ids, Allocate(id) PROVE ImportInv'
<1>1. CASE GiveUp /\ UNCHANGED <<folders, stray>>
  <2>1. ImportTyped' /\ Stored(listed)'
    BY <1>1, GiveUpTyped DEF Allocate, ImportInv, ImportTyped, Stored
  <2> QED
    BY <1>1, <2>1, GivenUp DEF Allocate, ImportInv, MadeApart, Importing
<1>2. CASE /\ id \notin DOMAIN points \cup DOMAIN folders
           /\ folders' = AddTo(folders, id, "empty") /\ stray' = stray \ {id}
           /\ import' = [import EXCEPT !.step = "data", !.id = id, !.created = @ \cup {id}]
  <2> USE ImportPhases, <1>2
  <2>1. /\ import' = [step |-> "data", names |-> import.names, manifest |-> import.manifest,
                      id |-> id, created |-> import.created \cup {id}]
        /\ import.step = "allocate" /\ UNCHANGED <<listed, points>>
    BY DEF Allocate, Importing
  <2>2. /\ DOMAIN folders' = DOMAIN folders \cup {id}
        /\ \A x \in DOMAIN folders : folders'[x] = folders[x]
    BY DEF AddTo
  <2>3. ImportTyped'
    <3>1. folders' \in Tables(Ids, {"empty", "whole"})
      BY OneMoreTyped DEF ImportInv, ImportTyped
    <3>2. import' \in Imports
      <4>1. import.created \cup {id} \in SUBSET Ids
        OBVIOUS
      <4> QED
        BY <2>1, <4>1 DEF Imports, ImportSteps
    <3>3. stray' \in SUBSET Ids
      BY DEF ImportInv, ImportTyped
    <3> QED
      BY <2>1, <3>1, <3>2, <3>3 DEF ImportInv, ImportTyped
  <2>4. id \notin DOMAIN listed /\ id \notin DOMAIN import.manifest
    BY <2>1 DEF ImportInv, Stored, Building, Completed
  <2>5. Stored(listed)' /\ Stored(import.manifest)'
    BY <2>1, <2>2 DEF ImportInv, Stored, Building, Completed
  <2>6. MadeApart'
    BY <2>1, <2>2, <2>4 DEF ImportInv, MadeApart, Importing
  <2>7. Building' /\ Unique(listed)'
    <3>1. DOMAIN import.manifest = DOMAIN listed \cup import.created
      BY <2>1 DEF ImportInv, Building, Completed
    <3>2. Completed' = import.created
      BY <2>1, <2>4, <3>1 DEF Completed
    <3>3. Unique(import.manifest)' /\ Unique(listed)'
      BY <2>1 DEF ImportInv, Building, Unique
    <3> QED
      BY <2>1, <2>5, <3>1, <3>2, <3>3 DEF Building
  <2>8. Filling'
    BY <2>1, <2>4 DEF Allocate, Drawn, Filling
  <2> QED
    BY <2>3, <2>5, <2>6, <2>7, <2>8 DEF ImportInv
<1> QED
  BY <1>1, <1>2 DEF Allocate

\* A profile that is being filled is not among the listed ones.
LEMMA FillingApart ==
    ASSUME ImportInv, import.step \in {"data", "points", "append"}
    PROVE  /\ import.id \in Ids /\ import.id \in import.created
           /\ import.id \notin DOMAIN listed /\ import.id \notin DOMAIN import.manifest
BY DEF ImportInv, Filling, MadeApart, ImportTyped, Imports

LEMMA WriteDataKeeps == ASSUME ImportInv, WriteData PROVE ImportInv'
<1> USE ImportPhases, FillingApart
<1>0. import.step = "data" /\ UNCHANGED <<listed, points, stray>>
  BY DEF WriteData, Importing
<1>1. /\ DOMAIN folders' \subseteq DOMAIN folders \cup {import.id}
      /\ \A x \in DOMAIN folders \ {import.id} : x \in DOMAIN folders' /\ folders'[x] = folders[x]
  BY DEF WriteData, AddTo, Forget
<1>2. folders' \in Tables(Ids, {"empty", "whole"})
  BY <1>0, OneMoreTyped, OneLessTyped DEF WriteData, ImportInv, ImportTyped
<1>3. Stored(listed)' /\ Unique(listed)'
  BY <1>0, <1>1 DEF ImportInv, Stored, Unique
<1>4. CASE GiveUp
  <2>1. ImportTyped'
    BY <1>0, <1>2, <1>4, GiveUpTyped DEF ImportInv, ImportTyped
  <2> QED
    BY <1>0, <1>1, <1>3, <1>4, <2>1, GivenUp DEF ImportInv, MadeApart
<1>5. CASE folders' = AddTo(folders, import.id, "whole") /\ Proceed("points")
  <2>1. import' = [step |-> "points", names |-> import.names, manifest |-> import.manifest,
                   id |-> import.id, created |-> import.created]
    BY <1>5 DEF Proceed
  <2>2. import.id \in DOMAIN folders' /\ folders'[import.id] = "whole"
    BY <1>5 DEF AddTo
  <2>3. ImportTyped'
    BY <1>0, <1>2, <2>1 DEF ImportInv, ImportTyped, Imports, ImportSteps
  <2>4. MadeApart'
    BY <1>0, <1>1, <2>1 DEF ImportInv, MadeApart, Importing
  <2>5. Stored(import.manifest)'
    BY <1>0, <1>1, <2>1 DEF ImportInv, Building, Completed, Stored
  <2>6. Building' /\ Filling'
    BY <1>0, <2>1, <2>2, <2>5 DEF ImportInv, Building, Completed, Filling, Unique
  <2> QED
    BY <1>3, <2>3, <2>4, <2>6 DEF ImportInv
<1> QED
  BY <1>4, <1>5 DEF WriteData

LEMMA WritePointsKeeps == ASSUME ImportInv, WritePoints PROVE ImportInv'
<1> USE ImportPhases, FillingApart
<1>0. import.step = "points" /\ UNCHANGED <<listed, folders, stray>>
  BY DEF WritePoints, Importing
<1>1. /\ DOMAIN points' \subseteq DOMAIN points \cup {import.id}
      /\ \A x \in DOMAIN points' \ {import.id} : x \in DOMAIN points /\ points'[x] = points[x]
  BY DEF WritePoints, AddTo
<1>2. points' \in Tables(Ids, {"begun", "whole"})
  BY <1>0, OneMoreTyped DEF WritePoints, ImportInv, ImportTyped
<1>3. Stored(listed)' /\ Unique(listed)'
  BY <1>0, <1>1 DEF ImportInv, Stored, Unique
<1>4. CASE GiveUp
  <2>1. ImportTyped'
    BY <1>0, <1>2, <1>4, GiveUpTyped DEF ImportInv, ImportTyped
  <2> QED
    BY <1>0, <1>1, <1>3, <1>4, <2>1, GivenUp DEF ImportInv, MadeApart
<1>5. CASE points' = AddTo(points, import.id, "whole") /\ Proceed("append")
  <2>1. import' = [step |-> "append", names |-> import.names, manifest |-> import.manifest,
                   id |-> import.id, created |-> import.created]
    BY <1>5 DEF Proceed
  <2>2. import.id \in DOMAIN points' /\ points'[import.id] = "whole"
    BY <1>5 DEF AddTo
  <2>3. ImportTyped'
    BY <1>0, <1>2, <2>1 DEF ImportInv, ImportTyped, Imports, ImportSteps
  <2>4. MadeApart'
    BY <1>0, <1>1, <2>1 DEF ImportInv, MadeApart, Importing
  <2>5. Stored(import.manifest)'
    BY <1>0, <1>1, <2>1 DEF ImportInv, Building, Completed, Stored
  <2>6. Building' /\ Filling'
    BY <1>0, <2>1, <2>2, <2>5 DEF ImportInv, Building, Completed, Filling, Unique
  <2> QED
    BY <1>3, <2>3, <2>4, <2>6 DEF ImportInv
<1> QED
  BY <1>4, <1>5 DEF WritePoints

LEMMA AppendKeeps == ASSUME ImportInv, AppendProfile PROVE ImportInv'
<1> USE ImportPhases, FillingApart
<1>0. import.step = "append" /\ UNCHANGED <<listed, folders, points, stray>>
  BY DEF AppendProfile, Importing
<1> DEFINE m == AddTo(import.manifest, import.id, Head(import.names))
           next == IF Len(import.names) = 1 THEN "save" ELSE "allocate"
<1>1. import' = [step |-> next, names |-> Tail(import.names), manifest |-> m,
                 id |-> import.id, created |-> import.created]
  BY DEF AppendProfile
<1>2. /\ import.names # <<>> /\ Head(import.names) \in ProfileTexts
      /\ Tail(import.names) \in Seq(ProfileTexts)
  BY <1>0 DEF ImportInv, Filling
<1>3. m \in Manifests
  BY <1>0, <1>2, OneMoreTyped DEF Manifests
<1>4. /\ DOMAIN m = DOMAIN import.manifest \cup {import.id}
      /\ m[import.id] = Head(import.names)
      /\ \A x \in DOMAIN import.manifest : m[x] = import.manifest[x]
  BY <1>0 DEF AddTo
<1>5. Unique(m)
  <2>1. \A x \in DOMAIN import.manifest : import.manifest[x] # m[import.id]
    BY <1>0, <1>4 DEF ImportInv, Filling, NamesOf
  <2> QED
    BY <1>0, <1>4, <2>1 DEF ImportInv, Building, Completed, Unique
<1>6. Stored(m)
  BY <1>0, <1>4 DEF ImportInv, Building, Completed, Filling, Stored
<1>7. ImportTyped'
  BY <1>0, <1>1, <1>2, <1>3 DEF ImportInv, ImportTyped, Imports, ImportSteps
<1>8. Building' /\ Filling'
  <2>1. /\ import'.manifest = m /\ import'.step \in {"save", "allocate"}
        /\ import'.created = import.created
    BY <1>1
  <2>2. Unique(import.manifest)' /\ Stored(import.manifest)'
    BY <1>0, <1>5, <1>6, <2>1 DEF Unique, Stored
  <2> QED
    BY <1>0, <1>4, <2>1, <2>2 DEF ImportInv, Building, Completed, Filling
<1>9. MadeApart'
  BY <1>0, <1>1 DEF ImportInv, MadeApart, Importing
<1> QED
  BY <1>0, <1>7, <1>8, <1>9 DEF ImportInv, Unique, Stored

LEMMA SaveKeeps == ASSUME ImportInv, SaveManifest PROVE ImportInv'
<1>0. import.step = "save" /\ UNCHANGED <<folders, points, stray>>
  BY DEF SaveManifest, Importing
<1>1. CASE GiveUp /\ UNCHANGED listed
  <2>1. ImportTyped' /\ Stored(listed)'
    BY <1>0, <1>1, GiveUpTyped DEF ImportInv, ImportTyped, Stored
  <2> QED
    BY <1>0, <1>1, <2>1, GivenUp DEF ImportInv, MadeApart
<1>2. CASE listed' = import.manifest /\ import' = NoImport
  <2>2. ImportTyped'
    BY <1>0, <1>2, NoImportTyped, ImportPhases DEF ImportInv, ImportTyped
  <2>3. Unique(listed)' /\ Stored(listed)'
    BY <1>0, <1>2 DEF ImportInv, Building, Completed, Unique, Stored
  <2>4. MadeApart' /\ Building' /\ Filling'
    <3>1. import'.step = "none" /\ import'.created = {}
      BY <1>2 DEF NoImport
    <3>2. DOMAIN listed' = DOMAIN listed \cup import.created
      BY <1>0, <1>2 DEF ImportInv, Building, Completed
    <3>3. DOMAIN folders \cup DOMAIN points \subseteq DOMAIN listed \cup stray \cup import.created
      BY DEF ImportInv, MadeApart
    <3> QED
      BY <1>0, <3>1, <3>2, <3>3 DEF MadeApart, Building, Completed, Filling, Importing
  <2> QED
    BY <2>2, <2>3, <2>4 DEF ImportInv
<1> QED
  BY <1>1, <1>2 DEF SaveManifest

LEMMA UndoKeeps == ASSUME ImportInv, NEW id \in Ids, UndoProfile(id) PROVE ImportInv'
<1> USE ImportPhases
<1>1. /\ import.step = "undo" /\ id \in import.created /\ UNCHANGED listed
      /\ import' = [step |-> "undo", names |-> import.names, manifest |-> import.manifest,
                    id |-> import.id, created |-> import.created \ {id}]
  BY DEF UndoProfile, Importing
<1>2. /\ folders' \in {Forget(folders, id), folders} /\ points' \in {Forget(points, id), points}
      /\ stray' \in SUBSET Ids
      /\ DOMAIN folders' \cup DOMAIN points'
            \subseteq DOMAIN listed \cup stray' \cup import'.created
  BY <1>1 DEF UndoProfile, ImportInv, ImportTyped, MadeApart, Forget
<1>3. ImportTyped'
  <2>1. /\ folders' \in Tables(Ids, {"empty", "whole"})
        /\ points' \in Tables(Ids, {"begun", "whole"})
    BY <1>2, OneLessTyped DEF ImportInv, ImportTyped
  <2>2. import' \in Imports
    <3>1. import.created \ {id} \in SUBSET Ids
      OBVIOUS
    <3> QED
      BY <1>1, <3>1 DEF Imports, ImportSteps, ImportInv, ImportTyped
  <2> QED
    BY <1>1, <1>2, <2>1, <2>2 DEF ImportInv, ImportTyped
<1>4. Stored(listed)' /\ Unique(listed)'
  BY <1>1, <1>2 DEF ImportInv, MadeApart, Stored, Unique, Forget
<1>5. MadeApart' /\ Building' /\ Filling'
  BY <1>1, <1>2 DEF ImportInv, MadeApart, Building, Filling, Importing
<1> QED
  BY <1>3, <1>4, <1>5 DEF ImportInv

\* The import ends, or dies with the manager; what it had made stays.
LEMMA EndKeeps ==
    ASSUME ImportInv, import' = NoImport, UNCHANGED <<listed, folders, points>>,
           stray' = stray \cup import.created
    PROVE  ImportInv'
<1>1. import'.step = "none" /\ import'.created = {}
  BY DEF NoImport
<1>2. ImportTyped'
  BY NoImportTyped, ImportPhases DEF ImportInv, ImportTyped
<1>3. MadeApart' /\ Building' /\ Filling'
  BY <1>1 DEF ImportInv, MadeApart, Building, Filling, Importing
<1> QED
  BY <1>2, <1>3 DEF ImportInv, Stored, Unique

LEMMA ImportKeeps == ImportInv /\ [ImportNext]_importVars => ImportInv'
<1> SUFFICES ASSUME ImportInv, [ImportNext]_importVars PROVE ImportInv'
  OBVIOUS
<1>1. ASSUME NEW names \in Backups, ImportProfileBackup(names) PROVE ImportInv'
  BY <1>1, BeginKeeps
<1>2. ASSUME NEW id \in Ids, Allocate(id) PROVE ImportInv'
  BY <1>2, AllocateKeeps
<1>3. ASSUME NEW id \in Ids, UndoProfile(id) PROVE ImportInv'
  BY <1>3, UndoKeeps
<1>4. CASE NameTakenAlready
  BY <1>4, TakenKeeps
<1>5. CASE WriteData
  BY <1>5, WriteDataKeeps
<1>6. CASE WritePoints
  BY <1>6, WritePointsKeeps
<1>7. CASE AppendProfile
  BY <1>7, AppendKeeps
<1>8. CASE SaveManifest
  BY <1>8, SaveKeeps
<1>9. CASE ImportFails \/ ImportCut
  BY <1>9, EndKeeps DEF ImportFails, ImportCut
<1>10. CASE UNCHANGED importVars
  BY <1>10 DEF importVars, ImportInv, ImportTyped, Unique, Stored, MadeApart, Building, Completed,
               Filling, Importing
<1> QED
  BY <1>1, <1>2, <1>3, <1>4, <1>5, <1>6, <1>7, <1>8, <1>9, <1>10 DEF ImportNext

\* Imported profiles are whole, under names of their own and beside what was there, or not
\* there, whatever fails and wherever the manager dies (profile_backup.go:263, :296).
THEOREM ImportsWhole == ImportSpec => []ImportAllOrNothing
<1>1. ImportInv => ImportAllOrNothing
  BY DEF ImportInv, Unique, Stored, MadeApart, ImportAllOrNothing
<1> QED
  BY <1>1, ImportStarts, ImportKeeps, PTL DEF ImportSpec

\* The manifest and the files of the profiles have their types, and what an import has made
\* are profiles.
THEOREM ImportTypeCorrect == ImportSpec => []ImportTypeOK
<1>1. \A D, R : \A f \in Tables(D, R) : DOMAIN f \subseteq D /\ NamesOf(f) \subseteq R
  BY DEF Tables, NamesOf
<1>2. ImportInv => ImportTypeOK
  <2> SUFFICES ASSUME ImportInv PROVE ImportTypeOK
    OBVIOUS
  <2>1. ImportTyped
    BY DEF ImportInv
  <2>2. DOMAIN listed \subseteq Ids /\ NamesOf(listed) \subseteq ProfileTexts
    BY <1>1, <2>1 DEF ImportTyped, Manifests
  <2>3. DOMAIN folders \subseteq Ids /\ NamesOf(folders) \subseteq {"empty", "whole"}
    BY <1>1, <2>1 DEF ImportTyped
  <2>4. DOMAIN points \subseteq Ids /\ NamesOf(points) \subseteq {"begun", "whole"}
    BY <1>1, <2>1 DEF ImportTyped
  <2>5. import.step \in ImportSteps /\ import.created \subseteq Ids /\ stray \subseteq Ids
    BY <2>1 DEF ImportTyped, Imports
  <2> QED
    BY <2>2, <2>3, <2>4, <2>5 DEF ImportTypeOK
<1> QED
  BY <1>2, ImportStarts, ImportKeeps, PTL DEF ImportSpec

-----------------------------------------------------------------------------
(* The maps of the profiles.                                               *)

Jobs == [step : JobSteps, owner : Owners \cup {NoOwner}, export : Directory, replaces : BOOLEAN]

SnapTypes ==
    /\ owner \in owners /\ owners \subseteq Owners /\ snapFaults \in Nat /\ snapCrashes \in Nat
    /\ job \in Jobs
    /\ DOMAIN current = Owners /\ DOMAIN previous = Owners

\* The job is over for those who ask before the mutex is given back.
JobRuns == OneJob /\ (job.step = "ended" => generating = NoOwner)

\* What a profile has: a whole map or none in its place, and a partial one at most beside a
\* whole one; once stored, a whole one is in one of the places.
MapsOf(p) ==
    /\ current[p] \in {Nothing, Whole(p)}
    /\ previous[p] \in {Nothing, Whole(p)} \/ (previous[p] = Partial(Whole(p)) /\ current[p] = Whole(p))
    /\ p \in stored => Whole(p) \in {current[p], previous[p]}

\* The exchange is that of the active profile, and how far it is says what is where.
Exchanged ==
    /\ job.step \in {"export"} \cup Activating => job.owner = owner
    /\ job.step \in Activating => job.export = Whole(owner)
    /\ job.step \in {"stale", "cleanup"} => current[owner] = Whole(owner)
    /\ job.step = "backup" => previous[owner] = Nothing
    /\ job.step \in {"place", "restore"} =>
          /\ current[owner] = Nothing
          /\ previous[owner] = IF job.replaces THEN Whole(owner) ELSE Nothing
    /\ job.step = "restore" => job.replaces /\ snapFaults > 0

\* A stored map is out of its place only for a moment, or after a crash or a second fault.
Missed ==
    \A p \in stored \cap owners :
        current[p] # Whole(p) =>
          snapCrashes > 0 \/ snapFaults > 1 \/ (p = owner /\ job.step \in {"place", "restore"})

SnapshotsInv ==
    SnapTypes /\ JobRuns /\ (\A p \in owners : MapsOf(p)) /\ Exchanged /\ Missed

LEMMA Refilled ==
    ASSUME NEW p, NEW b, NEW c
    PROVE  [[of |-> p, whole |-> b] EXCEPT !.whole = c] = [of |-> p, whole |-> c]
OBVIOUS

\* Nothing, a whole map and a part of one are different things.
LEMMA DifferentDirectories ==
    /\ Nothing \in Directory /\ Partial(Nothing) = Nothing
    /\ \A p \in Owners :
          /\ Whole(p) \in Directory /\ Whole(p) # Nothing
          /\ Partial(Whole(p)) \notin {Nothing, Whole(p)}
          /\ Partial(Partial(Whole(p))) = Partial(Whole(p))
<1>1. NoOwner \notin Owners
  BY SnapshotConstants
<1>2. Partial(Nothing) = Nothing
  BY Refilled, Zenon DEF Nothing, Partial
<1>3. ASSUME NEW p PROVE Partial(Whole(p)) = [of |-> p, whole |-> FALSE]
  BY Refilled, Zenon DEF Whole, Partial
<1>4. ASSUME NEW p PROVE Partial([of |-> p, whole |-> FALSE]) = [of |-> p, whole |-> FALSE]
  BY Refilled, Zenon DEF Partial
<1>5. Nothing \in Directory /\ \A p \in Owners : Whole(p) \in Directory /\ Whole(p) # Nothing
  BY <1>1 DEF Directory, Nothing, Whole
<1>6. ASSUME NEW p \in Owners
      PROVE  [of |-> p, whole |-> FALSE] \notin {Nothing, Whole(p)}
  BY <1>1 DEF Nothing, Whole
<1> QED
  BY <1>2, <1>3, <1>4, <1>5, <1>6, Zenon

LEMMA NextStep ==
    ASSUME SnapTypes, NEW s \in JobSteps, JobStep(s)
    PROVE  job' \in Jobs /\ job'.step = s /\ UNCHANGED <<job.owner, job.export, job.replaces>>
BY DEF SnapTypes, Jobs, JobStep

LEMMA EndedStep ==
    ASSUME SnapshotsInv, NEW failing, JobEnds(failing)
    PROVE  /\ job' \in Jobs /\ job'.step = "ended" /\ UNCHANGED <<job.owner, job.export, job.replaces>>
           /\ job.step # "none" => JobRuns'
<1>1. job' \in Jobs /\ job'.step = "ended" /\ UNCHANGED <<job.owner, job.export, job.replaces>>
  BY NextStep DEF SnapshotsInv, JobEnds, JobSteps
<1> QED
  BY <1>1 DEF JobEnds, SnapshotsInv, JobRuns, OneJob

LEMMA SnapshotsStart == SnapshotsInit => SnapshotsInv
<1> SUFFICES ASSUME SnapshotsInit PROVE SnapshotsInv
  OBVIOUS
<1>1. NoJob \in Jobs /\ NoJob.step = "none"
  BY DifferentDirectories DEF NoJob, Jobs, JobSteps
<1>2. SnapTypes /\ JobRuns
  BY <1>1, SnapshotConstants DEF SnapshotsInit, SnapTypes, JobRuns, OneJob
<1>3. \A p \in Owners : current[p] = Nothing /\ previous[p] = Nothing
  BY DEF SnapshotsInit
<1> QED
  BY <1>1, <1>2, <1>3 DEF SnapshotsInit, SnapshotsInv, MapsOf, Exchanged, Activating, Missed

\* Steps that leave the directories alone, none of them in the middle of an exchange.
LEMMA StoreQuiet ==
    ASSUME SnapshotsInv, SnapTypes', JobRuns', Exchanged', UNCHANGED <<owners, storeVars>>,
           snapFaults' >= snapFaults, snapCrashes' >= snapCrashes,
           \/ UNCHANGED <<owner, job>>
           \/ job.step \notin {"place", "restore"}
           \/ job.step = "place" /\ owner \notin stored
           \/ UNCHANGED owner /\ job.step = "place" /\ job'.step = "restore"
           \/ snapFaults' > 1
           \/ snapCrashes' > 0
    PROVE  SnapshotsInv'
<1>1. \A p \in owners' : MapsOf(p)'
  BY DEF SnapshotsInv, MapsOf, storeVars
<1>2. snapFaults \in Nat /\ snapCrashes \in Nat /\ snapFaults' \in Nat /\ snapCrashes' \in Nat
  BY DEF SnapshotsInv, SnapTypes
<1>3. Missed'
  BY <1>2 DEF SnapshotsInv, Missed, storeVars
<1> QED
  BY <1>1, <1>3 DEF SnapshotsInv

LEMMA SettingsQuiet ==
    ASSUME SnapshotsInv, Profiles0 \/ (\E p \in Owners : ActivateOwner(p)),
           UNCHANGED <<job, storeVars, snapCounters>>, JobRuns',
           Profiles0 \/ ~HoldsData
    PROVE  SnapshotsInv'
<1>1. SnapTypes' /\ UNCHANGED owners
  BY DEF SnapshotsInv, SnapTypes, Profiles0, ActivateOwner, storeVars, snapCounters
<1>2. snapFaults' >= snapFaults /\ snapCrashes' >= snapCrashes
  BY DEF SnapshotsInv, SnapTypes, snapCounters
<1>3. Exchanged'
  BY DEF SnapshotsInv, Exchanged, Profiles0, HoldsData, Activating, storeVars, snapCounters
<1>4. UNCHANGED <<owner, job>> \/ job.step \notin {"place", "restore"}
  BY DEF Profiles0, HoldsData, Activating
<1> QED
  BY <1>1, <1>2, <1>3, <1>4, StoreQuiet

LEMMA OutsideQuiet ==
    ASSUME SnapshotsInv,
           \/ \E on, minutes : SetMapSnapshotSettings(on, minutes)
           \/ \E p \in Owners : ActivateOwner(p)
           \/ EvaluateSettings \/ EvaluationDone \/ ScheduleIfDue \/ ScheduleNot
    PROVE  SnapshotsInv'
<1>1. /\ UNCHANGED <<job, storeVars, snapCounters>>
      /\ Profiles0 \/ ~HoldsData
      /\ Profiles0 \/ \E p \in Owners : ActivateOwner(p)
  BY DEF SetMapSnapshotSettings, ActivateOwner, EvaluateSettings, EvaluationDone, ScheduleIfDue,
         ScheduleNot
<1>2. JobRuns'
  BY DEF SetMapSnapshotSettings, ActivateOwner, EvaluateSettings, EvaluationDone, ScheduleIfDue,
         ScheduleNot, runtimeVars, SnapshotsInv, JobRuns, OneJob
<1> QED
  BY <1>1, <1>2, SettingsQuiet

LEMMA TriggerQuiet ==
    ASSUME SnapshotsInv, NEW automatic \in BOOLEAN, TriggerMapSnapshot(automatic) PROVE SnapshotsInv'
<1>1. CASE UNCHANGED <<operation, generating, job>>
  <2>1. Profiles0 /\ UNCHANGED <<job, storeVars, snapCounters>> /\ JobRuns'
    BY <1>1 DEF TriggerMapSnapshot, SnapshotsInv, JobRuns, OneJob
  <2> QED
    BY <2>1, SettingsQuiet
<1>2. CASE /\ operation = "free" /\ operation' = "job" /\ generating' = owner
           /\ job' = [NoJob EXCEPT !.step = "wait", !.owner = owner]
  <2>1. /\ UNCHANGED <<owner, owners, storeVars, snapFaults, snapCrashes>>
        /\ job.step = "none"
    BY <1>2 DEF TriggerMapSnapshot, Profiles0, snapCounters, SnapshotsInv, JobRuns, OneJob
  <2>2. owner \in Owners
    BY DEF SnapshotsInv, SnapTypes
  <2>3. job' \in Jobs /\ job'.step = "wait" /\ job'.owner = owner
    BY <1>2, <2>2, DifferentDirectories DEF NoJob, Jobs, JobSteps
  <2>4. SnapTypes' /\ JobRuns' /\ Exchanged'
    BY <1>2, <2>1, <2>3 DEF SnapshotsInv, SnapTypes, JobRuns, OneJob, Exchanged, Activating, storeVars
  <2>5. snapFaults' >= snapFaults /\ snapCrashes' >= snapCrashes
    BY <2>1 DEF SnapshotsInv, SnapTypes
  <2> QED
    BY <2>1, <2>4, <2>5, StoreQuiet
<1> QED
  BY <1>1, <1>2 DEF TriggerMapSnapshot

\* Until the exchange begins the job touches no directory of the store.
LEMMA JobQuiet ==
    ASSUME SnapshotsInv, LockData \/ CheckProfile \/ Export \/ ExportFails \/ ReleaseOperation
    PROVE  SnapshotsInv'
<1>1. /\ UNCHANGED <<owner, owners, storeVars, snapFaults, snapCrashes>>
      /\ job.step \in {"wait", "check", "export", "ended"} /\ owner \in Owners
      /\ snapFaults' >= snapFaults /\ snapCrashes' >= snapCrashes
  <2>1. /\ UNCHANGED <<owner, owners, storeVars, snapFaults, snapCrashes>>
        /\ job.step \in {"wait", "check", "export", "ended"}
    BY DEF LockData, CheckProfile, Export, ExportFails, ReleaseOperation, JobOnly, Profiles0,
           snapCounters
  <2> QED
    BY <2>1 DEF SnapshotsInv, SnapTypes
<1>2. /\ job' \in Jobs /\ JobRuns' /\ job'.step \in {"none", "check", "export", "inspect", "ended"}
      /\ job'.step \in {"export", "inspect"} => job'.owner = owner
      /\ job'.step = "inspect" => job'.export = Whole(owner)
  <2>1. SnapTypes /\ JobRuns /\ Exchanged
    BY DEF SnapshotsInv
  <2>2. CASE LockData
    <3>1. job' \in Jobs /\ job'.step = "check" /\ UNCHANGED job.owner
      BY <2>1, <2>2, NextStep DEF LockData, JobSteps
    <3> QED
      BY <2>1, <2>2, <3>1 DEF LockData, JobOnly, runtimeVars, JobRuns, OneJob
  <2>3. CASE CheckProfile /\ owner = job.owner /\ JobStep("export") /\ UNCHANGED runtimeVars
    <3>1. job' \in Jobs /\ job'.step = "export" /\ UNCHANGED job.owner
      BY <2>1, <2>3, NextStep DEF JobSteps
    <3> QED
      BY <2>1, <2>3, <3>1 DEF CheckProfile, runtimeVars, JobRuns, OneJob
  <2>4. CASE JobEnds(TRUE)
    BY <1>1, <2>4, EndedStep
  <2>5. CASE Export
    <3>1. job' = [job EXCEPT !.step = "inspect", !.export = Whole(owner)] /\ job.owner = owner
      BY <2>1, <2>5 DEF Export, Exchanged
    <3>2. job' \in Jobs /\ job'.step = "inspect" /\ job'.owner = owner /\ job'.export = Whole(owner)
      BY <1>1, <2>1, <3>1, DifferentDirectories DEF SnapTypes, Jobs, JobSteps, Activating
    <3> QED
      BY <2>1, <2>5, <3>1, <3>2 DEF Export, JobOnly, runtimeVars, JobRuns, OneJob
  <2>6. CASE ReleaseOperation
    <3>1. NoJob \in Jobs /\ NoJob.step = "none"
      BY DifferentDirectories DEF NoJob, Jobs, JobSteps
    <3>2. generating = NoOwner
      BY <2>1, <2>6 DEF ReleaseOperation, JobRuns, OneJob
    <3> QED
      BY <2>6, <3>1, <3>2 DEF ReleaseOperation, JobRuns, OneJob
  <2> QED
    BY <2>2, <2>3, <2>4, <2>5, <2>6 DEF CheckProfile, ExportFails
<1>3. SnapTypes' /\ Exchanged'
  BY <1>1, <1>2 DEF SnapshotsInv, SnapTypes, Exchanged, Activating, storeVars
<1> QED
  BY <1>1, <1>2, <1>3, StoreQuiet

-----------------------------------------------------------------------------
(* The exchange.                                                           *)

LEMMA ExchangeFacts ==
    ASSUME SnapshotsInv, job.step \in Activating
    PROVE  /\ job.owner = owner /\ owner \in owners /\ owner \in Owners /\ MapsOf(owner)
           /\ \A table, d : DOMAIN table = Owners =>
                 /\ DOMAIN Put(table, d) = Owners /\ Put(table, d)[owner] = d
                 /\ \A p \in Owners : p # owner => Put(table, d)[p] = table[p]
           /\ Has(current) <=> current[owner] # Nothing
           /\ Has(previous) <=> previous[owner] # Nothing
           /\ DOMAIN current = Owners /\ DOMAIN previous = Owners
           /\ snapFaults \in Nat /\ snapCrashes \in Nat /\ Exchanged /\ JobRuns /\ job \in Jobs
BY DEF SnapshotsInv, SnapTypes, Exchanged, Put, Has

\* A step of the exchange that leaves the maps of the other profiles alone.
LEMMA ExchangeKeeps ==
    ASSUME SnapshotsInv, job.step \in Activating, Profiles0,
           stored' \in {stored, stored \cup {owner}}, job' \in Jobs, JobRuns', Exchanged',
           snapFaults' \in Nat, snapFaults' >= snapFaults, snapCrashes' = snapCrashes,
           DOMAIN current' = Owners, DOMAIN previous' = Owners,
           \A p \in Owners : p # owner => current'[p] = current[p] /\ previous'[p] = previous[p],
           MapsOf(owner)',
           \/ owner \notin stored' \/ current'[owner] = Whole(owner)
           \/ job'.step \in {"place", "restore"} \/ snapFaults' > 1
           \/ snapCrashes > 0
    PROVE  SnapshotsInv'
<1>1. SnapTypes'
  BY DEF SnapshotsInv, SnapTypes, Profiles0
<1>2. ASSUME NEW p \in owners' PROVE MapsOf(p)'
  <2>1. p \in Owners /\ MapsOf(p)
    BY <1>2 DEF SnapshotsInv, SnapTypes, Profiles0
  <2>2. CASE p = owner
    BY <2>2 DEF MapsOf, Profiles0
  <2>3. CASE p # owner
    BY <2>1, <2>3 DEF MapsOf
  <2> QED
    BY <2>2, <2>3
<1>3. Missed'
  <2>1. ASSUME NEW p \in stored' \cap owners', p # owner, current'[p] # Whole(p)
        PROVE  snapCrashes' > 0 \/ snapFaults' > 1
    <3>1. p \in stored \cap owners /\ p \in Owners /\ current[p] # Whole(p)
      BY <2>1 DEF SnapshotsInv, SnapTypes, Profiles0
    <3> QED
      BY <2>1, <3>1 DEF SnapshotsInv, SnapTypes, Missed
  <2> QED
    BY <2>1 DEF Missed, Profiles0
<1> QED
  BY <1>1, <1>2, <1>3 DEF SnapshotsInv

\* A step of the job that goes on, and its place in the runtime.
LEMMA GoesOn ==
    ASSUME SnapshotsInv, job.step \in Activating, NEW s \in Activating, UNCHANGED runtimeVars,
           job' \in Jobs, job'.step = s, job'.owner = job.owner
    PROVE  JobRuns'
BY DEF SnapshotsInv, JobRuns, OneJob, runtimeVars, Activating

LEMMA InspectKeeps == ASSUME SnapshotsInv, Inspect PROVE SnapshotsInv'
<1>1. /\ job.step \in Activating /\ job.step = "inspect" /\ Profiles0
      /\ UNCHANGED <<stored, snapFaults, snapCrashes, runtimeVars>>
  BY DEF Inspect, Activating, JobOnly, snapCounters
<1>2. /\ job.owner = owner /\ owner \in Owners /\ MapsOf(owner)
      /\ snapFaults \in Nat /\ DOMAIN current = Owners /\ DOMAIN previous = Owners
      /\ Has(current) <=> current[owner] # Nothing
      /\ Has(previous) <=> previous[owner] # Nothing
      /\ SnapTypes
  BY <1>1, ExchangeFacts DEF SnapshotsInv
<1>3. \/ /\ current[owner] = Nothing /\ previous[owner] # Nothing
         /\ current' = Put(current, previous[owner]) /\ previous' = Put(previous, Nothing)
         /\ JobStep("backup")
      \/ /\ current[owner] # Nothing /\ previous[owner] # Nothing
         /\ UNCHANGED <<current, previous>> /\ JobStep("stale")
      \/ /\ previous[owner] = Nothing /\ UNCHANGED <<current, previous>> /\ JobStep("backup")
  BY <1>2 DEF Inspect
<1>4. /\ job' \in Jobs /\ job'.step \in {"stale", "backup"}
      /\ UNCHANGED <<job.owner, job.export, job.replaces>>
      /\ job'.step = "stale" => UNCHANGED <<current, previous>> /\ current[owner] # Nothing
  BY <1>2, <1>3, NextStep DEF JobSteps, Activating
<1>5. /\ DOMAIN current' = Owners /\ DOMAIN previous' = Owners
      /\ \A p \in Owners : p # owner => current'[p] = current[p] /\ previous'[p] = previous[p]
  BY <1>1, <1>2, <1>3, ExchangeFacts
<1>6. \/ /\ current[owner] = Nothing /\ current'[owner] = previous[owner] /\ previous'[owner] = Nothing
      \/ /\ current[owner] # Nothing /\ previous[owner] # Nothing
         /\ UNCHANGED <<current, previous>> /\ job'.step = "stale"
      \/ /\ previous[owner] = Nothing /\ UNCHANGED <<current, previous>>
  BY <1>1, <1>2, <1>3, <1>4, ExchangeFacts, NextStep DEF JobSteps, Activating
<1>7. MapsOf(owner)' /\ (owner \in stored => current'[owner] = Whole(owner))
      /\ (job'.step = "stale" => current'[owner] = Whole(owner))
      /\ (job'.step = "backup" => previous'[owner] = Nothing)
  <2>1. Whole(owner) # Nothing /\ Partial(Whole(owner)) \notin {Nothing, Whole(owner)}
    BY <1>2, DifferentDirectories
  <2> QED
    BY <1>1, <1>2, <1>4, <1>6, <2>1 DEF MapsOf, Profiles0
<1>8. JobRuns'
  BY <1>1, <1>4, GoesOn DEF Activating
<1>9. Exchanged'
  BY <1>1, <1>2, <1>4, <1>7 DEF SnapshotsInv, Exchanged, Activating, Profiles0
<1> QED
  BY <1>1, <1>2, <1>4, <1>5, <1>7, <1>8, <1>9, ExchangeKeeps

LEMMA StaleKeeps == ASSUME SnapshotsInv, RemoveStale \/ Cleanup PROVE SnapshotsInv'
<1>1. /\ job.step \in Activating /\ job.step \in {"stale", "cleanup"} /\ Profiles0
      /\ UNCHANGED <<current, stored, snapFaults, snapCrashes>>
      /\ previous' = Put(previous, Nothing)
  BY DEF RemoveStale, Cleanup, Activating, JobOnly, snapCounters
<1>2. /\ job.owner = owner /\ owner \in Owners /\ MapsOf(owner) /\ current[owner] = Whole(owner)
      /\ snapFaults \in Nat /\ DOMAIN current = Owners /\ DOMAIN previous = Owners /\ SnapTypes
      /\ DOMAIN previous' = Owners /\ previous'[owner] = Nothing
      /\ \A p \in Owners : p # owner => previous'[p] = previous[p]
  BY <1>1, ExchangeFacts DEF SnapshotsInv, Exchanged
<1>3. /\ job' \in Jobs /\ job'.step \in {"backup", "ended"} /\ JobRuns'
      /\ UNCHANGED <<job.owner, job.export, job.replaces>>
  <2>1. CASE RemoveStale
    BY <1>1, <1>2, <2>1, NextStep, GoesOn DEF RemoveStale, JobOnly, JobSteps, Activating
  <2>2. CASE Cleanup
    BY <1>1, <2>2, EndedStep DEF Cleanup, Activating
  <2> QED
    BY <2>1, <2>2
<1>4. MapsOf(owner)'
  BY <1>1, <1>2 DEF MapsOf, Profiles0
<1>5. Exchanged'
  BY <1>1, <1>2, <1>3 DEF SnapshotsInv, Exchanged, JobRuns, Activating, Profiles0
<1> QED
  BY <1>1, <1>2, <1>3, <1>4, <1>5, ExchangeKeeps DEF Profiles0

LEMMA BackUpKeeps == ASSUME SnapshotsInv, BackUp PROVE SnapshotsInv'
<1>1. /\ job.step \in Activating /\ job.step = "backup" /\ Profiles0
      /\ UNCHANGED <<stored, snapFaults, snapCrashes, runtimeVars>>
  BY DEF BackUp, Activating, JobOnly, snapCounters
<1>2. /\ job.owner = owner /\ owner \in Owners /\ MapsOf(owner) /\ previous[owner] = Nothing
      /\ snapFaults \in Nat /\ DOMAIN current = Owners /\ DOMAIN previous = Owners /\ job \in Jobs
      /\ Has(current) <=> current[owner] # Nothing
  BY <1>1, ExchangeFacts DEF Exchanged
<1>3. /\ job' \in Jobs /\ job'.step = "place" /\ job'.replaces = (current[owner] # Nothing)
      /\ UNCHANGED <<job.owner, job.export>>
  <2>1. Has(current) \in BOOLEAN
    BY DEF Has
  <2> QED
    BY <1>2, <2>1 DEF BackUp, Jobs, JobSteps, Activating
<1>4. /\ DOMAIN current' = Owners /\ DOMAIN previous' = Owners
      /\ \A p \in Owners : p # owner => current'[p] = current[p] /\ previous'[p] = previous[p]
      /\ current'[owner] = Nothing
      /\ previous'[owner] = current[owner]
  BY <1>1, <1>2, ExchangeFacts DEF BackUp
<1>5. MapsOf(owner)'
  BY <1>1, <1>2, <1>4 DEF MapsOf, Profiles0
<1>6. JobRuns'
  BY <1>1, <1>3, GoesOn DEF Activating
<1>7. Exchanged'
  BY <1>1, <1>2, <1>3, <1>4 DEF SnapshotsInv, Exchanged, MapsOf, Activating, Profiles0
<1> QED
  BY <1>1, <1>2, <1>3, <1>4, <1>5, <1>6, <1>7, ExchangeKeeps

LEMMA PlacedKeeps == ASSUME SnapshotsInv, Place \/ RestorePrevious PROVE SnapshotsInv'
<1>1. /\ job.step \in Activating /\ job.step \in {"place", "restore"} /\ Profiles0
      /\ UNCHANGED <<snapFaults, snapCrashes>>
  BY DEF Place, RestorePrevious, Activating, snapCounters
<1>2. /\ job.owner = owner /\ owner \in Owners /\ MapsOf(owner)
      /\ snapFaults \in Nat /\ DOMAIN current = Owners /\ DOMAIN previous = Owners
      /\ previous[owner] = IF job.replaces THEN Whole(owner) ELSE Nothing
      /\ job.step = "restore" => previous[owner] = Whole(owner)
      /\ job.export = Whole(owner) /\ SnapTypes
  BY <1>1, ExchangeFacts DEF Exchanged, SnapshotsInv
<1>3. /\ DOMAIN current' = Owners /\ DOMAIN previous' = Owners
      /\ \A p \in Owners : p # owner => current'[p] = current[p] /\ previous'[p] = previous[p]
      /\ current'[owner] = Whole(owner)
      /\ previous'[owner] \in {Nothing, Whole(owner)}
      /\ stored' \in {stored, stored \cup {owner}}
  <2>1. /\ current' = Put(current, Whole(owner))
        /\ previous' = previous \/ previous' = Put(previous, Nothing)
        /\ stored' \in {stored, stored \cup {owner}}
    BY <1>1, <1>2 DEF Place, RestorePrevious
  <2>2. /\ DOMAIN current' = Owners /\ current'[owner] = Whole(owner)
        /\ \A p \in Owners : p # owner => current'[p] = current[p]
    BY <1>1, <1>2, <2>1, ExchangeFacts
  <2>3. /\ DOMAIN previous' = Owners /\ previous'[owner] \in {previous[owner], Nothing}
        /\ \A p \in Owners : p # owner => previous'[p] = previous[p]
    BY <1>1, <1>2, <2>1, ExchangeFacts
  <2> QED
    BY <1>2, <2>1, <2>2, <2>3
<1>4. /\ job' \in Jobs /\ job'.step \in {"cleanup", "ended"} /\ JobRuns'
      /\ UNCHANGED <<job.owner, job.export, job.replaces>>
  <2>1. CASE JobStep("cleanup") /\ UNCHANGED runtimeVars
    BY <1>1, <1>2, <2>1, NextStep, GoesOn DEF JobSteps, Activating
  <2>2. CASE JobEnds(TRUE) \/ JobEnds(FALSE)
    BY <1>1, <2>2, EndedStep DEF Activating
  <2> QED
    BY <2>1, <2>2 DEF Place, RestorePrevious
<1>5. MapsOf(owner)'
  BY <1>1, <1>3 DEF MapsOf, Profiles0
<1>6. Exchanged'
  BY <1>1, <1>2, <1>3, <1>4 DEF SnapshotsInv, Exchanged, JobRuns, Activating, Profiles0
<1> QED
  BY <1>1, <1>2, <1>3, <1>4, <1>5, <1>6, ExchangeKeeps DEF Profiles0

LEMMA PlaceFailsKeeps == ASSUME SnapshotsInv, PlaceFails PROVE SnapshotsInv'
<1>1. /\ job.step \in Activating /\ job.step = "place" /\ Profiles0 /\ UNCHANGED storeVars
      /\ UNCHANGED snapCrashes /\ snapFaults' = snapFaults + 1
  BY DEF PlaceFails, Activating, SnapFault
<1>2. /\ job.owner = owner /\ owner \in Owners /\ MapsOf(owner) /\ snapFaults \in Nat
      /\ snapCrashes \in Nat /\ SnapTypes
      /\ ~job.replaces => owner \notin stored
      /\ current[owner] = Nothing /\ job.export = Whole(owner)
      /\ previous[owner] = IF job.replaces THEN Whole(owner) ELSE Nothing
  BY <1>1, ExchangeFacts, DifferentDirectories DEF Exchanged, SnapshotsInv, MapsOf
<1>3. /\ job' \in Jobs /\ JobRuns' /\ UNCHANGED <<job.owner, job.export, job.replaces>>
      /\ job'.step = IF job.replaces THEN "restore" ELSE "ended"
  <2>1. CASE job.replaces
    BY <1>1, <1>2, <2>1, NextStep, GoesOn DEF PlaceFails, JobSteps, Activating
  <2>2. CASE ~job.replaces
    BY <1>1, <2>2, EndedStep DEF PlaceFails, Activating
  <2> QED
    BY <2>1, <2>2
<1>4. SnapTypes'
  BY <1>1, <1>2, <1>3 DEF SnapTypes, Profiles0, storeVars
<1>5. Exchanged'
  BY <1>1, <1>2, <1>3 DEF SnapshotsInv, Exchanged, Activating, Profiles0, storeVars
<1> QED
  BY <1>1, <1>2, <1>3, <1>4, <1>5, StoreQuiet DEF Profiles0

LEMMA StepFailsKeeps == ASSUME SnapshotsInv, StoreStepFails PROVE SnapshotsInv'
<1>1. /\ job.step \in {"inspect", "stale", "backup", "restore", "cleanup"}
      /\ job.step \in Activating /\ Profiles0 /\ UNCHANGED <<current, stored, snapCrashes>>
      /\ snapFaults' = snapFaults + 1
      /\ job' \in Jobs /\ job'.step = "ended" /\ JobRuns'
      /\ UNCHANGED <<job.owner, job.export, job.replaces>>
  BY EndedStep DEF StoreStepFails, Activating, SnapFault
<1>2. /\ job.owner = owner /\ owner \in Owners /\ owner \in owners /\ MapsOf(owner)
      /\ snapFaults \in Nat /\ snapCrashes \in Nat /\ DOMAIN current = Owners /\ DOMAIN previous = Owners
      /\ job.step \in {"stale", "cleanup"} => current[owner] = Whole(owner)
      /\ job.step = "restore" => snapFaults > 0
  BY <1>1, ExchangeFacts DEF Exchanged
<1>3. /\ DOMAIN previous' = Owners /\ \A p \in Owners : p # owner => previous'[p] = previous[p]
      /\ \/ previous'[owner] = previous[owner]
         \/ job.step \in {"stale", "cleanup"} /\ previous'[owner] = Partial(previous[owner])
  BY <1>1, <1>2, ExchangeFacts DEF StoreStepFails
<1>4. MapsOf(owner)'
  BY <1>1, <1>2, <1>3, DifferentDirectories DEF MapsOf, Profiles0
<1>5. Exchanged'
  BY <1>1, <1>2 DEF Exchanged, JobRuns, Activating, Profiles0
<1>6. owner \notin stored \/ current[owner] = Whole(owner) \/ snapFaults' > 1 \/ snapCrashes > 0
  BY <1>1, <1>2 DEF SnapshotsInv, Missed
<1> QED
  BY <1>1, <1>2, <1>3, <1>4, <1>5, <1>6, ExchangeKeeps DEF Profiles0

LEMMA StopsKeep == ASSUME SnapshotsInv, SnapshotManagerStops PROVE SnapshotsInv'
<1>1. /\ UNCHANGED <<owner, owners, current, stored, snapFaults>> /\ snapCrashes' = snapCrashes + 1
      /\ job' = NoJob /\ operation' = "free" /\ generating' = NoOwner
      /\ snapFaults \in Nat /\ snapCrashes \in Nat
  BY DEF SnapshotManagerStops, Profiles0, SnapshotsInv, SnapTypes
<1>2. NoJob \in Jobs /\ NoJob.step = "none"
  BY DifferentDirectories DEF NoJob, Jobs, JobSteps
<1>3. UNCHANGED previous
      \/ /\ job.step \in {"stale", "cleanup"} /\ previous' = Put(previous, Partial(previous[job.owner]))
  BY DEF SnapshotManagerStops
<1>4. DOMAIN previous' = Owners /\ \A p \in owners : MapsOf(p)'
  <2>1. CASE UNCHANGED previous
    BY <1>1, <2>1 DEF SnapshotsInv, SnapTypes, MapsOf
  <2>2. CASE /\ job.step \in {"stale", "cleanup"}
             /\ previous' = Put(previous, Partial(previous[job.owner]))
    <3>1. /\ job.owner = owner /\ current[owner] = Whole(owner) /\ owner \in Owners
          /\ DOMAIN previous' = Owners /\ previous'[owner] = Partial(previous[owner])
          /\ \A p \in Owners : p # owner => previous'[p] = previous[p]
      BY <2>2, ExchangeFacts DEF Activating, Exchanged
    <3>2. \A p \in owners : p \in Owners /\ MapsOf(p)
      BY DEF SnapshotsInv, SnapTypes
    <3> QED
      BY <1>1, <3>1, <3>2, DifferentDirectories DEF MapsOf
  <2> QED
    BY <1>3, <2>1, <2>2
<1>5. SnapTypes' /\ JobRuns' /\ Exchanged' /\ Missed'
  BY <1>1, <1>2, <1>4 DEF SnapshotsInv, SnapTypes, JobRuns, OneJob, Exchanged, Activating, Missed
<1> QED
  BY <1>1, <1>4, <1>5 DEF SnapshotsInv

LEMMA DeleteOwnerKeeps ==
    ASSUME SnapshotsInv, NEW p \in Owners, DeleteOwner(p) \/ DeleteOwnerFails(p) PROVE SnapshotsInv'
<1>1. /\ p \in owners \ {owner} /\ owners' = owners \ {p} /\ DOMAIN current' = DOMAIN current
      /\ UNCHANGED <<owner, runtimeVars, job, previous, stored, snapCrashes>>
      /\ \A q \in Owners : q # p => current'[q] = current[q]
      /\ snapFaults' \in {snapFaults, snapFaults + 1} /\ snapFaults \in Nat /\ snapCrashes \in Nat
  BY DEF DeleteOwner, DeleteOwnerFails, SnapFault, snapCounters, SnapshotsInv, SnapTypes
<1>2. SnapTypes' /\ JobRuns'
  BY <1>1 DEF SnapshotsInv, SnapTypes, JobRuns, OneJob, runtimeVars
<1>3. \A q \in owners' : q \in owners /\ q \in Owners /\ current'[q] = current[q]
  BY <1>1 DEF SnapshotsInv, SnapTypes
<1>4. \A q \in owners' : MapsOf(q)'
  BY <1>1, <1>3 DEF SnapshotsInv, MapsOf
<1>5. Exchanged'
  BY <1>1, <1>2, <1>3 DEF SnapshotsInv, SnapTypes, Exchanged
<1>6. Missed'
  BY <1>1, <1>3 DEF SnapshotsInv, Missed
<1> QED
  BY <1>2, <1>4, <1>5, <1>6 DEF SnapshotsInv

LEMMA SnapshotsKeep == ASSUME SnapshotsInv, [SnapshotsNext]_snapVars PROVE SnapshotsInv'
<1>1. CASE UNCHANGED snapVars
  BY <1>1 DEF snapVars, runtimeVars, storeVars, snapCounters, SnapshotsInv, SnapTypes, JobRuns, OneJob,
              MapsOf, Exchanged, Missed
<1>2. CASE Exchange
  BY <1>2, InspectKeeps, StaleKeeps, BackUpKeeps, PlacedKeeps, PlaceFailsKeeps, StepFailsKeeps
     DEF Exchange
<1> QED
  BY <1>1, <1>2, OutsideQuiet, TriggerQuiet, JobQuiet, StopsKeep, DeleteOwnerKeeps DEF SnapshotsNext

\* A map, once stored, is there and whole until its profile is deleted, and what is read is
\* never a part of one or that of another profile (map_snapshot_store.go:141, map_snapshot.go:247).
THEOREM MapsAlwaysKept == SnapshotsSpec => []MapsKept
<1>1. SnapshotsInv => MapsKept
  <2> SUFFICES ASSUME SnapshotsInv PROVE MapSurvives /\ MapsWhole
    BY DEF MapsKept
  <2>1. MapSurvives /\ \A p \in owners : current[p] \in {Nothing, Whole(p)}
    BY DEF SnapshotsInv, MapSurvives, MapsOf
  <2>2. StoreFree /\ snapCrashes = 0 /\ snapFaults < 2 =>
            \A p \in stored \cap owners : current[p] = Whole(p)
    BY DEF SnapshotsInv, SnapTypes, Missed, StoreFree, Activating
  <2> QED
    BY <2>1, <2>2 DEF MapsWhole
<1> QED
  BY <1>1, SnapshotsStart, SnapshotsKeep, PTL DEF SnapshotsSpec

\* Running is true only for the holder of the mutex, and there is one job: the scheduler, the
\* requests and the evaluation of the startup settings never share the workspace.
THEOREM OneJobAtATime == SnapshotsSpec => []OneJob
<1>1. SnapshotsInv => OneJob
  BY DEF SnapshotsInv, JobRuns
<1> QED
  BY <1>1, SnapshotsStart, SnapshotsKeep, PTL DEF SnapshotsSpec

\* The rest of the types, beside SnapshotsInv.
SnapRest ==
    /\ enabled \in BOOLEAN /\ interval \in {0, 1}
    /\ operation \in {"free", "job", "evaluation"} /\ generating \in Owners \cup {NoOwner}
    /\ lastAttempt \in [owner : Owners \cup {NoOwner}, failed : BOOLEAN] /\ scheduler \in BOOLEAN
    /\ stored \subseteq Owners
    /\ snapFaults \in 0..MaxSnapshotFaults /\ snapCrashes \in 0..MaxSnapshotCrashes

\* The directories hold whole maps, parts of them or nothing.
StoreTyped == current \in [Owners -> Directory] /\ previous \in [Owners -> Directory]

LEMMA PartialTyped == \A d \in Directory : Partial(d) \in Directory
BY DEF Partial, Directory

LEMMA StoreStaysTyped ==
    SnapshotsInv /\ StoreTyped /\ [SnapshotsNext]_snapVars => StoreTyped'
<1> SUFFICES ASSUME SnapshotsInv, StoreTyped, [SnapshotsNext]_snapVars PROVE StoreTyped'
  OBVIOUS
<1>1. Nothing \in Directory /\ job.export \in Directory
  BY DifferentDirectories DEF SnapshotsInv, SnapTypes, Jobs
<1>2. \A p \in Owners : current[p] \in Directory /\ previous[p] \in Directory
                     /\ Partial(current[p]) \in Directory /\ Partial(previous[p]) \in Directory
  BY PartialTyped DEF StoreTyped
<1>3. \A table \in [Owners -> Directory], p, d \in Directory :
         [table EXCEPT ![p] = d] \in [Owners -> Directory]
  OBVIOUS
<1>4. CASE UNCHANGED <<current, previous>>
  BY <1>4 DEF StoreTyped
<1>5. ASSUME NEW p \in Owners, DeleteOwner(p) \/ DeleteOwnerFails(p) PROVE StoreTyped'
  BY <1>1, <1>2, <1>5 DEF StoreTyped, DeleteOwner, DeleteOwnerFails
<1>6. job.step \in Activating => job.owner \in Owners
  BY DEF SnapshotsInv, SnapTypes, Exchanged
<1>7. CASE Exchange
  <2>1. job.owner \in Owners
    BY <1>6, <1>7 DEF Exchange, Inspect, RemoveStale, BackUp, Place, PlaceFails, RestorePrevious,
                      Cleanup, StoreStepFails, Activating
  <2>2. \A d \in Directory : Put(current, d) \in [Owners -> Directory]
                          /\ Put(previous, d) \in [Owners -> Directory]
    BY <1>3 DEF StoreTyped, Put
  <2>3. current' = current \/ \E d \in Directory : current' = Put(current, d)
    BY <1>1, <1>2, <1>7, <2>1
       DEF Exchange, Inspect, RemoveStale, BackUp, Place, PlaceFails, RestorePrevious,
           Cleanup, StoreStepFails, storeVars
  <2>4. previous' = previous \/ \E d \in Directory : previous' = Put(previous, d)
    BY <1>1, <1>2, <1>7, <2>1
       DEF Exchange, Inspect, RemoveStale, BackUp, Place, PlaceFails, RestorePrevious,
           Cleanup, StoreStepFails, storeVars
  <2> QED
    BY <2>2, <2>3, <2>4 DEF StoreTyped
<1>8. CASE SnapshotManagerStops
  <2>1. previous' = previous \/ (job.step \in Activating /\ previous' = Put(previous, Partial(previous[job.owner])))
    BY <1>8 DEF SnapshotManagerStops, Activating
  <2> QED
    BY <1>2, <1>3, <1>6, <1>8, <2>1 DEF SnapshotManagerStops, StoreTyped, Put
<1>9. CASE \/ \E on \in BOOLEAN, minutes \in {0, 1} : SetMapSnapshotSettings(on, minutes)
           \/ \E p \in Owners : ActivateOwner(p)
           \/ EvaluateSettings \/ EvaluationDone
           \/ ScheduleIfDue \/ ScheduleNot \/ \E automatic \in BOOLEAN : TriggerMapSnapshot(automatic)
           \/ LockData \/ CheckProfile \/ Export \/ ExportFails \/ ReleaseOperation
  BY <1>4, <1>9
     DEF SetMapSnapshotSettings, ActivateOwner, EvaluateSettings, EvaluationDone, ScheduleIfDue,
         ScheduleNot, TriggerMapSnapshot, LockData, CheckProfile, Export, ExportFails,
         ReleaseOperation, storeVars
<1> QED
  BY <1>4, <1>5, <1>7, <1>8, <1>9 DEF SnapshotsNext, snapVars, storeVars

\* Steps of the job that end it, and faults.
LEMMA RestKept == SnapshotsInv /\ SnapRest /\ [SnapshotsNext]_snapVars => SnapRest'
<1> SUFFICES ASSUME SnapTypes, SnapRest, job.step \in Activating => job.owner \in Owners,
                    [SnapshotsNext]_snapVars
             PROVE  SnapRest'
  BY DEF SnapshotsInv, Exchanged, SnapTypes
<1>1. owner \in Owners
  BY DEF SnapTypes
<1>2. ASSUME NEW failing \in BOOLEAN
      PROVE  [lastAttempt EXCEPT !.failed = failing] \in [owner : Owners \cup {NoOwner}, failed : BOOLEAN]
  BY DEF SnapRest
<1>3. ASSUME NEW failing \in BOOLEAN, JobEnds(failing)
      PROVE  /\ generating' \in Owners \cup {NoOwner} /\ UNCHANGED <<operation, scheduler>>
             /\ lastAttempt' \in [owner : Owners \cup {NoOwner}, failed : BOOLEAN]
  BY <1>2, <1>3 DEF JobEnds
<1>4. SnapFault => snapFaults' \in 0..MaxSnapshotFaults /\ snapCrashes' = snapCrashes
  BY SnapshotConstants DEF SnapFault, SnapRest
<1>5. CASE \/ \E on \in BOOLEAN, minutes \in {0, 1} : SetMapSnapshotSettings(on, minutes)
           \/ \E p \in Owners : ActivateOwner(p) \/ DeleteOwner(p)
           \/ EvaluateSettings \/ EvaluationDone \/ ScheduleIfDue \/ ScheduleNot \/ LockData
           \/ Export \/ ReleaseOperation
  BY <1>5
     DEF SetMapSnapshotSettings, ActivateOwner, DeleteOwner, EvaluateSettings, EvaluationDone,
         ScheduleIfDue, ScheduleNot, LockData, Export, ReleaseOperation, JobOnly, Profiles0,
         Settings0, runtimeVars, storeVars, snapCounters, SnapRest
<1>6. ASSUME NEW p \in Owners, DeleteOwnerFails(p) PROVE SnapRest'
  BY <1>4, <1>6 DEF DeleteOwnerFails, Settings0, runtimeVars, SnapRest
<1>7. ASSUME NEW automatic \in BOOLEAN, TriggerMapSnapshot(automatic) PROVE SnapRest'
  <2>1. UNCHANGED <<enabled, interval, stored, snapFaults, snapCrashes>> /\ scheduler' \in BOOLEAN
    BY <1>7 DEF TriggerMapSnapshot, Settings0, storeVars, snapCounters, SnapRest
  <2>2. \/ UNCHANGED <<operation, generating, lastAttempt>>
        \/ /\ operation' = "job" /\ generating' = owner
           /\ lastAttempt' = [owner |-> owner, failed |-> FALSE]
    BY <1>7 DEF TriggerMapSnapshot
  <2>3. /\ operation' \in {"free", "job", "evaluation"} /\ generating' \in Owners \cup {NoOwner}
        /\ lastAttempt' \in [owner : Owners \cup {NoOwner}, failed : BOOLEAN]
    <3>1. [owner |-> owner, failed |-> FALSE] \in [owner : Owners \cup {NoOwner}, failed : BOOLEAN]
      BY <1>1
    <3>2. CASE UNCHANGED <<operation, generating, lastAttempt>>
      BY <3>2 DEF SnapRest
    <3> QED
      BY <1>1, <2>2, <3>1, <3>2
  <2> QED
    BY <2>1, <2>3 DEF SnapRest
<1>8. CASE CheckProfile \/ ExportFails
  BY <1>3, <1>8 DEF CheckProfile, ExportFails, Settings0, runtimeVars, storeVars, snapCounters, SnapRest
<1>9. CASE Inspect \/ RemoveStale \/ BackUp
  BY <1>9 DEF Inspect, RemoveStale, BackUp, JobOnly, Settings0, runtimeVars, snapCounters, SnapRest
<1>10. CASE Place \/ PlaceFails \/ RestorePrevious \/ Cleanup \/ StoreStepFails
  <2>1. job.owner \in Owners
    BY <1>10 DEF Place, PlaceFails, RestorePrevious, Cleanup, StoreStepFails, Activating
  <2>2. CASE Place
    BY <1>3, <2>1, <2>2 DEF Place, Settings0, runtimeVars, snapCounters, SnapRest
  <2>3. CASE PlaceFails
    BY <1>3, <1>4, <2>3 DEF PlaceFails, Settings0, runtimeVars, storeVars, SnapRest
  <2>4. CASE RestorePrevious \/ Cleanup
    BY <1>3, <2>4 DEF RestorePrevious, Cleanup, Settings0, snapCounters, SnapRest
  <2>5. CASE StoreStepFails
    BY <1>3, <1>4, <2>5 DEF StoreStepFails, Settings0, SnapRest
  <2> QED
    BY <1>10, <2>2, <2>3, <2>4, <2>5
<1>11. CASE SnapshotManagerStops
  <2>1. /\ UNCHANGED <<enabled, interval, stored, snapFaults>> /\ scheduler' = FALSE
        /\ operation' = "free" /\ generating' = NoOwner
        /\ lastAttempt' = [owner |-> NoOwner, failed |-> FALSE]
    BY <1>11 DEF SnapshotManagerStops, Settings0
  <2>2. snapCrashes' \in 0..MaxSnapshotCrashes
    BY <1>11, SnapshotConstants DEF SnapshotManagerStops, SnapRest
  <2> QED
    BY <2>1, <2>2 DEF SnapRest
<1>12. CASE UNCHANGED snapVars
  BY <1>12 DEF snapVars, runtimeVars, storeVars, snapCounters, SnapRest
<1> QED
  BY <1>5, <1>6, <1>7, <1>8, <1>9, <1>10, <1>11, <1>12 DEF SnapshotsNext, Exchange

\* The directories are maps of profiles, parts of them or nothing, and the job, its runtime
\* and the counters have their types.
THEOREM SnapshotsTypeCorrect == SnapshotsSpec => []SnapshotsTypeOK
<1>1. SnapshotsInit => StoreTyped /\ SnapRest
  <2> SUFFICES ASSUME SnapshotsInit PROVE StoreTyped /\ SnapRest
    OBVIOUS
  <2>1. StoreTyped
    BY DifferentDirectories DEF SnapshotsInit, StoreTyped
  <2>2. 0 \in 0..MaxSnapshotFaults /\ 0 \in 0..MaxSnapshotCrashes
    BY SnapshotConstants
  <2>3. [owner |-> NoOwner, failed |-> FALSE] \in [owner : Owners \cup {NoOwner}, failed : BOOLEAN]
    OBVIOUS
  <2> QED
    BY <2>1, <2>2, <2>3 DEF SnapshotsInit, SnapRest
<1>2. SnapshotsInv /\ StoreTyped /\ SnapRest => SnapshotsTypeOK
  BY DEF SnapshotsInv, SnapTypes, Jobs, StoreTyped, SnapRest, SnapshotsTypeOK
<1>3. SnapshotsInv /\ [SnapshotsNext]_snapVars => SnapshotsInv'
  BY SnapshotsKeep
<1> QED
  BY <1>1, <1>2, <1>3, StoreStaysTyped, RestKept, SnapshotsStart, PTL DEF SnapshotsSpec

-----------------------------------------------------------------------------
(* The mod packs.                                                          *)

PackFiles == PackArchives \cup {ListFile}
Errands ==
    [kind : Kinds, step : PackSteps, pack : PackNames, todo : SUBSET Places,
     bare : SUBSET Places, listed : SUBSET Places, loaded : SUBSET Places,
     left : SUBSET PackFiles, open : SUBSET PackFiles, view : Nat, staged : BOOLEAN]

PackTypes ==
    /\ DOMAIN packs \subseteq Places /\ \A d \in DOMAIN packs : packs[d] \in Contents0
    /\ \A p \in DOMAIN made : made[p] \in Contents0
    /\ live.list \in {Missing} \cup Lists /\ live.zips \in SUBSET PackArchives
    /\ errand \in [PackUsers -> Errands] /\ lists \in Nat

\* What is under the name of a pack has no file that is cut off, and what was asked for has
\* a list; a pack that nobody disturbs or removes is what was asked for.
NamedPack(p) ==
    /\ p \in DOMAIN packs => packs[p].cut = {} /\ packs[p].list # Cut
    /\ p \in DOMAIN made => made[p].list # Missing
    /\ p \notin disturbed /\ ~Removing(p) =>
          /\ p \in DOMAIN packs <=> p \in DOMAIN made
          /\ p \in DOMAIN made => packs[p] = made[p]

\* A staging directory belongs to a request that will rename or remove it.
Stages(u) == errand[u].step \in {"copy", "validate", "rename"}
StagedByOne(u) ==
    /\ errand[u].staged =>
          errand[u].step \in {"copy", "validate", "rename", "cleanup"}
          \/ (errand[u].step = "walk" /\ errand[u].kind = "finish")
    /\ u \in DOMAIN packs /\ ~errand[u].staged => u \in disturbed
    /\ Stages(u) => u \in DOMAIN packs /\ errand[u].staged
    /\ Stages(u) \/ errand[u].step = "stage" => errand[u].kind \in {"create", "empty"}

\* Only the file that is being copied is cut off.
CutOff(u) ==
    /\ errand[u].open \subseteq errand[u].left
    /\ \A f, g \in errand[u].open : f = g
    /\ errand[u].step \notin {"copy", "cleanup"} => errand[u].left = {}
    /\ Stages(u) =>
        /\ packs[u].cut \subseteq errand[u].open \ {ListFile}
        /\ packs[u].list = Cut => ListFile \in errand[u].open
        /\ errand[u].step = "rename" => packs[u].list # Missing

\* An undisturbed staging directory has what was copied, and the list of the active mods or,
\* where there is none, the one that NewMods writes.
CopiedSoFar(u) ==
    Stages(u) /\ u \notin disturbed =>
        \/ /\ errand[u].kind = "empty" /\ errand[u].left = {}
           /\ packs[u].zips = {} /\ packs[u].list \in {Missing, BaseList}
        \/ /\ errand[u].kind = "create" /\ errand[u].left \subseteq LiveFiles
           /\ packs[u].zips = live.zips \ errand[u].left
           /\ ListFile \in errand[u].open => packs[u].list = Cut
           /\ ListFile \in errand[u].left \/ packs[u].list = live.list
              \/ (live.list = Missing /\ packs[u].list = BaseList)

PacksInv ==
    /\ PackTypes /\ \A p \in PackNames : NamedPack(p)
    /\ \A u \in PackUsers : StagedByOne(u) /\ CutOff(u) /\ CopiedSoFar(u)

LEMMA ListsDiffer ==
    /\ Missing # Cut /\ Missing # BaseList /\ Cut # BaseList
    /\ \A l \in Lists : l \notin {Missing, Cut, BaseList} /\ l \in Nat
    /\ {Missing, Cut, BaseList} \subseteq Nat
BY PackConstants DEF Missing, Cut, BaseList, Lists

LEMMA PlacesDiffer == \A p \in PackNames, u \in PackUsers : p # u
BY PackConstants

LEMMA KeepFacts ==
    ASSUME NEW d, NEW c, Keep(d, c)
    PROVE  /\ DOMAIN packs' = DOMAIN packs \cup {d} /\ packs'[d] = c
           /\ \A x \in DOMAIN packs : x # d => packs'[x] = packs[x]
BY DEF Keep

LEMMA HeldTyped ==
    ASSUME PackTypes, NEW d
    PROVE  /\ Held(d) \in Contents0 /\ NoContent \in Contents0
           /\ NoContent.list = Missing /\ NoContent.zips = {} /\ NoContent.cut = {}
BY DEF PackTypes, Held, NoContent, Content, Contents0

LEMMA ListChanged ==
    ASSUME NEW c \in Contents0, NEW l \in {Missing, Cut, BaseList} \cup Lists
    PROVE  /\ [c EXCEPT !.list = l] \in Contents0 /\ [c EXCEPT !.list = l].list = l
           /\ [c EXCEPT !.list = l].zips = c.zips /\ [c EXCEPT !.list = l].cut = c.cut
BY DEF Contents0

LEMMA StepChanged ==
    ASSUME NEW e \in Errands, NEW s \in PackSteps
    PROVE  /\ [e EXCEPT !.step = s] \in Errands /\ [e EXCEPT !.step = s].step = s
           /\ [e EXCEPT !.step = s].kind = e.kind /\ [e EXCEPT !.step = s].pack = e.pack
           /\ [e EXCEPT !.step = s].left = e.left /\ [e EXCEPT !.step = s].open = e.open
           /\ [e EXCEPT !.step = s].staged = e.staged
BY DEF Errands

LEMMA NoErrandTyped ==
    /\ NoErrand \in Errands /\ NoErrand.step = "none" /\ NoErrand.staged = FALSE
    /\ NoErrand.left = {} /\ NoErrand.open = {}
BY PackConstants DEF NoErrand, Errands, Kinds, PackSteps, Missing

LEMMA PacksStart == PacksInit => PacksInv
<1> SUFFICES ASSUME PacksInit PROVE PacksInv
  OBVIOUS
<1>1. errand \in [PackUsers -> Errands] /\ \A u \in PackUsers : errand[u] = NoErrand
  BY NoErrandTyped DEF PacksInit
<1>2. /\ made = packs /\ DOMAIN packs \subseteq PackNames /\ disturbed = {}
      /\ \A p \in DOMAIN packs : packs[p] = Content(3, {}, {})
  <2>1. NoErrand.pack \in PackNames
    BY NoErrandTyped DEF Errands
  <2>2. PICK S \in {{}, {NoErrand.pack}} : packs = [p \in S |-> Content(3, {}, {})]
    BY DEF PacksInit
  <2> QED
    BY <2>1, <2>2 DEF PacksInit
<1>3. /\ Content(3, {}, {}) \in Contents0 /\ Content(3, {}, {}).cut = {}
      /\ Content(3, {}, {}).list \notin {Missing, Cut}
  BY PackConstants DEF Content, Contents0, Lists, Missing, Cut
<1>4. PackTypes
  BY <1>1, <1>2, <1>3, PackConstants DEF PacksInit, PackTypes, Places, Lists
<1>5. \A p \in PackNames : NamedPack(p)
  BY <1>2, <1>3 DEF NamedPack
<1>6. \A u \in PackUsers : StagedByOne(u) /\ CutOff(u) /\ CopiedSoFar(u)
  BY <1>1, <1>2, NoErrandTyped, PlacesDiffer DEF StagedByOne, CutOff, CopiedSoFar, Stages
<1> QED
  BY <1>4, <1>5, <1>6 DEF PacksInv

-----------------------------------------------------------------------------
(* What a step of one request leaves alone.                                *)

LEMMA StillRemoved ==
    ASSUME PackTypes, NEW u \in PackUsers, NEW e, To(u, e), NEW p, Removing(p),
           errand[u].step # "remove" \/ errand[u].pack # p
    PROVE  Removing(p)'
BY DEF PackTypes, To, Removing, On

LEMMA PackStays ==
    ASSUME NEW p \in PackNames, NamedPack(p),
           p \in DOMAIN packs' <=> p \in DOMAIN packs, p \in DOMAIN packs => packs'[p] = packs[p],
           p \in DOMAIN made' <=> p \in DOMAIN made, p \in DOMAIN made => made'[p] = made[p],
           p \in disturbed => p \in disturbed', Removing(p) => Removing(p)' \/ p \in disturbed'
    PROVE  NamedPack(p)'
BY DEF NamedPack

LEMMA UserStays ==
    ASSUME NEW w \in PackUsers, StagedByOne(w), CutOff(w), CopiedSoFar(w), errand'[w] = errand[w],
           w \in DOMAIN packs' <=> w \in DOMAIN packs, w \in DOMAIN packs => packs'[w] = packs[w],
           w \in disturbed => w \in disturbed', UNCHANGED live
    PROVE  StagedByOne(w)' /\ CutOff(w)' /\ CopiedSoFar(w)'
BY DEF StagedByOne, CutOff, CopiedSoFar, Stages, LiveFiles

\* A step of one request: what it owes, when it touches a pack or its own staging directory.
LEMMA OneRequest ==
    ASSUME PacksInv, NEW u \in PackUsers, NEW e \in Errands, To(u, e), UNCHANGED live, PackTypes',
           \A p \in PackNames : NamedPack(p)',
           \A w \in PackUsers : w # u =>
              /\ w \in DOMAIN packs' <=> w \in DOMAIN packs
              /\ w \in DOMAIN packs => packs'[w] = packs[w]
              /\ w \in disturbed => w \in disturbed',
           StagedByOne(u)', CutOff(u)', CopiedSoFar(u)'
    PROVE  PacksInv'
<1>1. \A w \in PackUsers : w # u => errand'[w] = errand[w]
  BY DEF PacksInv, PackTypes, To
<1>2. ASSUME NEW w \in PackUsers, w # u PROVE StagedByOne(w)' /\ CutOff(w)' /\ CopiedSoFar(w)'
  BY <1>1, <1>2, UserStays DEF PacksInv
<1> QED
  BY <1>2 DEF PacksInv

LEMMA ErrandIs ==
    ASSUME PackTypes, NEW u \in PackUsers, NEW e \in Errands, To(u, e)
    PROVE  errand' \in [PackUsers -> Errands] /\ errand'[u] = e /\ errand[u] \in Errands
BY DEF PackTypes, To

\* A step that only moves the request, and neither to nor from a removal or a staging.
LEMMA OnlyReads ==
    ASSUME PacksInv, NEW u \in PackUsers, NEW e \in Errands, To(u, e), NoPack,
           errand[u].step # "remove", e.staged = errand[u].staged,
           e.step \notin {"copy", "validate", "rename"},
           e.staged => e.step = "cleanup" \/ (e.step = "walk" /\ e.kind = "finish"),
           e.open = errand[u].open, e.left = errand[u].left,
           e.step # "cleanup" => e.left = {},
           e.step = "stage" => e.kind \in {"create", "empty"}
    PROVE  PacksInv'
<1>1. /\ UNCHANGED <<packs, made, disturbed, live, lists>>
      /\ errand' \in [PackUsers -> Errands] /\ errand'[u] = e
  BY ErrandIs DEF NoPack, Quiet, PacksInv
<1>2. PackTypes'
  BY <1>1 DEF PacksInv, PackTypes
<1>3. \A p \in PackNames : NamedPack(p)'
  BY <1>1, PackStays, StillRemoved DEF PacksInv
<1>4. StagedByOne(u)' /\ CutOff(u)' /\ CopiedSoFar(u)'
  BY <1>1 DEF PacksInv, StagedByOne, CutOff, CopiedSoFar, Stages
<1> QED
  BY <1>1, <1>2, <1>3, <1>4, OneRequest

LEMMA WalkReads ==
    ASSUME PacksInv, NEW u \in PackUsers,
           \/ \E kind \in {"list", "create", "delete", "clear", "toggle"}, p \in PackNames :
                 BeginPackRequest(u, kind, p)
           \/ \E d \in Places : ReadPackList(u, d) \/ ReadPackArchives(u, d)
           \/ PackWalked(u)
    PROVE  PacksInv'
<1>1. errand[u] \in Errands /\ StagedByOne(u) /\ CutOff(u) /\ PackTypes
  BY DEF PacksInv, PackTypes
<1>2. ASSUME NEW kind \in {"list", "create", "delete", "clear", "toggle"}, NEW p \in PackNames,
             BeginPackRequest(u, kind, p)
      PROVE  PacksInv'
  <2> DEFINE e == [NoErrand EXCEPT !.kind = kind, !.step = "walk", !.pack = p, !.todo = DOMAIN packs]
  <2>1. /\ e \in Errands /\ e.step = "walk" /\ e.staged = FALSE /\ e.left = {} /\ e.open = {}
    BY <1>1, NoErrandTyped DEF PackTypes, Errands, Kinds, PackSteps
  <2>2. /\ To(u, e) /\ NoPack /\ errand[u].step = "none"
    BY <1>2 DEF BeginPackRequest, On
  <2> HIDE DEF e
  <2>3. errand[u].staged = FALSE /\ errand[u].left = {} /\ errand[u].open = {}
    BY <1>1, <2>2 DEF StagedByOne, CutOff, Errands
  <2> QED
    BY <2>1, <2>2, <2>3, OnlyReads
<1>3. ASSUME NEW s \in PackSteps, Step1(u, s), NoPack, errand[u].step = "walk",
             s \in {"cleanup"} \/ (s \in {"stage", "remove", "write"} /\ errand[u].kind # "finish"),
             s = "stage" => errand[u].kind \in {"create", "empty"}
      PROVE  PacksInv'
  <2> DEFINE e == [errand[u] EXCEPT !.step = s]
  <2>1. /\ e \in Errands /\ e.step = s /\ e.kind = errand[u].kind /\ e.staged = errand[u].staged
        /\ To(u, e) /\ e.left = errand[u].left /\ e.open = errand[u].open
    BY <1>1, <1>3, StepChanged DEF Step1
  <2> HIDE DEF e
  <2>2. /\ errand[u].staged => errand[u].kind = "finish"
        /\ e.left = {} /\ e.open = {}
    BY <1>1, <1>3, <2>1 DEF StagedByOne, CutOff
  <2> QED
    BY <1>3, <2>1, <2>2, OnlyReads
<1>4. ASSUME NEW e \in Errands, To(u, e), NoPack, errand[u].step = "walk", e.step = "walk",
             e.kind = errand[u].kind, e.staged = errand[u].staged, e.left = errand[u].left,
             e.open = errand[u].open
      PROVE  PacksInv'
  <2>1. e.left = {} /\ e.open = {} /\ (e.staged => e.kind = "finish")
    BY <1>1, <1>4 DEF StagedByOne, CutOff
  <2> QED
    BY <1>4, <2>1, OnlyReads
<1>5. ASSUME NEW d \in Places, ReadPackList(u, d) PROVE PacksInv'
  <2>1. NoPack /\ errand[u].step = "walk"
    BY <1>5 DEF ReadPackList, On
  <2>2. CASE Step1(u, "cleanup")
    BY <1>3, <2>1, <2>2 DEF PackSteps
  <2>3. CASE To(u, [errand[u] EXCEPT !.todo = @ \ {d}, !.bare = {d}])
    <3> DEFINE e == [errand[u] EXCEPT !.todo = @ \ {d}, !.bare = {d}]
    <3>1. e \in Errands /\ e.step = errand[u].step /\ e.kind = errand[u].kind
          /\ e.staged = errand[u].staged /\ e.left = errand[u].left /\ e.open = errand[u].open
          /\ To(u, e)
      BY <1>1, <2>3 DEF Errands
    <3> HIDE DEF e
    <3> QED
      BY <1>4, <2>1, <3>1
  <2>4. CASE /\ d \in DOMAIN packs
             /\ To(u, [errand[u] EXCEPT !.todo = @ \ {d}, !.listed = {d},
                           !.view = IF d = errand[u].pack THEN packs[d].list ELSE @])
    <3> DEFINE e == [errand[u] EXCEPT !.todo = @ \ {d}, !.listed = {d},
                         !.view = IF d = errand[u].pack THEN packs[d].list ELSE @]
    <3>1. packs[d].list \in Nat
      BY <1>1, <2>4, ListsDiffer DEF PackTypes, Contents0
    <3>2. e \in Errands /\ e.step = errand[u].step /\ e.kind = errand[u].kind
          /\ e.staged = errand[u].staged /\ e.left = errand[u].left /\ e.open = errand[u].open
          /\ To(u, e)
      BY <1>1, <2>4, <3>1 DEF Errands
    <3> HIDE DEF e
    <3> QED
      BY <1>4, <2>1, <3>2
  <2> QED
    BY <1>5, <2>2, <2>3, <2>4 DEF ReadPackList
<1>6. ASSUME NEW d \in Places, ReadPackArchives(u, d) PROVE PacksInv'
  <2>1. NoPack /\ errand[u].step = "walk"
    BY <1>6 DEF ReadPackArchives, On
  <2>2. CASE Step1(u, "cleanup")
    BY <1>3, <2>1, <2>2 DEF PackSteps
  <2>3. CASE To(u, [errand[u] EXCEPT !.listed = {}, !.loaded = @ \cup {d}])
    <3> DEFINE e == [errand[u] EXCEPT !.listed = {}, !.loaded = @ \cup {d}]
    <3>1. e \in Errands /\ e.step = errand[u].step /\ e.kind = errand[u].kind
          /\ e.staged = errand[u].staged /\ e.left = errand[u].left /\ e.open = errand[u].open
          /\ To(u, e)
      BY <1>1, <2>3 DEF Errands
    <3> HIDE DEF e
    <3> QED
      BY <1>4, <2>1, <3>1
  <2> QED
    BY <1>6, <2>2, <2>3 DEF ReadPackArchives
<1>7. CASE PackWalked(u)
  <2>1. NoPack /\ errand[u].step = "walk" /\ errand[u].kind \in Kinds
    BY <1>1, <1>7 DEF PackWalked, On, Errands
  <2>2. \/ Step1(u, "cleanup")
        \/ errand[u].kind \in {"create", "empty"} /\ Step1(u, "stage")
        \/ errand[u].kind # "finish" /\ (Step1(u, "remove") \/ Step1(u, "write"))
    BY <1>7, <2>1 DEF PackWalked, Kinds
  <2> QED
    BY <1>3, <2>1, <2>2 DEF PackSteps
<1> QED
  BY <1>2, <1>5, <1>6, <1>7

\* The walk gives a directory a list: a pack has one, so that only a staging directory that
\* has none yet, or a pack that is being removed, is not disturbed by it.
LEMMA CreateListKeeps ==
    ASSUME PacksInv, NEW u \in PackUsers, NEW d \in Places, CreatePackList(u, d) PROVE PacksInv'
<1> DEFINE e == [errand[u] EXCEPT !.bare = {}, !.listed = {d},
                     !.view = IF d = errand[u].pack THEN BaseList ELSE @]
<1>1. PackTypes /\ errand[u] \in Errands
  BY DEF PacksInv, PackTypes
<1>2. /\ e \in Errands /\ e.step = "walk" /\ e.kind = errand[u].kind /\ e.pack = errand[u].pack
      /\ e.staged = errand[u].staged /\ e.left = errand[u].left /\ e.open = errand[u].open
      /\ errand[u].step = "walk" /\ To(u, e)
      /\ UNCHANGED <<live, lists, made>>
  <2>1. errand[u].step = "walk" /\ To(u, e) /\ UNCHANGED <<live, lists, made>>
    BY DEF CreatePackList, On, Quiet
  <2>2. e \in Errands /\ e.step = errand[u].step /\ e.kind = errand[u].kind /\ e.pack = errand[u].pack
        /\ e.staged = errand[u].staged /\ e.left = errand[u].left /\ e.open = errand[u].open
    BY <1>1, ListsDiffer DEF Errands
  <2> QED
    BY <2>1, <2>2
<1> HIDE DEF e
<1>3. /\ errand' \in [PackUsers -> Errands] /\ errand'[u] = e
      /\ \A w \in PackUsers : w # u => errand'[w] = errand[w]
  BY <1>1, <1>2 DEF PackTypes, To
<1>4. /\ DOMAIN packs' = DOMAIN packs \cup {d} /\ packs'[d] = [Held(d) EXCEPT !.list = BaseList]
      /\ \A x \in DOMAIN packs : x # d => packs'[x] = packs[x]
  BY KeepFacts DEF CreatePackList
<1>5. /\ packs'[d] \in Contents0 /\ packs'[d].list = BaseList
      /\ packs'[d].zips = Held(d).zips /\ packs'[d].cut = Held(d).cut
      /\ d \in DOMAIN packs => Held(d) = packs[d]
      /\ d \notin DOMAIN packs => Held(d).cut = {}
  BY <1>1, <1>4, HeldTyped, ListChanged DEF Held
<1>6. /\ disturbed \subseteq disturbed'
      /\ d \notin disturbed' => d \in DOMAIN packs /\ packs[d].list = Missing
  BY <1>5 DEF CreatePackList, Mark
<1>7. PackTypes'
  <2>1. \A x \in DOMAIN packs' : packs'[x] \in Contents0
    BY <1>1, <1>4, <1>5 DEF PackTypes
  <2> QED
    BY <1>1, <1>2, <1>3, <1>4, <2>1 DEF PackTypes
<1>8. ASSUME NEW p \in PackNames PROVE NamedPack(p)'
  <2>1. NamedPack(p) /\ (Removing(p) => Removing(p)')
    BY <1>1, <1>2, StillRemoved DEF PacksInv
  <2>2. CASE p # d
    BY <1>2, <1>4, <1>6, <2>1, <2>2, PackStays
  <2>3. CASE p = d
    <3>1. packs'[p].cut = {} /\ packs'[p].list # Cut
      BY <1>5, <2>1, <2>3, ListsDiffer DEF NamedPack
    <3>2. p \notin disturbed' => Removing(p)'
      BY <1>6, <2>1, <2>3 DEF NamedPack
    <3> QED
      BY <1>2, <2>1, <3>1, <3>2 DEF NamedPack
  <2> QED
    BY <2>2, <2>3
<1>9. ASSUME NEW w \in PackUsers PROVE StagedByOne(w)' /\ CutOff(w)' /\ CopiedSoFar(w)'
  <2>1. StagedByOne(w) /\ CutOff(w) /\ CopiedSoFar(w)
    BY DEF PacksInv
  <2>2. /\ errand'[w].step = errand[w].step /\ errand'[w].kind = errand[w].kind
        /\ errand'[w].staged = errand[w].staged /\ errand'[w].left = errand[w].left
        /\ errand'[w].open = errand[w].open
        /\ Stages(w) => w # u /\ errand'[w] = errand[w]
    BY <1>2, <1>3 DEF Stages
  <2>3. CASE w # d
    <3>1. (w \in DOMAIN packs' <=> w \in DOMAIN packs) /\ (w \in DOMAIN packs => packs'[w] = packs[w])
      BY <1>4, <2>3
    <3> QED
      BY <1>2, <1>6, <2>1, <2>2, <3>1 DEF StagedByOne, CutOff, CopiedSoFar, Stages, LiveFiles
  <2>4. CASE w = d
    <3>1. StagedByOne(w)'
      BY <1>4, <1>6, <2>1, <2>2, <2>4 DEF StagedByOne, Stages
    <3>2. Stages(w)' => /\ Stages(w) /\ errand'[w] = errand[w] /\ w \in DOMAIN packs
                        /\ packs'[w].list = BaseList /\ packs'[w].zips = packs[w].zips
                        /\ packs'[w].cut = packs[w].cut
                        /\ w \notin disturbed' => w \notin disturbed /\ packs[w].list = Missing
      BY <1>5, <1>6, <2>1, <2>2, <2>4 DEF Stages, StagedByOne
    <3>3. CutOff(w)'
      BY <2>1, <2>2, <3>2, ListsDiffer DEF CutOff
    <3>4. CopiedSoFar(w)'
      BY <1>2, <2>1, <3>2, ListsDiffer DEF CopiedSoFar, LiveFiles
    <3> QED
      BY <3>1, <3>3, <3>4
  <2> QED
    BY <2>3, <2>4
<1> QED
  BY <1>7, <1>8, <1>9 DEF PacksInv

-----------------------------------------------------------------------------
(* Making a pack.                                                          *)

\* A step of a request in its own staging directory.
LEMMA StagingStep ==
    ASSUME PacksInv, NEW u \in PackUsers, NEW e \in Errands, To(u, e), NEW c \in Contents0,
           Keep(u, c), UNCHANGED <<live, lists, made, disturbed>>, errand[u].step # "remove",
           StagedByOne(u)', CutOff(u)', CopiedSoFar(u)'
    PROVE  PacksInv'
<1>1. /\ DOMAIN packs' = DOMAIN packs \cup {u} /\ packs'[u] = c
      /\ \A x \in DOMAIN packs : x # u => packs'[x] = packs[x]
  BY KeepFacts
<1>2. PackTypes'
  <2>1. \A x \in DOMAIN packs' : packs'[x] \in Contents0
    BY <1>1 DEF PacksInv, PackTypes
  <2> QED
    BY <1>1, <2>1, ErrandIs DEF PacksInv, PackTypes, Places
<1>3. \A p \in PackNames : NamedPack(p)'
  <2>1. ASSUME NEW p \in PackNames PROVE NamedPack(p)'
    <3>1. p # u /\ NamedPack(p) /\ (Removing(p) => Removing(p)')
      BY PlacesDiffer, StillRemoved DEF PacksInv
    <3> QED
      BY <1>1, <3>1, PackStays
  <2> QED
    BY <2>1
<1> QED
  BY <1>1, <1>2, <1>3, OneRequest

\* It gives up, and leaves what there is to the cleanup.
LEMMA GivesUp ==
    ASSUME PacksInv, NEW u \in PackUsers, Step1(u, "cleanup"), NoPack, errand[u].step # "remove"
    PROVE  PacksInv'
<1> DEFINE e == [errand[u] EXCEPT !.step = "cleanup"]
<1>1. /\ e \in Errands /\ e.step = "cleanup" /\ e.staged = errand[u].staged /\ To(u, e)
      /\ e.left = errand[u].left /\ e.open = errand[u].open
  BY StepChanged DEF PacksInv, PackTypes, Step1, PackSteps
<1> HIDE DEF e
<1> QED
  BY <1>1, OnlyReads

LEMMA StageKeeps == ASSUME PacksInv, NEW u \in PackUsers, StagePack(u) PROVE PacksInv'
<1>1. PackTypes /\ errand[u] \in Errands /\ StagedByOne(u) /\ CutOff(u)
  BY DEF PacksInv, PackTypes
<1>2. errand[u].step = "stage" /\ UNCHANGED <<live, lists, made, disturbed>>
  BY DEF StagePack, On, Quiet
<1>3. CASE UNCHANGED packs /\ Step1(u, "cleanup")
  BY <1>2, <1>3, GivesUp DEF NoPack, Quiet
<1>4. ASSUME Keep(u, NoContent), NEW e \in Errands, To(u, e), e.staged = TRUE, e.open = {},
             \/ e.step = "validate" /\ e.kind = "empty" /\ e.left = {}
             \/ e.step = "copy" /\ e.kind = "create" /\ e.left = LiveFiles
      PROVE  PacksInv'
  <2>1. /\ NoContent \in Contents0 /\ NoContent.list = Missing /\ NoContent.zips = {}
        /\ NoContent.cut = {} /\ packs'[u] = NoContent /\ u \in DOMAIN packs' /\ errand'[u] = e
    BY <1>1, <1>4, HeldTyped, KeepFacts, ErrandIs
  <2>2. live.zips \subseteq LiveFiles /\ (ListFile \in LiveFiles \/ live.list = Missing)
    BY DEF LiveFiles
  <2>3. StagedByOne(u)' /\ CutOff(u)'
    BY <1>4, <2>1, ListsDiffer DEF StagedByOne, CutOff, Stages
  <2>4. CopiedSoFar(u)'
    <3>1. UNCHANGED LiveFiles
      BY <1>2 DEF LiveFiles
    <3> QED
      BY <1>2, <1>4, <2>1, <2>2, <3>1 DEF CopiedSoFar, Stages
  <2> QED
    BY <1>2, <1>4, <2>1, <2>3, <2>4, StagingStep
<1>5. CASE Keep(Staging(u), NoContent) /\ errand[u].kind = "empty"
           /\ To(u, [errand[u] EXCEPT !.staged = TRUE, !.step = "validate"])
  <2> DEFINE e == [errand[u] EXCEPT !.staged = TRUE, !.step = "validate"]
  <2>1. /\ e \in Errands /\ e.staged = TRUE /\ e.step = "validate" /\ e.kind = "empty"
        /\ e.left = errand[u].left /\ e.open = errand[u].open /\ To(u, e) /\ Keep(u, NoContent)
    BY <1>1, <1>5 DEF Errands, PackSteps, Staging
  <2> HIDE DEF e
  <2> QED
    BY <1>1, <1>2, <1>4, <2>1 DEF CutOff
<1>6. CASE Keep(Staging(u), NoContent) /\ errand[u].kind # "empty"
           /\ To(u, [errand[u] EXCEPT !.staged = TRUE, !.step = "copy", !.left = LiveFiles])
  <2> DEFINE e == [errand[u] EXCEPT !.staged = TRUE, !.step = "copy", !.left = LiveFiles]
  <2>1. LiveFiles \in SUBSET PackFiles
    BY <1>1 DEF PackTypes, LiveFiles, PackFiles
  <2>2. /\ e \in Errands /\ e.staged = TRUE /\ e.step = "copy" /\ e.kind = errand[u].kind
        /\ e.left = LiveFiles /\ e.open = errand[u].open /\ To(u, e) /\ Keep(u, NoContent)
    BY <1>1, <1>6, <2>1 DEF Errands, PackSteps, Staging
  <2> HIDE DEF e
  <2> QED
    BY <1>1, <1>2, <1>4, <1>6, <2>2 DEF CutOff, StagedByOne
<1> QED
  BY <1>3, <1>5, <1>6 DEF StagePack

LEMMA OpenKeepsStage ==
    ASSUME PacksInv, NEW u \in PackUsers, NEW f \in PackFiles, OpenCopy(u, f) PROVE PacksInv'
<1>1. /\ PackTypes /\ errand[u] \in Errands /\ StagedByOne(u) /\ CutOff(u) /\ CopiedSoFar(u)
      /\ errand[u].step = "copy" /\ UNCHANGED <<live, lists, made, disturbed>>
      /\ errand[u].open = {} /\ f \in errand[u].left
  BY DEF PacksInv, PackTypes, OpenCopy, On, Quiet
<1>2. u \in DOMAIN packs /\ packs[u] \in Contents0
  BY <1>1 DEF StagedByOne, Stages, PackTypes
<1>3. CASE UNCHANGED packs /\ Step1(u, "cleanup")
  BY <1>1, <1>3, GivesUp DEF NoPack, Quiet
<1>4. ASSUME NEW c \in Contents0, Keep(u, c), To(u, [errand[u] EXCEPT !.open = {f}]),
             c.zips = packs[u].zips, c.cut \subseteq {f} \ {ListFile},
             c.list = IF f = ListFile THEN Cut ELSE packs[u].list
      PROVE  PacksInv'
  <2> DEFINE e == [errand[u] EXCEPT !.open = {f}]
  <2>1. /\ e \in Errands /\ e.step = errand[u].step /\ e.kind = errand[u].kind
        /\ e.staged = errand[u].staged /\ e.left = errand[u].left /\ e.open = {f} /\ To(u, e)
    BY <1>1, <1>4 DEF Errands
  <2> HIDE DEF e
  <2>6. packs'[u] = c /\ u \in DOMAIN packs'
    <3>1. Keep(u, c)
      BY <1>4
    <3> QED
      BY <3>1, KeepFacts
  <2>7. errand'[u] = e
    BY <1>1, <2>1, ErrandIs
  <2>2. packs'[u] = c /\ u \in DOMAIN packs' /\ errand'[u] = e
    BY <2>6, <2>7
  <2>3. StagedByOne(u)'
    BY <1>1, <1>2, <2>1, <2>2 DEF StagedByOne, Stages
  <2>4. CutOff(u)'
    BY <1>1, <1>4, <2>1, <2>2 DEF CutOff, Stages
  <2>5. CopiedSoFar(u)'
    <3>1. UNCHANGED LiveFiles
      BY <1>1 DEF LiveFiles
    <3> QED
      BY <1>1, <1>4, <2>1, <2>2, <3>1 DEF CopiedSoFar, Stages
  <2> QED
    BY <1>1, <1>4, <2>1, <2>3, <2>4, <2>5, StagingStep
<1>5. CASE f = ListFile /\ Keep(u, [packs[u] EXCEPT !.list = Cut])
           /\ To(u, [errand[u] EXCEPT !.open = {f}])
  <2> DEFINE c == [packs[u] EXCEPT !.list = Cut]
  <2>1. packs[u].cut = {}
    BY <1>1 DEF CutOff, Stages
  <2>2. /\ c \in Contents0 /\ c.zips = packs[u].zips /\ c.list = Cut /\ c.cut = {}
        /\ Keep(u, c)
    BY <1>2, <1>5, <2>1, ListChanged
  <2> HIDE DEF c
  <2> QED
    BY <1>4, <1>5, <2>2
<1>6. CASE f # ListFile /\ Keep(u, [packs[u] EXCEPT !.cut = @ \cup {f}])
           /\ To(u, [errand[u] EXCEPT !.open = {f}])
  <2> DEFINE c == [packs[u] EXCEPT !.cut = @ \cup {f}]
  <2>1. packs[u].cut = {} /\ f \in PackArchives
    BY <1>1, <1>6 DEF CutOff, Stages, PackFiles
  <2>2. /\ c \in Contents0 /\ c.zips = packs[u].zips /\ c.list = packs[u].list /\ c.cut = {f}
        /\ Keep(u, c)
    BY <1>2, <1>6, <2>1 DEF Contents0
  <2> HIDE DEF c
  <2> QED
    BY <1>4, <1>6, <2>2
<1> QED
  BY <1>3, <1>5, <1>6 DEF OpenCopy, Staging

LEMMA CloseKeepsStage ==
    ASSUME PacksInv, NEW u \in PackUsers, NEW f \in PackFiles, CloseCopy(u, f) PROVE PacksInv'
<1>1. /\ PackTypes /\ errand[u] \in Errands /\ StagedByOne(u) /\ CutOff(u) /\ CopiedSoFar(u)
      /\ errand[u].step = "copy" /\ UNCHANGED <<live, lists, made, disturbed>>
      /\ f \in errand[u].open /\ live.list # Cut
  BY ListsDiffer DEF PacksInv, PackTypes, CloseCopy, On, Quiet
<1>2. u \in DOMAIN packs /\ packs[u] \in Contents0
  BY <1>1 DEF StagedByOne, Stages, PackTypes
<1>3. CASE UNCHANGED packs /\ Step1(u, "cleanup")
  BY <1>1, <1>3, GivesUp DEF NoPack, Quiet
<1>4. ASSUME NEW c \in Contents0, Keep(u, c),
             To(u, [errand[u] EXCEPT !.open = {}, !.left = @ \ {f}]),
             f = ListFile => /\ c.zips = packs[u].zips /\ c.cut = packs[u].cut
                             /\ c.list = IF packs[u].list = Cut THEN live.list ELSE packs[u].list,
             f # ListFile => /\ c.zips = packs[u].zips \cup {f} /\ c.cut = packs[u].cut \ {f}
                             /\ c.list = packs[u].list
      PROVE  PacksInv'
  <2> DEFINE e == [errand[u] EXCEPT !.open = {}, !.left = @ \ {f}]
  <2>1. /\ e \in Errands /\ e.step = errand[u].step /\ e.kind = errand[u].kind
        /\ e.staged = errand[u].staged /\ e.left = errand[u].left \ {f} /\ e.open = {} /\ To(u, e)
    BY <1>1, <1>4 DEF Errands
  <2> HIDE DEF e
  <2>2. packs'[u] = c /\ u \in DOMAIN packs'
    <3>1. Keep(u, c)
      BY <1>4
    <3> QED
      BY <3>1, KeepFacts
  <2>3. errand'[u] = e
    BY <1>1, <2>1, ErrandIs
  <2>4. StagedByOne(u)'
    BY <1>1, <1>2, <2>1, <2>2, <2>3 DEF StagedByOne, Stages
  <2>5. errand[u].open = {f}
    BY <1>1 DEF CutOff
  <2>6. CutOff(u)'
    BY <1>1, <1>4, <2>1, <2>2, <2>3, <2>5, ListsDiffer DEF CutOff, Stages
  <2>7. CopiedSoFar(u)'
    <3>1. UNCHANGED LiveFiles
      BY <1>1 DEF LiveFiles
    <3>2. f # ListFile /\ f \in LiveFiles => f \in live.zips
      BY DEF LiveFiles
    <3>4. Stages(u) /\ ListFile \notin live.zips
      BY <1>1, PackConstants DEF PackTypes, ListFile, Stages
    <3>5. ASSUME u \notin disturbed
          PROVE  /\ e.kind = "create" /\ e.left \subseteq LiveFiles
                 /\ c.zips = live.zips \ e.left
                 /\ ListFile \in e.left \/ c.list = live.list
                    \/ (live.list = Missing /\ c.list = BaseList)
      <4>1. /\ errand[u].kind = "create" /\ errand[u].left \subseteq LiveFiles
            /\ packs[u].zips = live.zips \ errand[u].left
            /\ ListFile \in errand[u].open => packs[u].list = Cut
            /\ ListFile \in errand[u].left \/ packs[u].list = live.list
               \/ (live.list = Missing /\ packs[u].list = BaseList)
            /\ f \in errand[u].left
        BY <1>1, <2>5, <3>4, <3>5 DEF CopiedSoFar, CutOff
      <4>2. CASE f = ListFile
        BY <1>4, <2>1, <2>5, <3>4, <4>1, <4>2
      <4>3. CASE f # ListFile
        <5>1. c.zips = live.zips \ e.left
          BY <1>4, <2>1, <3>2, <4>1, <4>3
        <5> QED
          BY <1>4, <2>1, <4>1, <4>3, <5>1
      <4> QED
        BY <4>2, <4>3
    <3> QED
      BY <1>1, <2>1, <2>2, <2>3, <3>1, <3>5 DEF CopiedSoFar
  <2> QED
    BY <1>1, <1>4, <2>1, <2>4, <2>6, <2>7, StagingStep
<1>5. CASE f = ListFile
           /\ Keep(u, [packs[u] EXCEPT !.list = IF @ = Cut THEN live.list ELSE @])
           /\ To(u, [errand[u] EXCEPT !.open = {}, !.left = @ \ {f}])
  <2> DEFINE l == IF packs[u].list = Cut THEN live.list ELSE packs[u].list
             c == [packs[u] EXCEPT !.list = l]
  <2>1. l \in {Missing, Cut, BaseList} \cup Lists
    BY <1>1, <1>2 DEF PackTypes, Contents0
  <2>2. Keep(u, c)
    BY <1>5
  <2>3. l = IF packs[u].list = Cut THEN live.list ELSE packs[u].list
    OBVIOUS
  <2> HIDE DEF l
  <2>4. c \in Contents0 /\ c.zips = packs[u].zips /\ c.list = l /\ c.cut = packs[u].cut
    BY <1>2, <2>1, ListChanged
  <2> HIDE DEF c
  <2> QED
    BY <1>4, <1>5, <2>2, <2>3, <2>4
<1>6. CASE f # ListFile
           /\ Keep(u, [packs[u] EXCEPT !.cut = @ \ {f}, !.zips = @ \cup {f}])
           /\ To(u, [errand[u] EXCEPT !.open = {}, !.left = @ \ {f}])
  <2> DEFINE c == [packs[u] EXCEPT !.cut = @ \ {f}, !.zips = @ \cup {f}]
  <2>1. f \in PackArchives
    BY <1>6 DEF PackFiles
  <2>2. /\ c \in Contents0 /\ c.zips = packs[u].zips \cup {f} /\ c.list = packs[u].list
        /\ c.cut = packs[u].cut \ {f} /\ Keep(u, c)
    BY <1>2, <1>6, <2>1 DEF Contents0
  <2> HIDE DEF c
  <2> QED
    BY <1>4, <1>6, <2>2
<1> QED
  BY <1>3, <1>5, <1>6 DEF CloseCopy, Staging

LEMMA CopyEnds == ASSUME PacksInv, NEW u \in PackUsers, Copied(u) PROVE PacksInv'
<1> DEFINE e == [errand[u] EXCEPT !.step = "validate"]
<1>1. /\ PackTypes /\ errand[u] \in Errands /\ StagedByOne(u) /\ CutOff(u) /\ CopiedSoFar(u)
      /\ errand[u].step = "copy" /\ errand[u].left = {} /\ NoPack
  BY DEF PacksInv, PackTypes, Copied, On
<1>2. UNCHANGED <<packs, made, disturbed, live, lists>>
  BY <1>1 DEF NoPack, Quiet
<1>3. /\ e \in Errands /\ e.step = "validate" /\ e.staged = errand[u].staged /\ To(u, e)
      /\ e.kind = errand[u].kind /\ e.left = errand[u].left /\ e.open = errand[u].open
  BY <1>1, StepChanged DEF Step1, PackSteps, Copied
<1> HIDE DEF e
<1>4. errand' \in [PackUsers -> Errands] /\ errand'[u] = e
  BY <1>1, <1>3, ErrandIs
<1>5. PackTypes'
  BY <1>1, <1>2, <1>4 DEF PackTypes
<1>6. \A p \in PackNames : NamedPack(p)'
  BY <1>1, <1>2, <1>3, PackStays, StillRemoved DEF PacksInv
<1>7. StagedByOne(u)' /\ CutOff(u)'
  BY <1>1, <1>2, <1>3, <1>4 DEF StagedByOne, CutOff, Stages
<1>8. CopiedSoFar(u)'
  BY <1>1, <1>2, <1>3, <1>4 DEF CopiedSoFar, Stages, LiveFiles
<1> QED
  BY <1>2, <1>3, <1>5, <1>6, <1>7, <1>8, OneRequest

\* Once validated, a pack has a list.
LEMMA ValidationKeeps == ASSUME PacksInv, NEW u \in PackUsers, ValidatePack(u) PROVE PacksInv'
<1> DEFINE e == [errand[u] EXCEPT !.step = "rename"]
           l == IF packs[u].list = Missing THEN BaseList ELSE packs[u].list
           c == [packs[u] EXCEPT !.list = l]
<1>1. /\ PackTypes /\ errand[u] \in Errands /\ StagedByOne(u) /\ CutOff(u) /\ CopiedSoFar(u)
      /\ errand[u].step = "validate" /\ UNCHANGED <<live, lists, made, disturbed>>
  BY DEF PacksInv, PackTypes, ValidatePack, On, Quiet
<1>2. u \in DOMAIN packs /\ packs[u] \in Contents0 /\ errand[u].left = {} /\ errand[u].open = {}
  BY <1>1 DEF StagedByOne, CutOff, Stages, PackTypes
<1>3. /\ e \in Errands /\ e.step = "rename" /\ e.staged = errand[u].staged /\ To(u, e)
      /\ e.kind = errand[u].kind /\ e.left = errand[u].left /\ e.open = errand[u].open
  BY <1>1, StepChanged DEF Step1, PackSteps, ValidatePack
<1>4. Keep(u, c)
  BY DEF ValidatePack, Staging
<1>5. l \in {Missing, Cut, BaseList} \cup Lists /\ l # Missing
      /\ (packs[u].list = Missing => l = BaseList) /\ (packs[u].list # Missing => l = packs[u].list)
  BY <1>2, ListsDiffer DEF Contents0
<1> HIDE DEF e, l
<1>6. c \in Contents0 /\ c.list = l /\ c.zips = packs[u].zips /\ c.cut = packs[u].cut
  BY <1>2, <1>5, ListChanged
<1> HIDE DEF c
<1>7. packs'[u] = c /\ u \in DOMAIN packs'
  BY <1>4, KeepFacts
<1>8. errand'[u] = e
  BY <1>1, <1>3, ErrandIs
<1>9. StagedByOne(u)'
  BY <1>1, <1>3, <1>7, <1>8 DEF StagedByOne, Stages
<1>10. CutOff(u)'
  BY <1>1, <1>2, <1>3, <1>5, <1>6, <1>7, <1>8, ListsDiffer DEF CutOff, Stages
<1>11. CopiedSoFar(u)'
  BY <1>1, <1>2, <1>3, <1>5, <1>6, <1>7, <1>8, ListsDiffer DEF CopiedSoFar, Stages, LiveFiles
<1> QED
  BY <1>1, <1>3, <1>4, <1>6, <1>9, <1>10, <1>11, StagingStep

\* What an undisturbed request renames is what it was asked for.
LEMMA AsIntended ==
    ASSUME PackTypes, NEW u \in PackUsers, StagedByOne(u), CutOff(u), CopiedSoFar(u),
           errand[u].step = "rename"
    PROVE  /\ Intended(u) \in Contents0 /\ Intended(u).list # Missing
           /\ u \in DOMAIN packs /\ packs[u].cut = {} /\ packs[u].list # Cut
           /\ u \notin disturbed => packs[u] = Intended(u)
<1>1. /\ u \in DOMAIN packs /\ packs[u] \in Contents0 /\ errand[u].left = {}
      /\ errand[u].open = {} /\ errand[u].kind \in {"create", "empty"}
  BY DEF StagedByOne, CutOff, Stages, PackTypes
<1>2. packs[u].cut = {} /\ packs[u].list \notin {Cut, Missing}
  BY <1>1 DEF CutOff, Stages
<1>3. Intended(u) \in Contents0 /\ Intended(u).list # Missing
  BY ListsDiffer DEF Intended, Content, Contents0, PackTypes
<1>4. \A a, b \in Contents0 : a.list = b.list /\ a.zips = b.zips /\ a.cut = b.cut => a = b
  BY DEF Contents0
<1>5. ASSUME u \notin disturbed PROVE packs[u] = Intended(u)
  <2>1. CASE errand[u].kind = "empty"
    <3>1. packs[u].list = BaseList /\ packs[u].zips = {}
      BY <1>1, <1>2, <1>5, <2>1 DEF CopiedSoFar, Stages
    <3>2. Intended(u).list = BaseList /\ Intended(u).zips = {} /\ Intended(u).cut = {}
      BY <2>1 DEF Intended, Content
    <3> QED
      BY <1>1, <1>2, <1>3, <1>4, <3>1, <3>2
  <2>2. CASE errand[u].kind = "create"
    <3>1. /\ packs[u].zips = live.zips
          /\ packs[u].list = IF live.list = Missing THEN BaseList ELSE live.list
      BY <1>1, <1>2, <1>5, <2>2 DEF CopiedSoFar, Stages
    <3>2. /\ Intended(u).zips = live.zips /\ Intended(u).cut = {}
          /\ Intended(u).list = IF live.list = Missing THEN BaseList ELSE live.list
      BY <2>2 DEF Intended, Content
    <3> QED
      BY <1>1, <1>2, <1>3, <1>4, <3>1, <3>2
  <2> QED
    BY <1>1, <2>1, <2>2
<1> QED
  BY <1>1, <1>2, <1>3, <1>5

\* The staging directory becomes the pack, and the request goes on with its reload.
LEMMA PackRenameKeeps == ASSUME PacksInv, NEW u \in PackUsers, RenamePack(u) PROVE PacksInv'
<1> DEFINE p == errand[u].pack
           e == [errand[u] EXCEPT !.kind = "finish", !.step = "walk", !.todo = DOMAIN packs',
                     !.loaded = {}]
<1>1. /\ PackTypes /\ errand[u] \in Errands /\ StagedByOne(u) /\ CutOff(u) /\ CopiedSoFar(u)
      /\ errand[u].step = "rename" /\ UNCHANGED <<live, lists>> /\ p \in PackNames
  BY DEF PacksInv, PackTypes, RenamePack, On, Quiet, Errands
<1>2. CASE UNCHANGED packs /\ Step1(u, "cleanup") /\ UNCHANGED <<made, disturbed>>
  BY <1>1, <1>2, GivesUp DEF NoPack, Quiet
<1>3. CASE /\ p \notin DOMAIN packs \ {u}
           /\ packs' = [d \in (DOMAIN packs \ {u}) \cup {p} |->
                           IF d = p THEN packs[u] ELSE packs[d]]
           /\ made' = [d \in DOMAIN made \cup {p} |-> IF d = p THEN Intended(u) ELSE made[d]]
           /\ disturbed' = (disturbed \ {u, p}) \cup (IF u \in disturbed THEN {p} ELSE {})
           /\ To(u, e)
  <2>1. /\ Intended(u) \in Contents0 /\ Intended(u).list # Missing
        /\ u \in DOMAIN packs /\ packs[u].cut = {} /\ packs[u].list # Cut
        /\ u \notin disturbed => packs[u] = Intended(u)
    BY <1>1, AsIntended
  <2>2. p # u /\ p \notin DOMAIN packs
    BY <1>1, <1>3, PlacesDiffer
  <2>3. /\ DOMAIN packs' = (DOMAIN packs \ {u}) \cup {p} /\ packs'[p] = packs[u]
        /\ \A d \in DOMAIN packs \ {u} : packs'[d] = packs[d]
    BY <1>3, <2>2
  <2>4. /\ DOMAIN made' = DOMAIN made \cup {p} /\ made'[p] = Intended(u)
        /\ \A d \in DOMAIN made : d # p => made'[d] = made[d]
    BY <1>3
  <2>5. /\ \A d : d \notin {u, p} => (d \in disturbed' <=> d \in disturbed)
        /\ p \in disturbed' <=> u \in disturbed
    BY <1>3, <2>2
  <2>6. DOMAIN packs' \subseteq Places
    BY <1>1, <2>3 DEF PackTypes, Places
  <2>7. /\ e \in Errands /\ e.step = "walk" /\ e.kind = "finish" /\ e.left = errand[u].left
        /\ e.open = errand[u].open /\ e.staged = errand[u].staged /\ To(u, e)
    BY <1>1, <1>3, <2>6 DEF Errands, Kinds, PackSteps
  <2> HIDE DEF e, p
  <2>8. errand' \in [PackUsers -> Errands] /\ errand'[u] = e
    BY <1>1, <2>7, ErrandIs
  <2>9. PackTypes'
    <3>1. \A d \in DOMAIN packs' : packs'[d] \in Contents0
      BY <1>1, <2>1, <2>3 DEF PackTypes
    <3>2. \A d \in DOMAIN made' : made'[d] \in Contents0
      BY <1>1, <2>1, <2>4 DEF PackTypes
    <3> QED
      BY <1>1, <2>6, <2>8, <3>1, <3>2 DEF PackTypes
  <2>10. ASSUME NEW q \in PackNames PROVE NamedPack(q)'
    <3>1. NamedPack(q) /\ q # u /\ (Removing(q) => Removing(q)')
      BY <1>1, <2>7, PlacesDiffer, StillRemoved DEF PacksInv
    <3>2. CASE q # p
      BY <2>3, <2>4, <2>5, <3>1, <3>2, PackStays
    <3>3. CASE q = p
      BY <2>1, <2>3, <2>4, <2>5, <3>3 DEF NamedPack
    <3> QED
      BY <3>2, <3>3
  <2>11. ASSUME NEW w \in PackUsers, w # u
         PROVE  /\ w \in DOMAIN packs' <=> w \in DOMAIN packs
                /\ w \in DOMAIN packs => packs'[w] = packs[w]
                /\ w \in disturbed => w \in disturbed'
    <3>1. w # p
      BY <1>1, PlacesDiffer
    <3> QED
      BY <2>3, <2>5, <2>11, <3>1
  <2>12. StagedByOne(u)' /\ CutOff(u)' /\ CopiedSoFar(u)'
    <3>1. u \notin DOMAIN packs'
      BY <2>2, <2>3
    <3> QED
      BY <1>1, <2>7, <2>8, <3>1 DEF StagedByOne, CutOff, CopiedSoFar, Stages
  <2> QED
    BY <1>1, <2>7, <2>9, <2>10, <2>11, <2>12, OneRequest
<1> QED
  BY <1>2, <1>3 DEF RenamePack, Reload, Staging

LEMMA PackCleanUpKeeps == ASSUME PacksInv, NEW u \in PackUsers, CleanUpPack(u) PROVE PacksInv'
<1>1. /\ PackTypes /\ errand[u] \in Errands /\ StagedByOne(u) /\ errand[u].step = "cleanup"
      /\ UNCHANGED <<live, lists, made>> /\ To(u, NoErrand)
  BY DEF PacksInv, PackTypes, CleanUpPack, On, Quiet, Respond
<1>2. errand' \in [PackUsers -> Errands] /\ errand'[u] = NoErrand
  BY <1>1, NoErrandTyped, ErrandIs
<1>3. /\ \A d : d # u =>
            /\ d \in DOMAIN packs' <=> d \in DOMAIN packs
            /\ d \in DOMAIN packs => packs'[d] = packs[d]
            /\ d \in disturbed => d \in disturbed'
      /\ DOMAIN packs' \subseteq DOMAIN packs
      /\ \A d \in DOMAIN packs' : packs'[d] = packs[d]
      /\ u \in DOMAIN packs' => u \in disturbed'
  <2>1. CASE ~errand[u].staged /\ UNCHANGED <<packs, disturbed>>
    BY <1>1, <2>1 DEF StagedByOne
  <2>2. CASE packs' = Lose(packs, u) /\ disturbed' = disturbed \ {u}
    BY <2>2 DEF Lose
  <2>3. CASE UNCHANGED packs /\ Mark({u})
    BY <2>3 DEF Mark
  <2> QED
    BY <2>1, <2>2, <2>3 DEF CleanUpPack
<1>4. PackTypes'
  <2>1. \A d \in DOMAIN packs' : packs'[d] \in Contents0
    BY <1>1, <1>3 DEF PackTypes
  <2>2. DOMAIN packs' \subseteq Places
    BY <1>1, <1>3 DEF PackTypes
  <2> QED
    BY <1>1, <1>2, <2>1, <2>2 DEF PackTypes
<1>5. ASSUME NEW p \in PackNames PROVE NamedPack(p)'
  <2>1. NamedPack(p) /\ p # u /\ (Removing(p) => Removing(p)')
    BY <1>1, PlacesDiffer, StillRemoved DEF PacksInv
  <2> QED
    BY <1>1, <1>3, <2>1, PackStays
<1>6. StagedByOne(u)' /\ CutOff(u)' /\ CopiedSoFar(u)'
  BY <1>2, <1>3, NoErrandTyped DEF StagedByOne, CutOff, CopiedSoFar, Stages
<1> QED
  BY <1>1, <1>3, <1>4, <1>5, <1>6, NoErrandTyped, OneRequest

-----------------------------------------------------------------------------
(* Removing and changing a pack.                                           *)

LEMMA RemoveFileKeeps == ASSUME PacksInv, NEW u \in PackUsers, RemovePackFile(u) PROVE PacksInv'
<1> DEFINE p == errand[u].pack
<1>1. /\ PackTypes /\ errand[u] \in Errands /\ errand[u].step = "remove" /\ p \in DOMAIN packs
      /\ UNCHANGED <<live, lists, disturbed, errand>> /\ p \in PackNames /\ made' = Lose(made, p)
  BY DEF PacksInv, PackTypes, RemovePackFile, On, Quiet, Errands
<1>2. packs[p] \in Contents0 /\ NamedPack(p)
  BY <1>1 DEF PacksInv, PackTypes
<1>3. PICK c \in Contents0 : Keep(p, c) /\ c.cut = packs[p].cut /\ c.list \in {Missing, packs[p].list}
  <2>1. ASSUME Keep(p, [packs[p] EXCEPT !.list = Missing])
        PROVE  \E c \in Contents0 : Keep(p, c) /\ c.cut = packs[p].cut
                                     /\ c.list \in {Missing, packs[p].list}
    <3> DEFINE c == [packs[p] EXCEPT !.list = Missing]
    <3>1. c \in Contents0 /\ c.cut = packs[p].cut /\ c.list = Missing /\ Keep(p, c)
      BY <1>2, <2>1, ListChanged
    <3> HIDE DEF c
    <3> QED
      BY <3>1
  <2>2. ASSUME NEW f \in packs[p].zips, Keep(p, [packs[p] EXCEPT !.zips = @ \ {f}])
        PROVE  \E c \in Contents0 : Keep(p, c) /\ c.cut = packs[p].cut
                                     /\ c.list \in {Missing, packs[p].list}
    <3> DEFINE c == [packs[p] EXCEPT !.zips = @ \ {f}]
    <3>1. c \in Contents0 /\ c.cut = packs[p].cut /\ c.list = packs[p].list /\ Keep(p, c)
      BY <1>2, <2>2 DEF Contents0
    <3> HIDE DEF c
    <3> QED
      BY <3>1
  <2> QED
    BY <2>1, <2>2 DEF RemovePackFile
<1> HIDE DEF p
<1>4. /\ DOMAIN packs' = DOMAIN packs /\ packs'[p] = c
      /\ \A d \in DOMAIN packs : d # p => packs'[d] = packs[d]
  BY <1>1, <1>3, KeepFacts
<1>5. /\ DOMAIN made' = DOMAIN made \ {p} /\ \A d \in DOMAIN made' : made'[d] = made[d]
  BY <1>1 DEF Lose
<1>6. PackTypes'
  <2>1. \A d \in DOMAIN packs' : packs'[d] \in Contents0
    BY <1>1, <1>4 DEF PackTypes
  <2>2. \A d \in DOMAIN made' : made'[d] \in Contents0
    BY <1>1, <1>5 DEF PackTypes
  <2> QED
    BY <1>1, <1>4, <2>1, <2>2 DEF PackTypes
<1>7. ASSUME NEW q \in PackNames PROVE NamedPack(q)'
  <2>1. NamedPack(q) /\ (Removing(q) => Removing(q)')
    BY <1>1 DEF PacksInv, Removing, On
  <2>2. CASE q # p
    BY <1>1, <1>4, <1>5, <2>1, <2>2, PackStays
  <2>3. CASE q = p
    <3>1. p \notin DOMAIN made'
      BY <1>5
    <3>2. packs'[p].cut = {} /\ packs'[p].list # Cut
      BY <1>1, <1>2, <1>3, <1>4, ListsDiffer DEF NamedPack
    <3>3. Removing(q)'
      BY <1>1, <2>3 DEF p, Removing, On
    <3> QED
      BY <2>3, <3>1, <3>2, <3>3 DEF NamedPack
  <2> QED
    BY <2>2, <2>3
<1>8. ASSUME NEW w \in PackUsers PROVE StagedByOne(w)' /\ CutOff(w)' /\ CopiedSoFar(w)'
  <2>1. w # p /\ StagedByOne(w) /\ CutOff(w) /\ CopiedSoFar(w)
    BY <1>1, PlacesDiffer DEF PacksInv
  <2> QED
    BY <1>1, <1>4, <2>1, UserStays
<1> QED
  BY <1>6, <1>7, <1>8 DEF PacksInv

\* What a removal leaves to its request is neither staged nor copied.
LEMMA RemoverIdle ==
    ASSUME PacksInv, NEW u \in PackUsers, errand[u].step = "remove"
    PROVE  /\ errand[u] \in Errands /\ errand[u].pack \in PackNames
           /\ ~errand[u].staged /\ errand[u].left = {} /\ errand[u].open = {}
BY DEF PacksInv, PackTypes, Errands, StagedByOne, CutOff

LEMMA PackGoneKeeps ==
    ASSUME PacksInv, NEW u \in PackUsers, NEW e \in Errands, To(u, e), errand[u].step = "remove",
           NEW p, p = errand[u].pack, UNCHANGED <<live, lists>>, made' = Lose(made, p),
           ~e.staged, e.left = {}, e.open = {}, e.step \in {"walk", "cleanup"},
           \A d \in Places : d # p =>
              /\ d \in DOMAIN packs' <=> d \in DOMAIN packs
              /\ d \in DOMAIN packs => packs'[d] = packs[d]
              /\ d \in disturbed => d \in disturbed',
           DOMAIN packs' \subseteq DOMAIN packs, p \in DOMAIN packs' => packs'[p] = packs[p],
           p \in DOMAIN packs' => p \in disturbed'
    PROVE  PacksInv'
<1>1. PackTypes /\ p \in PackNames /\ StagedByOne(u) /\ \A w \in PackUsers : w # p
  BY RemoverIdle, PlacesDiffer DEF PacksInv
<1>2. errand' \in [PackUsers -> Errands] /\ errand'[u] = e
  BY <1>1, ErrandIs
<1>3. /\ DOMAIN made' = DOMAIN made \ {p} /\ \A d \in DOMAIN made' : made'[d] = made[d]
  BY DEF Lose
<1>4. PackTypes'
  <2>1. \A d \in DOMAIN packs' : packs'[d] \in Contents0
    BY <1>1 DEF PackTypes
  <2>2. \A d \in DOMAIN made' : made'[d] \in Contents0
    BY <1>1, <1>3 DEF PackTypes
  <2>3. DOMAIN packs' \subseteq Places
    BY <1>1 DEF PackTypes
  <2> QED
    BY <1>1, <1>2, <2>1, <2>2, <2>3 DEF PackTypes
<1>5. ASSUME NEW q \in PackNames PROVE NamedPack(q)'
  <2>1. NamedPack(q) /\ q \in Places
    BY DEF PacksInv, Places
  <2>2. CASE q # p
    <3>1. Removing(q) => Removing(q)'
      BY <1>1, <2>2, StillRemoved
    <3> QED
      BY <1>3, <2>1, <2>2, <3>1, PackStays
  <2>3. CASE q = p
    BY <1>3, <2>1, <2>3 DEF NamedPack
  <2> QED
    BY <2>2, <2>3
<1>6. StagedByOne(u)' /\ CutOff(u)' /\ CopiedSoFar(u)'
  <2>1. u \in Places /\ u # p /\ ~errand[u].staged
    BY <1>1, RemoverIdle DEF Places
  <2> QED
    BY <1>1, <1>2, <2>1 DEF StagedByOne, CutOff, CopiedSoFar, Stages
<1>7. \A w \in PackUsers : w # p /\ w \in Places
  BY <1>1 DEF Places
<1> QED
  BY <1>4, <1>5, <1>6, <1>7, OneRequest

LEMMA RemoveDirectoryKeeps ==
    ASSUME PacksInv, NEW u \in PackUsers, RemovePackDirectory(u) PROVE PacksInv'
<1> DEFINE p == errand[u].pack
           k == IF errand[u].kind = "clear" THEN "empty" ELSE "finish"
           e == [errand[u] EXCEPT !.kind = k, !.step = "walk", !.todo = DOMAIN packs', !.loaded = {}]
<1>1. /\ errand[u].step = "remove" /\ UNCHANGED <<live, lists>> /\ made' = Lose(made, p)
      /\ packs' = Lose(packs, p) /\ disturbed' = disturbed \ {p} /\ To(u, e)
  BY DEF RemovePackDirectory, On, Quiet, Reload
<1>2. DOMAIN packs' = DOMAIN packs \ {p} /\ \A d \in DOMAIN packs' : packs'[d] = packs[d]
  BY <1>1 DEF Lose
<1>3. /\ errand[u] \in Errands /\ ~errand[u].staged /\ errand[u].left = {} /\ errand[u].open = {}
  BY <1>1, RemoverIdle
<1>4. DOMAIN packs' \subseteq Places /\ k \in Kinds
  BY <1>2 DEF PacksInv, PackTypes, Kinds
<1> HIDE DEF k
<1>5. /\ e \in Errands /\ e.step = "walk" /\ e.staged = errand[u].staged /\ e.left = errand[u].left
      /\ e.open = errand[u].open
  BY <1>3, <1>4 DEF Errands, PackSteps
<1> HIDE DEF e, p
<1>6. p = errand[u].pack
  BY DEF p
<1> QED
  BY <1>1, <1>2, <1>3, <1>5, <1>6, PackGoneKeeps

LEMMA RemoveFailsKeeps ==
    ASSUME PacksInv, NEW u \in PackUsers, RemovePackFails(u) PROVE PacksInv'
<1> DEFINE p == errand[u].pack
           e == [errand[u] EXCEPT !.step = "cleanup"]
<1>1. /\ errand[u].step = "remove" /\ UNCHANGED <<live, lists, packs>> /\ made' = Lose(made, p)
      /\ disturbed' = disturbed \cup {p} /\ To(u, e)
  BY DEF RemovePackFails, On, Quiet, Step1, Mark
<1>2. errand[u] \in Errands /\ ~errand[u].staged /\ errand[u].left = {} /\ errand[u].open = {}
  BY <1>1, RemoverIdle
<1>3. /\ e \in Errands /\ e.step = "cleanup" /\ e.staged = errand[u].staged
      /\ e.left = errand[u].left /\ e.open = errand[u].open
  BY <1>2, StepChanged DEF PackSteps
<1> HIDE DEF e, p
<1>4. p = errand[u].pack
  BY DEF p
<1> QED
  BY <1>1, <1>2, <1>3, <1>4, PackGoneKeeps

\* The list that is written back is the one that was asked for only when nobody wrote one
\* since the walk.
LEMMA ToggleKeeps == ASSUME PacksInv, NEW u \in PackUsers, TogglePackMod(u) PROVE PacksInv'
<1> DEFINE p == errand[u].pack
           c == [Held(p) EXCEPT !.list = lists']
<1>1. /\ PackTypes /\ errand[u] \in Errands /\ errand[u].step = "write" /\ p \in PackNames
      /\ StagedByOne(u) /\ UNCHANGED live /\ To(u, NoErrand) /\ lists' \in Lists /\ Keep(p, c)
  BY DEF PacksInv, PackTypes, TogglePackMod, On, Errands, Respond
<1>2. /\ Held(p) \in Contents0 /\ NamedPack(p) /\ lists' \notin {Missing, Cut} /\ lists' \in Nat
      /\ p \in DOMAIN packs => Held(p) = packs[p]
      /\ p \notin DOMAIN packs => Held(p).cut = {}
  BY <1>1, HeldTyped, ListsDiffer DEF PacksInv, Held
<1>3. /\ c \in Contents0 /\ c.list = lists' /\ c.cut = Held(p).cut
  BY <1>1, <1>2, ListChanged
<1>4. \/ /\ p \in DOMAIN made /\ ~Removing(p) /\ UNCHANGED disturbed
         /\ made' = [made EXCEPT ![p] = [made[p] EXCEPT !.list = lists']]
      \/ UNCHANGED made /\ disturbed' = disturbed \cup {p}
  <2>1. CASE Held(p).list = errand[u].view /\ p \in DOMAIN made /\ ~Removing(p)
    BY <2>1 DEF TogglePackMod
  <2>2. CASE ~(Held(p).list = errand[u].view /\ p \in DOMAIN made /\ ~Removing(p))
    BY <2>2 DEF TogglePackMod, Mark
  <2> QED
    BY <2>1, <2>2
<1>5. p \notin disturbed' /\ ~Removing(p) => p \in DOMAIN made' /\ made'[p] = c
  BY <1>2, <1>4 DEF NamedPack
<1>6. /\ DOMAIN made' = DOMAIN made /\ \A d \in DOMAIN made : d # p => made'[d] = made[d]
      /\ disturbed \subseteq disturbed'
  BY <1>4
<1>7. p \in DOMAIN made => made'[p] \in Contents0 /\ made'[p].list # Missing
  <2>1. CASE made' = [made EXCEPT ![p] = [made[p] EXCEPT !.list = lists']]
    BY <1>1, <1>2, <2>1, ListChanged DEF PackTypes
  <2>2. CASE UNCHANGED made
    BY <1>1, <1>2, <2>2 DEF PackTypes, NamedPack
  <2> QED
    BY <1>4, <2>1, <2>2
<1> HIDE DEF c, p
<1>8. /\ DOMAIN packs' = DOMAIN packs \cup {p} /\ packs'[p] = c
      /\ \A d \in DOMAIN packs : d # p => packs'[d] = packs[d]
  BY <1>1, KeepFacts
<1>9. errand' \in [PackUsers -> Errands] /\ errand'[u] = NoErrand
  BY <1>1, NoErrandTyped, ErrandIs
<1>10. PackTypes'
  <2>1. \A d \in DOMAIN packs' : packs'[d] \in Contents0
    BY <1>1, <1>3, <1>8 DEF PackTypes
  <2>2. \A d \in DOMAIN made' : made'[d] \in Contents0
    BY <1>1, <1>6, <1>7 DEF PackTypes
  <2>3. DOMAIN packs' \subseteq Places
    BY <1>1, <1>8 DEF PackTypes, Places
  <2> QED
    BY <1>1, <1>2, <1>9, <2>1, <2>2, <2>3 DEF PackTypes
<1>11. ASSUME NEW q \in PackNames PROVE NamedPack(q)'
  <2>1. NamedPack(q) /\ (Removing(q) => Removing(q)')
    BY <1>1, StillRemoved DEF PacksInv
  <2>2. CASE q # p
    BY <1>6, <1>8, <2>1, <2>2, PackStays
  <2>3. CASE q = p
    <3>1. packs'[p].cut = {} /\ packs'[p].list # Cut
      BY <1>2, <1>3, <1>8 DEF NamedPack
    <3>2. q \notin disturbed' /\ ~Removing(q)' => q \in DOMAIN made' /\ made'[q] = packs'[q]
      BY <1>5, <1>8, <2>1, <2>3
    <3> QED
      BY <1>6, <1>7, <1>8, <2>3, <3>1, <3>2 DEF NamedPack
  <2> QED
    BY <2>2, <2>3
<1>12. \A w \in PackUsers :
          /\ w \in DOMAIN packs' <=> w \in DOMAIN packs
          /\ w \in DOMAIN packs => packs'[w] = packs[w]
          /\ w \in disturbed => w \in disturbed'
  BY <1>1, <1>6, <1>8, PlacesDiffer
<1>13. StagedByOne(u)' /\ CutOff(u)' /\ CopiedSoFar(u)'
  <2>1. ~errand[u].staged
    BY <1>1 DEF StagedByOne
  <2>2. u \in DOMAIN packs' => u \in disturbed'
    BY <1>1, <1>12, <2>1 DEF StagedByOne
  <2> QED
    BY <1>9, <2>2, NoErrandTyped DEF StagedByOne, CutOff, CopiedSoFar, Stages
<1> QED
  BY <1>1, <1>10, <1>11, <1>12, <1>13, NoErrandTyped, OneRequest

-----------------------------------------------------------------------------

LEMMA LiveEditKeeps == ASSUME PacksInv, EditLive PROVE PacksInv'
<1>1. /\ UNCHANGED <<packs, errand, made>> /\ lists' \in Lists /\ disturbed \subseteq disturbed'
      /\ \A u \in PackUsers : Stages(u) => u \in disturbed'
  BY DEF EditLive, Mark, Stages
<1>2. live'.list \in Lists /\ live'.zips \in SUBSET PackArchives
  BY <1>1 DEF EditLive
<1>3. PackTypes'
  BY <1>1, <1>2, ListsDiffer DEF PacksInv, PackTypes
<1>4. ASSUME NEW p \in PackNames PROVE NamedPack(p)'
  BY <1>1, PackStays DEF PacksInv, Removing, On
<1>5. ASSUME NEW u \in PackUsers PROVE StagedByOne(u)' /\ CutOff(u)' /\ CopiedSoFar(u)'
  <2>1. StagedByOne(u) /\ CutOff(u)
    BY DEF PacksInv
  <2> QED
    BY <1>1, <2>1 DEF StagedByOne, CutOff, CopiedSoFar, Stages
<1> QED
  BY <1>3, <1>4, <1>5 DEF PacksInv

LEMMA PacksCutKeeps == ASSUME PacksInv, PacksCut PROVE PacksInv'
<1>1. /\ UNCHANGED <<packs, live, lists>> /\ errand' \in [PackUsers -> Errands]
      /\ \A u \in PackUsers : errand'[u] = NoErrand
  BY NoErrandTyped DEF PacksCut
<1>2. /\ disturbed' = disturbed \cup {p \in PackNames : Removing(p)} \cup (DOMAIN packs \cap PackUsers)
      /\ DOMAIN made' = {p \in DOMAIN made : ~Removing(p)}
      /\ \A p \in DOMAIN made' : made'[p] = made[p]
  BY DEF PacksCut, Mark
<1>3. PackTypes'
  <2>1. \A p \in DOMAIN made' : made'[p] \in Contents0
    BY <1>2 DEF PacksInv, PackTypes
  <2> QED
    BY <1>1, <2>1 DEF PacksInv, PackTypes
<1>4. ASSUME NEW p \in PackNames PROVE NamedPack(p)'
  <2>1. NamedPack(p)
    BY DEF PacksInv
  <2>2. CASE Removing(p)
    BY <1>1, <1>2, <2>1, <2>2 DEF NamedPack
  <2>3. CASE ~Removing(p)
    BY <1>1, <1>2, <2>1, <2>3 DEF NamedPack
  <2> QED
    BY <2>2, <2>3
<1>5. ASSUME NEW u \in PackUsers PROVE StagedByOne(u)' /\ CutOff(u)' /\ CopiedSoFar(u)'
  BY <1>1, <1>2, NoErrandTyped DEF StagedByOne, CutOff, CopiedSoFar, Stages
<1> QED
  BY <1>3, <1>4, <1>5 DEF PacksInv

LEMMA PacksKeep == PacksInv /\ [PacksNext]_packVars => PacksInv'
<1> SUFFICES ASSUME PacksInv, [PacksNext]_packVars PROVE PacksInv'
  OBVIOUS
<1>1. CASE UNCHANGED packVars
  <2>1. UNCHANGED <<packs, live, errand, made, disturbed, lists>>
    BY <1>1 DEF packVars
  <2>2. PackTypes'
    BY <2>1 DEF PacksInv, PackTypes
  <2>3. \A p \in PackNames : NamedPack(p)'
    BY <2>1, PackStays DEF PacksInv, Removing, On
  <2>4. \A u \in PackUsers : StagedByOne(u)' /\ CutOff(u)' /\ CopiedSoFar(u)'
    BY <2>1, UserStays DEF PacksInv
  <2> QED
    BY <2>2, <2>3, <2>4 DEF PacksInv
<1>2. ASSUME NEW u \in PackUsers,
             \/ \E kind \in {"list", "create", "delete", "clear", "toggle"}, p \in PackNames :
                   BeginPackRequest(u, kind, p)
             \/ \E d \in Places :
                   ReadPackList(u, d) \/ CreatePackList(u, d) \/ ReadPackArchives(u, d)
             \/ PackWalked(u)
      PROVE  PacksInv'
  BY <1>2, WalkReads, CreateListKeeps
<1>3. ASSUME NEW u \in PackUsers,
             \/ StagePack(u) \/ Copied(u) \/ ValidatePack(u) \/ RenamePack(u) \/ CleanUpPack(u)
             \/ \E f \in PackFiles : OpenCopy(u, f) \/ CloseCopy(u, f)
      PROVE  PacksInv'
  BY <1>3, StageKeeps, CopyEnds, ValidationKeeps, PackRenameKeeps, PackCleanUpKeeps,
     OpenKeepsStage, CloseKeepsStage
<1>4. ASSUME NEW u \in PackUsers,
             \/ RemovePackFile(u) \/ RemovePackDirectory(u) \/ RemovePackFails(u)
             \/ TogglePackMod(u)
      PROVE  PacksInv'
  BY <1>4, RemoveFileKeeps, RemoveDirectoryKeeps, RemoveFailsKeeps, ToggleKeeps
<1> QED
  BY <1>1, <1>2, <1>3, <1>4, LiveEditKeeps, PacksCutKeeps DEF PacksNext, PackFiles

\* A pack is what was asked of it, whole, whatever fails or overlaps, unless two requests met
\* in its directory or its removal was cut short; no archive in a pack is ever cut off, and
\* a staging directory that nobody uses is one that a crash, a failed removal or somebody
\* else's walk has left (mod_modpack.go:97, :119).  For any packs, requests and archives.
THEOREM PacksAlwaysAsMade == PacksSpec => []PacksAsMade
<1>1. PacksInv => PacksAsMade
  <2> SUFFICES ASSUME PacksInv PROVE PacksAsMade
    OBVIOUS
  <2>1. \A p \in PackNames : NamedPack(p)
    BY DEF PacksInv
  <2>2. ASSUME NEW u \in PackUsers, u \in DOMAIN packs, On(u, "none") PROVE u \in disturbed
    BY <2>2 DEF PacksInv, StagedByOne, On
  <2> QED
    BY <2>1, <2>2 DEF PacksAsMade, NamedPack
<1> QED
  BY <1>1, PacksStart, PacksKeep, PTL DEF PacksSpec

\* What was asked of packs is kept by their names, what is disturbed is a directory.
HistoryTyped == DOMAIN made \subseteq PackNames /\ disturbed \subseteq Places

LEMMA HistoryKept == PacksInv /\ HistoryTyped /\ [PacksNext]_packVars => HistoryTyped'
<1> SUFFICES ASSUME PackTypes, HistoryTyped, [PacksNext]_packVars PROVE HistoryTyped'
  BY DEF PacksInv
<1>1. \A u \in PackUsers : errand[u].pack \in PackNames /\ u \in Places
  BY DEF PackTypes, Errands, Places
<1>2. PackNames \subseteq Places /\ PackUsers \subseteq Places
  BY DEF Places
<1>3. CASE UNCHANGED <<made, disturbed>>
  BY <1>3 DEF HistoryTyped
<1>4. ASSUME NEW u \in PackUsers, NEW d \in Places, CreatePackList(u, d) PROVE HistoryTyped'
  BY <1>4 DEF CreatePackList, Mark, HistoryTyped
<1>5. ASSUME NEW u \in PackUsers, RenamePack(u) PROVE HistoryTyped'
  BY <1>1, <1>2, <1>3, <1>5 DEF RenamePack, HistoryTyped
<1>6. ASSUME NEW u \in PackUsers, CleanUpPack(u) PROVE HistoryTyped'
  BY <1>1, <1>6 DEF CleanUpPack, Mark, HistoryTyped
<1>7. ASSUME NEW u \in PackUsers, RemovePackFile(u) \/ RemovePackDirectory(u) \/ RemovePackFails(u)
      PROVE  HistoryTyped'
  BY <1>1, <1>2, <1>7
     DEF RemovePackFile, RemovePackDirectory, RemovePackFails, Lose, Mark, HistoryTyped
<1>8. ASSUME NEW u \in PackUsers, TogglePackMod(u) PROVE HistoryTyped'
  BY <1>1, <1>2, <1>8 DEF TogglePackMod, Mark, HistoryTyped
<1>9. CASE EditLive \/ PacksCut
  BY <1>2, <1>9 DEF EditLive, PacksCut, Mark, HistoryTyped
<1>10. ASSUME NEW u \in PackUsers, NEW d, NEW kind, NEW p,
              \/ BeginPackRequest(u, kind, p) \/ ReadPackList(u, d) \/ ReadPackArchives(u, d)
              \/ PackWalked(u) \/ StagePack(u) \/ OpenCopy(u, d) \/ CloseCopy(u, d)
              \/ Copied(u) \/ ValidatePack(u)
       PROVE  UNCHANGED <<made, disturbed>>
  BY <1>10 DEF BeginPackRequest, ReadPackList, ReadPackArchives, PackWalked, StagePack, OpenCopy,
               CloseCopy, Copied, ValidatePack, NoPack
<1> QED
  BY <1>3, <1>4, <1>5, <1>6, <1>7, <1>8, <1>9, <1>10 DEF PacksNext, packVars

\* The packs and the requests have their types; a request that copies has one file open, of
\* those that are left.
THEOREM PacksTypeCorrect == PacksSpec => []PacksTypeOK
<1>1. PacksInit => HistoryTyped
  <2> SUFFICES ASSUME PacksInit PROVE HistoryTyped
    OBVIOUS
  <2>1. NoErrand.pack \in PackNames
    BY NoErrandTyped DEF Errands
  <2> QED
    BY <2>1 DEF PacksInit, HistoryTyped
<1>2. PacksInv /\ HistoryTyped => PacksTypeOK
  <2> SUFFICES ASSUME PacksInv, HistoryTyped PROVE PacksTypeOK
    OBVIOUS
  <2>1. PackTypes
    BY DEF PacksInv
  <2>2. ASSUME NEW u \in PackUsers
        PROVE  /\ errand[u].kind \in Kinds /\ errand[u].step \in PackSteps
               /\ Unread(u) \cup errand[u].loaded \subseteq Places
               /\ errand[u].open \subseteq errand[u].left /\ errand[u].staged \in BOOLEAN
    <3>1. errand[u] \in Errands
      BY <2>1 DEF PackTypes
    <3>2. CutOff(u)
      BY DEF PacksInv
    <3> QED
      BY <3>1, <3>2 DEF Errands, CutOff, Unread
  <2> QED
    BY <2>1, <2>2 DEF PackTypes, HistoryTyped, PacksTypeOK
<1> QED
  BY <1>1, <1>2, HistoryKept, PacksStart, PacksKeep, PTL DEF PacksSpec

-----------------------------------------------------------------------------
(* Saves: the inductive invariant.                                         *)

UploadSteps == {"none", "copy", "rename", "aside", "place", "back", "tidy"}
SavesTyped ==
    /\ SavesTypeOK
    /\ upload \in [Uploaders -> [step : UploadSteps, name : SaveNames]]
    /\ written \in 0..MaxWrites

\* What is on its way to a name is there and whole, and so is what was moved aside.
Carries(u) == upload[u].step \in {"rename", "aside", "place", "back"}
UploadsWhole ==
    \A u \in Uploaders :
        /\ upload[u].step = "copy" \/ Carries(u) => u \in DOMAIN saveFiles
        /\ Carries(u) => saveFiles[u].whole
        /\ upload[u].step \in {"place", "back"} => u \in DOMAIN hidden
        /\ u \in DOMAIN hidden => hidden[u].whole

\* CreateWorld has seen nothing under the name.
NothingSeen == creation.step # "none" => creation.seen = {}

SavesInv == SavesTyped /\ SavesWhole /\ UploadsWhole /\ NothingSeen

\* The names of saves are not those of temporary files.
LEMMA NamesApart ==
    ASSUME SavesInv, NEW u \in Uploaders
    PROVE  /\ upload[u].name \in SaveNames /\ upload[u].step \in UploadSteps
           /\ u # upload[u].name /\ u \notin SaveNames
BY SavesConstants DEF SavesInv, SavesTyped

LEMMA SavesStart == SavesInit => SavesInv
<1> SUFFICES ASSUME SavesInit PROVE SavesInv
  OBVIOUS
<1>1. FirstWhole \in SaveFile /\ FirstWhole.whole
  BY SavesConstants DEF FirstWhole, SaveFile
<1>2. /\ DOMAIN saveFiles \subseteq {FirstSave} /\ \A n \in DOMAIN saveFiles : saveFiles[n] = FirstWhole
      /\ DOMAIN hidden = {}
  BY DEF SavesInit
<1>3. upload \in [Uploaders -> [step : UploadSteps, name : SaveNames]]
      /\ \A u \in Uploaders : upload[u].step = "none" /\ upload[u].name \in SaveNames
  BY SavesConstants DEF SavesInit, UploadSteps
<1>4. /\ creation.step = "none" /\ creation.name \in SaveNames /\ creation.seen = {}
      /\ creation.at \in 0..MaxWrites /\ removal = NoSave /\ up = NoSave
      /\ written \in 0..MaxWrites
  BY SavesConstants DEF SavesInit
<1>5. SavesTyped
  BY <1>1, <1>2, <1>3, <1>4, SavesConstants DEF SavesTyped, SavesTypeOK, SavePlaces
<1>6. SavesWhole /\ UploadsWhole /\ NothingSeen
  BY <1>1, <1>2, <1>3, <1>4 DEF SavesWhole, UploadsWhole, Carries, NothingSeen
<1> QED
  BY <1>5, <1>6 DEF SavesInv

\* A step of one upload changes its own step and its own files, and what has a name.
Aside(u) ==
    \A v \in Uploaders \ {u} :
        /\ v \in DOMAIN saveFiles => v \in DOMAIN saveFiles' /\ saveFiles'[v] = saveFiles[v]
        /\ v \in DOMAIN hidden' <=> v \in DOMAIN hidden
        /\ v \in DOMAIN hidden => hidden'[v] = hidden[v]
FilesTyped ==
    /\ DOMAIN saveFiles \subseteq SavePlaces /\ \A n \in DOMAIN saveFiles : saveFiles[n] \in SaveFile
    /\ DOMAIN hidden \subseteq Uploaders /\ \A u \in DOMAIN hidden : hidden[u] \in SaveFile
WholeAt(u) ==
    /\ upload[u].step = "copy" \/ Carries(u) => u \in DOMAIN saveFiles
    /\ Carries(u) => saveFiles[u].whole
    /\ upload[u].step \in {"place", "back"} => u \in DOMAIN hidden
    /\ u \in DOMAIN hidden => hidden[u].whole

LEMMA UploadMoves ==
    ASSUME SavesInv, NEW u \in Uploaders, NEW s \in UploadSteps,
           upload' = [upload EXCEPT ![u].step = s]
    PROVE  /\ upload' \in [Uploaders -> [step : UploadSteps, name : SaveNames]]
           /\ upload'[u].step = s /\ upload'[u].name = upload[u].name
           /\ \A v \in Uploaders \ {u} : upload'[v] = upload[v]
BY DEF SavesInv, SavesTyped

LEMMA UploadKeeps ==
    ASSUME SavesInv, NEW u \in Uploaders, NEW s \in UploadSteps, UploadTo(u, s),
           UNCHANGED up, written' = written, Aside(u), FilesTyped', SavesWhole', WholeAt(u)'
    PROVE  SavesInv'
<1>1. /\ upload' \in [Uploaders -> [step : UploadSteps, name : SaveNames]]
      /\ \A v \in Uploaders \ {u} : upload'[v] = upload[v]
  BY UploadMoves DEF UploadTo
<1>2. creation' = creation /\ removal' = removal
  BY DEF UploadTo
<1>3. SavesTyped'
  BY <1>1, <1>2 DEF SavesInv, SavesTyped, SavesTypeOK, FilesTyped, UploadSteps
<1>4. ASSUME NEW v \in Uploaders PROVE WholeAt(v)'
  <2>1. CASE v = u
    BY <2>1
  <2>2. CASE v # u
    BY <1>1, <2>2 DEF SavesInv, UploadsWhole, WholeAt, Carries, Aside
  <2> QED
    BY <2>1, <2>2
<1>5. UploadsWhole'
  BY <1>4 DEF UploadsWhole, WholeAt
<1>6. NothingSeen'
  BY <1>2 DEF SavesInv, NothingSeen
<1> QED
  BY <1>3, <1>5, <1>6 DEF SavesInv

\* The types of what an upload finds.
LEMMA UploadFinds ==
    ASSUME SavesInv, NEW u \in Uploaders
    PROVE  /\ FilesTyped /\ WholeAt(u) /\ SavesWhole /\ written \in Nat
           /\ upload[u].name \in SaveNames /\ u \notin SaveNames
           /\ SavePlaces = SaveNames \cup Uploaders
           /\ \A v \in Uploaders : v \notin SaveNames
BY SavesConstants DEF SavesInv, SavesTyped, SavesTypeOK, FilesTyped, UploadsWhole, WholeAt, SavePlaces

LEMMA UploadSaveKeeps ==
    ASSUME SavesInv, NEW u \in Uploaders, NEW n \in SaveNames, UploadSave(u, n)
    PROVE  SavesInv'
<1> DEFINE a == [at |-> written', whole |-> FALSE]
<1>1. written' \in 0..MaxWrites /\ a \in SaveFile
  BY SavesConstants, UploadFinds DEF UploadSave, NewWrite, SaveFile
<1>2. /\ DOMAIN saveFiles' = DOMAIN saveFiles \cup {u} /\ saveFiles'[u] = a
      /\ \A x \in DOMAIN saveFiles \ {u} : saveFiles'[x] = saveFiles[x]
  BY DEF UploadSave, File, Unfile
<1>3. /\ upload' \in [Uploaders -> [step : UploadSteps, name : SaveNames]]
      /\ upload'[u].step = "copy" /\ \A v \in Uploaders \ {u} : upload'[v] = upload[v]
  BY DEF UploadSave, SavesInv, SavesTyped, UploadSteps
<1>4. UNCHANGED <<hidden, creation, removal, up>> /\ u \notin DOMAIN hidden
  BY DEF UploadSave
<1> HIDE DEF a
<1>5. SavesTyped'
  BY <1>1, <1>2, <1>3, <1>4 DEF SavesInv, SavesTyped, SavesTypeOK, UploadSteps, SavePlaces
<1>6. SavesWhole'
  BY <1>2, UploadFinds DEF SavesWhole
<1>7. UploadsWhole'
  BY <1>2, <1>3, <1>4 DEF SavesInv, UploadsWhole, Carries
<1>8. NothingSeen'
  BY <1>4 DEF SavesInv, NothingSeen
<1> QED
  BY <1>5, <1>6, <1>7, <1>8 DEF SavesInv

\* An upload that gives up takes its temporary file along.
LEMMA UploadGivesUp ==
    ASSUME SavesInv, NEW u \in Uploaders, UploadTo(u, "none"), UNCHANGED <<hidden, up>>,
           written' = written, saveFiles' = Unfile(saveFiles, u)
    PROVE  SavesInv'
<1>1. /\ DOMAIN saveFiles' = DOMAIN saveFiles \ {u}
      /\ \A x \in DOMAIN saveFiles \ {u} : saveFiles'[x] = saveFiles[x]
  BY DEF File, Unfile
<1>2. upload'[u].step = "none"
  BY UploadMoves DEF UploadTo, UploadSteps
<1>3. FilesTyped' /\ SavesWhole' /\ WholeAt(u)' /\ Aside(u)
  BY <1>1, <1>2, UploadFinds DEF FilesTyped, SavesWhole, WholeAt, Carries, Aside
<1> QED
  BY <1>3, UploadKeeps DEF UploadSteps

LEMMA CopyKeeps ==
    ASSUME SavesInv, NEW u \in Uploaders, CopyUpload(u) PROVE SavesInv'
<1>1. upload[u].step = "copy" /\ u \in DOMAIN saveFiles /\ saveFiles[u] \in SaveFile
  BY UploadFinds DEF CopyUpload, Uploading, WholeAt, FilesTyped
<1>2. /\ DOMAIN saveFiles' = DOMAIN saveFiles /\ saveFiles'[u] = [saveFiles[u] EXCEPT !.whole = TRUE]
      /\ \A x \in DOMAIN saveFiles \ {u} : saveFiles'[x] = saveFiles[x]
  BY <1>1 DEF CopyUpload
<1>3. saveFiles'[u] \in SaveFile /\ saveFiles'[u].whole
  BY <1>1, <1>2 DEF SaveFile
<1>4. upload'[u].step = "rename" /\ UNCHANGED <<hidden, up>> /\ written' = written
  BY UploadMoves DEF CopyUpload, UploadTo, UploadSteps, NoWrite, saveCounters
<1>5. FilesTyped' /\ SavesWhole' /\ WholeAt(u)' /\ Aside(u)
  BY <1>1, <1>2, <1>3, <1>4, UploadFinds DEF FilesTyped, SavesWhole, WholeAt, Carries, Aside
<1> QED
  BY <1>4, <1>5, UploadKeeps DEF CopyUpload, UploadSteps

\* The upload, or the old save, moves to its name.
LEMMA MovesIn ==
    ASSUME SavesInv, NEW u \in Uploaders, NEW s \in {"none", "tidy"}, UploadTo(u, s), UNCHANGED up,
           written' = written, NEW a \in SaveFile, a.whole,
           saveFiles' = File(Unfile(saveFiles, u), upload[u].name, a),
           hidden' \in {hidden, Unfile(hidden, u)}
    PROVE  SavesInv'
<1> DEFINE n == upload[u].name
<1>1. n \in SaveNames /\ u # n
  BY UploadFinds
<1>2. /\ DOMAIN saveFiles' = (DOMAIN saveFiles \ {u}) \cup {n} /\ saveFiles'[n] = a
      /\ \A x \in DOMAIN saveFiles \ {u, n} : saveFiles'[x] = saveFiles[x]
  <2> DEFINE h == Unfile(saveFiles, u)
  <2>1. DOMAIN h = DOMAIN saveFiles \ {u} /\ \A x \in DOMAIN saveFiles \ {u} : h[x] = saveFiles[x]
    BY DEF File, Unfile
  <2>2. saveFiles' = [x \in DOMAIN h \cup {n} |-> IF x = n THEN a ELSE h[x]]
    BY DEF File, Unfile
  <2> HIDE DEF h
  <2> QED
    BY <1>1, <2>1, <2>2
<1>3. /\ DOMAIN hidden' \subseteq DOMAIN hidden /\ DOMAIN hidden \ {u} \subseteq DOMAIN hidden'
      /\ \A x \in DOMAIN hidden' : hidden'[x] = hidden[x]
  BY DEF File, Unfile
<1>4. upload'[u].step = s /\ s \in UploadSteps
  BY UploadMoves DEF UploadTo, UploadSteps
<1> HIDE DEF n
<1>5. FilesTyped' /\ SavesWhole'
  BY <1>1, <1>2, <1>3, UploadFinds DEF FilesTyped, SavesWhole
<1>6. WholeAt(u)' /\ Aside(u)
  BY <1>1, <1>2, <1>3, <1>4, UploadFinds DEF WholeAt, Carries, Aside
<1> QED
  BY <1>4, <1>5, <1>6, UploadKeeps

LEMMA RenameUploadKeeps ==
    ASSUME SavesInv, NEW u \in Uploaders, RenameUpload(u) PROVE SavesInv'
<1>1. /\ upload[u].step = "rename" /\ u \in DOMAIN saveFiles /\ saveFiles[u] \in SaveFile
      /\ saveFiles[u].whole /\ UNCHANGED <<hidden, up>>
  BY UploadFinds DEF RenameUpload, Uploading, WholeAt, FilesTyped, Carries
<1>2. written' = written
  BY DEF RenameUpload, NoWrite, SaveFault, saveCounters
<1>3. CASE saveFiles' = Shown(u) /\ UploadTo(u, "none")
  BY <1>1, <1>2, <1>3, MovesIn DEF Shown
<1>4. CASE UploadTo(u, "aside") /\ UNCHANGED saveFiles
  <2>1. upload'[u].step = "aside"
    BY <1>4, UploadMoves DEF UploadTo, UploadSteps
  <2>2. FilesTyped' /\ SavesWhole' /\ WholeAt(u)' /\ Aside(u)
    BY <1>1, <1>4, <2>1, UploadFinds DEF FilesTyped, SavesWhole, WholeAt, Carries, Aside
  <2> QED
    BY <1>1, <1>2, <1>4, <2>2, UploadKeeps DEF UploadSteps
<1>5. CASE UploadTo(u, "none") /\ saveFiles' = Unfile(saveFiles, u)
  BY <1>1, <1>2, <1>5, UploadGivesUp
<1> QED
  BY <1>3, <1>4, <1>5 DEF RenameUpload

LEMMA MoveAsideKeeps ==
    ASSUME SavesInv, NEW u \in Uploaders, MoveSaveAside(u) PROVE SavesInv'
<1> DEFINE n == upload[u].name
<1>1. /\ upload[u].step = "aside" /\ u \in DOMAIN saveFiles /\ saveFiles[u].whole /\ UNCHANGED up
      /\ n \in SaveNames /\ u # n
  BY UploadFinds DEF MoveSaveAside, Uploading, WholeAt, Carries
<1>2. written' = written
  BY DEF MoveSaveAside, NoWrite, SaveFault, saveCounters
<1>3. CASE /\ n \in DOMAIN saveFiles /\ hidden' = File(hidden, u, saveFiles[n])
           /\ saveFiles' = Unfile(saveFiles, n) /\ UploadTo(u, "place")
  <2>1. upload'[u].step = "place"
    BY <1>3, UploadMoves DEF UploadTo, UploadSteps
  <2>2. /\ DOMAIN hidden' = DOMAIN hidden \cup {u} /\ hidden'[u] = saveFiles[n]
        /\ \A x \in DOMAIN hidden \ {u} : hidden'[x] = hidden[x]
        /\ DOMAIN saveFiles' = DOMAIN saveFiles \ {n}
        /\ \A x \in DOMAIN saveFiles \ {n} : saveFiles'[x] = saveFiles[x]
    BY <1>3 DEF File, Unfile
  <2>3. saveFiles[n].whole /\ saveFiles[n] \in SaveFile
    BY <1>1, <1>3, UploadFinds DEF SavesWhole, FilesTyped
  <2> HIDE DEF n
  <2>4. FilesTyped' /\ SavesWhole'
    BY <2>2, <2>3, UploadFinds DEF FilesTyped, SavesWhole
  <2>5. WholeAt(u)' /\ Aside(u)
    BY <1>1, <2>1, <2>2, <2>3, UploadFinds DEF WholeAt, Carries, Aside
  <2> QED
    BY <1>1, <1>2, <1>3, <2>4, <2>5, UploadKeeps DEF UploadSteps
<1>4. CASE saveFiles' = Unfile(saveFiles, u) /\ UploadTo(u, "none") /\ UNCHANGED hidden
  BY <1>1, <1>2, <1>4, UploadGivesUp
<1> QED
  BY <1>3, <1>4 DEF MoveSaveAside

LEMMA PlaceUploadKeeps ==
    ASSUME SavesInv, NEW u \in Uploaders, PlaceUpload(u) PROVE SavesInv'
<1>1. /\ upload[u].step = "place" /\ u \in DOMAIN saveFiles /\ saveFiles[u] \in SaveFile
      /\ saveFiles[u].whole /\ UNCHANGED <<hidden, up>> /\ u \in DOMAIN hidden
  BY UploadFinds DEF PlaceUpload, Uploading, WholeAt, FilesTyped, Carries
<1>2. written' = written
  BY DEF PlaceUpload, NoWrite, SaveFault, saveCounters
<1>3. CASE saveFiles' = Shown(u) /\ UploadTo(u, "tidy")
  BY <1>1, <1>2, <1>3, MovesIn DEF Shown
<1>4. CASE UploadTo(u, "back") /\ UNCHANGED saveFiles
  <2>1. upload'[u].step = "back"
    BY <1>4, UploadMoves DEF UploadTo, UploadSteps
  <2>2. FilesTyped' /\ SavesWhole' /\ WholeAt(u)' /\ Aside(u)
    BY <1>1, <1>4, <2>1, UploadFinds DEF FilesTyped, SavesWhole, WholeAt, Carries, Aside
  <2> QED
    BY <1>1, <1>2, <1>4, <2>2, UploadKeeps DEF UploadSteps
<1> QED
  BY <1>3, <1>4 DEF PlaceUpload

LEMMA MoveBackKeeps ==
    ASSUME SavesInv, NEW u \in Uploaders, MoveSaveBack(u) PROVE SavesInv'
<1>1. /\ upload[u].step = "back" /\ UNCHANGED up
      /\ u \in DOMAIN hidden /\ hidden[u] \in SaveFile /\ hidden[u].whole
  BY UploadFinds DEF MoveSaveBack, Uploading, WholeAt, FilesTyped
<1>2. written' = written /\ UploadTo(u, "none")
  BY DEF MoveSaveBack, NoWrite, SaveFault, saveCounters
<1>3. CASE /\ saveFiles' = File(Unfile(saveFiles, u), upload[u].name, hidden[u])
           /\ hidden' = Unfile(hidden, u)
  BY <1>1, <1>2, <1>3, MovesIn
<1>4. CASE saveFiles' = Unfile(saveFiles, u) /\ UNCHANGED hidden
  BY <1>1, <1>2, <1>4, UploadGivesUp
<1> QED
  BY <1>3, <1>4 DEF MoveSaveBack

LEMMA RemoveReplacedKeeps ==
    ASSUME SavesInv, NEW u \in Uploaders, RemoveReplaced(u) PROVE SavesInv'
<1>1. /\ UNCHANGED <<saveFiles, up>> /\ UploadTo(u, "none") /\ written' = written
      /\ hidden' \in {hidden, Unfile(hidden, u)}
  BY DEF RemoveReplaced, NoWrite, SaveFault, saveCounters
<1>2. /\ DOMAIN hidden' \subseteq DOMAIN hidden /\ DOMAIN hidden \ {u} \subseteq DOMAIN hidden'
      /\ \A x \in DOMAIN hidden' : hidden'[x] = hidden[x]
  BY <1>1 DEF File, Unfile
<1>3. upload'[u].step = "none"
  BY <1>1, UploadMoves DEF UploadTo, UploadSteps
<1>4. FilesTyped' /\ SavesWhole' /\ WholeAt(u)' /\ Aside(u)
  BY <1>1, <1>2, <1>3, UploadFinds DEF FilesTyped, SavesWhole, WholeAt, Carries, Aside
<1> QED
  BY <1>1, <1>4, UploadKeeps DEF UploadSteps

\* The other steps put a whole file under a name, take one away, or leave the files alone.
LEMMA NamedKeeps ==
    ASSUME SavesInv, UNCHANGED <<hidden, upload>>, written' \in 0..MaxWrites,
           creation'.step \in {"none", "generate", "rename"}, creation'.name \in SaveNames,
           creation'.at \in 0..MaxWrites, creation'.seen \subseteq SaveFile,
           creation'.step # "none" => creation'.seen = {},
           removal' \in SaveNames \cup {NoSave}, up' \in SaveFile \cup {NoSave},
           \/ UNCHANGED saveFiles
           \/ \E n \in SaveNames :
                 \/ saveFiles' = Unfile(saveFiles, n)
                 \/ \E a \in SaveFile : a.whole /\ saveFiles' = File(saveFiles, n, a)
    PROVE  SavesInv'
<1>1. /\ DOMAIN saveFiles' \subseteq SavePlaces
      /\ \A x \in DOMAIN saveFiles' : saveFiles'[x] \in SaveFile
      /\ \A u \in Uploaders : /\ u \in DOMAIN saveFiles => u \in DOMAIN saveFiles'
                              /\ u \in DOMAIN saveFiles => saveFiles'[u] = saveFiles[u]
      /\ SavesWhole'
  <2>1. /\ DOMAIN saveFiles \subseteq SavePlaces /\ SavesWhole
        /\ \A x \in DOMAIN saveFiles : saveFiles[x] \in SaveFile
        /\ SavePlaces = SaveNames \cup Uploaders /\ \A u \in Uploaders : u \notin SaveNames
    BY SavesConstants DEF SavesInv, SavesTyped, SavesTypeOK, SavePlaces
  <2>2. CASE UNCHANGED saveFiles
    BY <2>1, <2>2 DEF SavesWhole
  <2>3. ASSUME NEW n \in SaveNames, saveFiles' = Unfile(saveFiles, n)
        PROVE  <1>1!:
    BY <2>1, <2>3 DEF SavesWhole, File, Unfile
  <2>4. ASSUME NEW n \in SaveNames, NEW a \in SaveFile, a.whole, saveFiles' = File(saveFiles, n, a)
        PROVE  <1>1!:
    BY <2>1, <2>4 DEF SavesWhole, File, Unfile
  <2> QED
    BY <2>2, <2>3, <2>4
<1>2. SavesTyped'
  BY <1>1 DEF SavesInv, SavesTyped, SavesTypeOK
<1>3. UploadsWhole'
  BY <1>1 DEF SavesInv, UploadsWhole, Carries
<1>4. NothingSeen'
  BY DEF NothingSeen
<1> QED
  BY <1>1, <1>2, <1>3, <1>4 DEF SavesInv

LEMMA CreationIs ==
    ASSUME SavesInv
    PROVE  /\ creation.step \in {"none", "generate", "rename"} /\ creation.name \in SaveNames
           /\ creation.at \in 0..MaxWrites /\ creation.seen \subseteq SaveFile
           /\ creation.step # "none" => creation.seen = {}
           /\ removal \in SaveNames \cup {NoSave} /\ up \in SaveFile \cup {NoSave}
           /\ written \in 0..MaxWrites /\ MaxWrites \in Nat
BY SavesConstants DEF SavesInv, SavesTyped, SavesTypeOK, NothingSeen

LEMMA OtherSavesKeep ==
    ASSUME SavesInv,
           \/ RemoveSave \/ RemoveSaveFails \/ WorldGenerated \/ ShowWorld \/ CreateWorldFails
           \/ \E n \in SaveNames : FindSave(n) \/ BeginWorld(n) \/ EndServer(n)
           \/ \E n \in SavePlaces : StartSave(n)
    PROVE  SavesInv'
<1> USE CreationIs DEF NoWrite, saveCounters
<1>1. CASE RemoveSave
  BY <1>1, NamedKeeps DEF RemoveSave
<1>2. CASE RemoveSaveFails
  BY <1>2, NamedKeeps DEF RemoveSaveFails, SaveFault
<1>3. CASE WorldGenerated
  <2>1. /\ UNCHANGED <<saveFiles, hidden, upload, removal, up>> /\ written' \in 0..MaxWrites
        /\ creation.step = "generate"
        /\ creation' = [creation EXCEPT !.step = "rename", !.at = written']
    BY <1>3 DEF WorldGenerated, NewWrite
  <2>2. /\ creation'.step = "rename" /\ creation'.at = written'
        /\ creation'.name = creation.name /\ creation'.seen = creation.seen
    BY <2>1
  <2> QED
    BY <2>1, <2>2, NamedKeeps
<1>4. CASE ShowWorld
  <2> DEFINE a == [at |-> creation.at, whole |-> TRUE]
  <2>1. a \in SaveFile /\ a.whole
    BY DEF SaveFile
  <2>2. /\ UNCHANGED <<hidden, upload, removal, up>> /\ written' = written
        /\ saveFiles' = File(saveFiles, creation.name, a)
        /\ creation' = [creation EXCEPT !.step = "none"]
    BY <1>4 DEF ShowWorld
  <2>3. /\ creation'.step = "none" /\ creation'.at = creation.at
        /\ creation'.name = creation.name /\ creation'.seen = creation.seen
    BY <2>2
  <2> HIDE DEF a
  <2> QED
    BY <2>1, <2>2, <2>3, NamedKeeps
<1>5. CASE CreateWorldFails
  <2>1. /\ UNCHANGED <<saveFiles, hidden, upload, removal, up>> /\ written' = written
        /\ creation' = [creation EXCEPT !.step = "none"]
    BY <1>5 DEF CreateWorldFails
  <2>2. /\ creation'.step = "none" /\ creation'.at = creation.at
        /\ creation'.name = creation.name /\ creation'.seen = creation.seen
    BY <2>1
  <2> QED
    BY <2>1, <2>2, NamedKeeps
<1>6. ASSUME NEW n \in SaveNames, FindSave(n) PROVE SavesInv'
  BY <1>6, NamedKeeps DEF FindSave
<1>7. ASSUME NEW n \in SaveNames, BeginWorld(n) PROVE SavesInv'
  <2>1. /\ UNCHANGED <<saveFiles, hidden, upload, removal, up>> /\ written' = written
        /\ creation' = [step |-> "generate", name |-> n, seen |-> Named(n), at |-> 0]
        /\ Named(n) = {}
    BY <1>7 DEF BeginWorld, Named
  <2> QED
    BY <2>1, NamedKeeps
<1>8. ASSUME NEW n \in SaveNames, EndServer(n) PROVE SavesInv'
  <2> DEFINE a == [at |-> written', whole |-> TRUE]
  <2>1. UNCHANGED <<hidden, upload, creation, removal>> /\ up' = NoSave
    BY <1>8 DEF EndServer, requestVars
  <2>2. CASE UNCHANGED saveFiles /\ written' = written
    BY <2>1, <2>2, NamedKeeps
  <2>3. CASE NewWrite /\ saveFiles' = File(saveFiles, n, a)
    <3>1. written' \in 0..MaxWrites /\ a \in SaveFile /\ a.whole
      BY <2>3 DEF NewWrite, SaveFile
    <3> HIDE DEF a
    <3> QED
      BY <2>1, <2>3, <3>1, NamedKeeps
  <2> QED
    BY <1>8, <2>2, <2>3 DEF EndServer
<1>9. ASSUME NEW n \in SavePlaces, StartSave(n) PROVE SavesInv'
  <2>1. n \in DOMAIN saveFiles /\ saveFiles[n] \in SaveFile
    BY <1>9 DEF StartSave, GetLatestSave, SavesInv, SavesTyped, SavesTypeOK
  <2> QED
    BY <1>9, <2>1, NamedKeeps DEF StartSave, requestVars
<1> QED
  BY <1>1, <1>2, <1>3, <1>4, <1>5, <1>6, <1>7, <1>8, <1>9

LEMMA SavesCutKeeps == ASSUME SavesInv, SavesCut PROVE SavesInv'
<1>1. /\ UNCHANGED <<saveFiles, hidden, written>> /\ removal' = NoSave /\ up' = NoSave
      /\ creation' = [creation EXCEPT !.step = "none"]
      /\ upload' = [u \in Uploaders |-> [upload[u] EXCEPT !.step = "none"]]
  BY DEF SavesCut
<1>2. /\ creation'.step = "none" /\ creation'.at = creation.at
      /\ creation'.name = creation.name /\ creation'.seen = creation.seen
  BY <1>1, CreationIs
<1>3. /\ upload' \in [Uploaders -> [step : UploadSteps, name : SaveNames]]
      /\ \A u \in Uploaders : upload'[u].step = "none"
  BY <1>1 DEF SavesInv, SavesTyped, UploadSteps
<1>4. SavesTyped'
  BY <1>1, <1>2, <1>3 DEF SavesInv, SavesTyped, SavesTypeOK, UploadSteps
<1>5. SavesWhole' /\ UploadsWhole' /\ NothingSeen'
  BY <1>1, <1>2, <1>3 DEF SavesInv, SavesWhole, UploadsWhole, Carries, NothingSeen
<1> QED
  BY <1>4, <1>5 DEF SavesInv

LEMMA SavesKeep == SavesInv /\ [SavesNext]_saveVars => SavesInv'
<1> SUFFICES ASSUME SavesInv, [SavesNext]_saveVars PROVE SavesInv'
  OBVIOUS
<1>1. CASE UNCHANGED saveVars
  BY <1>1 DEF saveVars, requestVars, saveCounters, SavesInv, SavesTyped, SavesTypeOK, SavesWhole,
              UploadsWhole, Carries, NothingSeen
<1>2. ASSUME NEW u \in Uploaders, UploadRefused(u) PROVE SavesInv'
  BY <1>2, UploadGivesUp DEF UploadRefused, NoWrite, saveCounters
<1> QED
  BY <1>1, <1>2, UploadSaveKeeps, CopyKeeps, RenameUploadKeeps, MoveAsideKeeps, PlaceUploadKeeps,
     MoveBackKeeps, RemoveReplacedKeeps, OtherSavesKeep, SavesCutKeeps DEF SavesNext

\* What stays, stays under its name or aside.
LEMMA StaysSaved ==
    ASSUME NEW n \in DOMAIN saveFiles \cap SaveNames,
           \/ n \in DOMAIN saveFiles' /\ saveFiles'[n] = saveFiles[n]
           \/ \E u \in DOMAIN hidden' : hidden'[u] = saveFiles[n]
    PROVE  saveFiles[n] \in Saved'
BY DEF Saved

\* A save goes only by what was asked of its name.
LEMMA SavesLeave ==
    ASSUME SavesInv, SavesNext, NEW n \in DOMAIN saveFiles \cap SaveNames, saveFiles[n] \notin Saved'
    PROVE  SaveLeaves(n)
<1>1. \A u \in Uploaders : n # u /\ upload[u].name # u
  BY UploadFinds
<1>2. n \in DOMAIN saveFiles' => saveFiles'[n] # saveFiles[n]
  BY StaysSaved
<1>3. ASSUME NEW u \in Uploaders, saveFiles' = Unfile(saveFiles, u) PROVE FALSE
  BY <1>1, <1>2, <1>3 DEF File, Unfile
<1>4. saveFiles' # saveFiles
  BY <1>2
<1>5. ASSUME NEW u \in Uploaders, NEW m \in SaveNames, UploadSave(u, m) PROVE FALSE
  BY <1>1, <1>2, <1>5 DEF UploadSave, File, Unfile
<1>6. ASSUME NEW u \in Uploaders, CopyUpload(u) PROVE FALSE
  BY <1>1, <1>2, <1>6 DEF CopyUpload
<1>7. ASSUME NEW u \in Uploaders, NEW a, saveFiles' = File(Unfile(saveFiles, u), upload[u].name, a)
      PROVE  upload[u].name = n /\ n \in DOMAIN saveFiles' /\ saveFiles'[n] = a
  <2> DEFINE h == Unfile(saveFiles, u)
             m == upload[u].name
  <2>1. n \in DOMAIN h /\ h[n] = saveFiles[n]
    BY <1>1 DEF File, Unfile
  <2>2. saveFiles' = [x \in DOMAIN h \cup {m} |-> IF x = m THEN a ELSE h[x]]
    BY <1>7 DEF File
  <2> HIDE DEF h, m
  <2>3. m = n
    BY <1>2, <2>1, <2>2
  <2>4. n \in DOMAIN saveFiles' /\ saveFiles'[n] = a
    BY <2>2, <2>3
  <2> QED
    BY <2>3, <2>4 DEF m
<1>8. ASSUME NEW u \in Uploaders, RenameUpload(u) \/ PlaceUpload(u) PROVE SaveLeaves(n)
  <2>1. saveFiles' = Shown(u) /\ upload[u].step \in {"rename", "place"}
    BY <1>3, <1>4, <1>8 DEF RenameUpload, PlaceUpload, Uploading
  <2>2. upload[u].name = n /\ saveFiles'[n] = saveFiles[u]
    BY <1>7, <2>1 DEF Shown
  <2> QED
    BY <2>1, <2>2 DEF SaveLeaves
<1>9. ASSUME NEW u \in Uploaders, MoveSaveAside(u) PROVE FALSE
  <2> DEFINE m == upload[u].name
  <2>1. /\ m \in DOMAIN saveFiles /\ hidden' = File(hidden, u, saveFiles[m])
        /\ saveFiles' = Unfile(saveFiles, m)
    BY <1>3, <1>9 DEF MoveSaveAside
  <2>2. n = m
    BY <1>2, <2>1 DEF File, Unfile
  <2>3. u \in DOMAIN hidden' /\ hidden'[u] = saveFiles[n]
    BY <2>1, <2>2 DEF File, Unfile
  <2> QED
    BY <2>3, StaysSaved
<1>10. ASSUME NEW u \in Uploaders, MoveSaveBack(u) PROVE SaveLeaves(n)
  <2>1. saveFiles' = File(Unfile(saveFiles, u), upload[u].name, hidden[u]) /\ Uploading(u, "back")
    BY <1>3, <1>10 DEF MoveSaveBack
  <2>2. saveFiles'[n] = hidden[u] /\ n \in DOMAIN saveFiles'
    BY <1>7, <2>1
  <2> QED
    BY <1>2, <2>1, <2>2 DEF SaveLeaves
<1>11. CASE RemoveSave
  <2>1. n = removal
    BY <1>2, <1>11 DEF RemoveSave, File, Unfile
  <2> QED
    BY <1>11, <2>1 DEF RemoveSave, SaveLeaves
<1>12. CASE ShowWorld
  <2>1. n = creation.name
    BY <1>2, <1>12 DEF ShowWorld, File, Unfile
  <2> QED
    BY <1>12, <2>1 DEF ShowWorld, SaveLeaves, SavesInv, NothingSeen
<1>13. ASSUME NEW m \in SaveNames, EndServer(m) PROVE SaveLeaves(n)
  <2>1. saveFiles' = File(saveFiles, m, [at |-> written', whole |-> TRUE])
    BY <1>4, <1>13 DEF EndServer
  <2>2. saveFiles'[n].at = written'
    BY <1>2, <2>1 DEF File, Unfile
  <2> QED
    BY <1>13, <2>2 DEF EndServer, SaveLeaves, Stopped
<1>14. ASSUME \/ \E u \in Uploaders : UploadRefused(u) \/ RemoveReplaced(u)
              \/ RemoveSaveFails \/ WorldGenerated \/ CreateWorldFails
              \/ \E m \in SaveNames : FindSave(m) \/ BeginWorld(m)
              \/ \E m \in SavePlaces : StartSave(m)
              \/ SavesCut
       PROVE  FALSE
  BY <1>3, <1>4, <1>14 DEF UploadRefused, RemoveReplaced, RemoveSaveFails, WorldGenerated,
     CreateWorldFails, FindSave, BeginWorld, StartSave, SavesCut
<1> QED
  BY <1>5, <1>6, <1>8, <1>9, <1>10, <1>11, <1>12, <1>13, <1>14 DEF SavesNext

\* The state of the saves has its type.
THEOREM SavesTypeCorrect == SavesSpec => []SavesTypeOK
<1>1. SavesInv => SavesTypeOK
  BY DEF SavesInv, SavesTyped
<1> QED
  BY <1>1, SavesStart, SavesKeep, PTL DEF SavesSpec

\* However uploads, removals, created worlds and a server overlap, fail or are cut short, a
\* save that has a name is whole, and goes only by what was asked of that name
\* (saves.go:105, world_generation.go:127).
THEOREM SavesAlwaysKept == SavesSpec => SavesKept
<1>1. SavesInv => SavesWhole
  BY DEF SavesInv
<1> DEFINE Leaving == \A n \in DOMAIN saveFiles \cap SaveNames :
                         saveFiles[n] \notin Saved' => SaveLeaves(n)
<1>2. SavesInv /\ [SavesNext]_saveVars => [Leaving]_saveVars
  <2> SUFFICES ASSUME SavesInv, SavesNext PROVE Leaving
    OBVIOUS
  <2> QED
    BY SavesLeave
<1> QED
  BY <1>1, <1>2, SavesStart, SavesKeep, PTL DEF SavesSpec, SavesKept

-----------------------------------------------------------------------------
(* ModPackMerge: what a preview showed is what its revision is about.      *)

AdditionsFor(to, from) ==
    DOMAIN from.mods \ (DOMAIN to.mods
        \cup {n \in DOMAIN from.mods \ DOMAIN to.mods : from.mods[n].file \in FilesIn(to)})
Reviewed ==
    reviewed # NotReviewed =>
        reviewed.additions = AdditionsFor(reviewed.revision[2], reviewed.revision[3])
MergeInv == Reviewed /\ MergedLoads

LEMMA AdditionsAre == Additions = AdditionsFor(activeSet, pack)
BY DEF Additions, NameTaken, AdditionsFor

LEMMA CombinedIs ==
    /\ DOMAIN Combined = DOMAIN activeSet.mods \cup Additions
    /\ \A n \in DOMAIN activeSet.mods : Combined[n] = activeSet.mods[n]
    /\ Additions \cap DOMAIN activeSet.mods = {} /\ Additions \subseteq DOMAIN pack.mods
    /\ \A n \in Additions : Combined[n] = pack.mods[n]
BY DEF Combined, Additions

\* The entries of a merge: those of the profile, and the pack's for what has none.
New == {n \in Additions : ~HasState(activeSet, n)}
LEMMA MergedEntriesAre ==
    /\ DOMAIN MergedEntries = DOMAIN EntriesOf(activeSet) \cup New
    /\ \A n \in DOMAIN EntriesOf(activeSet) : n \notin New /\ MergedEntries[n] = EntriesOf(activeSet)[n]
    /\ \A n \in New : MergedEntries[n] = IF n \in DOMAIN EntriesOf(pack) THEN EntriesOf(pack)[n]
                                         ELSE Unpinned(FALSE)
BY DEF MergedEntries, New, HasState

\* A mod is enabled by the list that is written just when the plan had it enabled.
LEMMA StatesAgree ==
    ASSUME NEW n, n \notin {"base", "core"}
    PROVE  (n \in DOMAIN MergedEntries /\ MergedEntries[n].enabled) <=> CombinedState(n)
<1>1. CASE n \in New
  <2>1. (n \in DOMAIN MergedEntries /\ MergedEntries[n].enabled)
           <=> (n \in DOMAIN EntriesOf(pack) /\ EntriesOf(pack)[n].enabled)
    BY <1>1, MergedEntriesAre DEF Unpinned
  <2>2. CombinedState(n) <=> StateIn(pack, n)
    BY <1>1 DEF CombinedState, New
  <2>3. StateIn(pack, n) <=> (n \in DOMAIN EntriesOf(pack) /\ EntriesOf(pack)[n].enabled)
    BY DEF StateIn
  <2> QED
    BY <2>1, <2>2, <2>3
<1>2. CASE n \notin New
  <2>1. (n \in DOMAIN MergedEntries /\ MergedEntries[n].enabled)
           <=> (n \in DOMAIN EntriesOf(activeSet) /\ EntriesOf(activeSet)[n].enabled)
    BY <1>2, MergedEntriesAre
  <2>2. CombinedState(n) <=> StateIn(activeSet, n)
    BY <1>2 DEF CombinedState, New
  <2>3. StateIn(activeSet, n)
           <=> (n \in DOMAIN EntriesOf(activeSet) /\ EntriesOf(activeSet)[n].enabled)
    BY DEF StateIn
  <2> QED
    BY <2>1, <2>2, <2>3
<1> QED
  BY <1>1, <1>2

\* What a plan without conflicts has been checked for.
LEMMA NoConflict ==
    ASSUME Conflicting = {}
    PROVE  /\ CombinedState("base")
           /\ \A n \in DOMAIN Combined :
                 CombinedState(n) => /\ SameFactorioLine(game, Combined[n].line)
                                     /\ \A d \in DependenciesOf(n) : ~Clashes(d)
           /\ \A n \in DOMAIN EntriesOf(activeSet) \ MergeBuiltIns :
                 HasVersion(n) => EntriesOf(activeSet)[n].pin \in {NilVersion, VersionOf(n)}
<1>1. "base" \notin Conflicting /\ \A n : n \notin Conflicting
  OBVIOUS
<1>2. CombinedState("base")
  BY <1>1 DEF Conflicting
<1>3. \A n \in DOMAIN Combined : CombinedState(n) => SameFactorioLine(game, Combined[n].line)
  BY <1>1 DEF Conflicting
<1>4. \A n \in DOMAIN Combined : CombinedState(n) => \A d \in DependenciesOf(n) : ~Clashes(d)
  BY <1>1 DEF Conflicting
<1>5. \A n \in DOMAIN EntriesOf(activeSet) \ MergeBuiltIns :
         HasVersion(n) => EntriesOf(activeSet)[n].pin \in {NilVersion, VersionOf(n)}
  BY <1>1 DEF Conflicting
<1> QED
  BY <1>2, <1>3, <1>4, <1>5

\* The plan and the game agree on who runs, and in which version.
LEMMA RunsAsPlanned ==
    ASSUME MergeModPack, NEW m
    PROVE  /\ Runs(m)' <=> HasVersion(m) /\ CombinedState(m)
           /\ Runs(m)' => RunningVersion(m)' = VersionOf(m)
<1>1. /\ activeSet'.mods = Combined /\ activeSet'.entries = MergedEntries /\ game' = game
      /\ Conflicting = {} /\ DOMAIN Combined \cap MergeBuiltIns = {}
  BY CombinedIs DEF MergeModPack, MergedSet, Readable
<1>2. CASE m \in {"base", "core"}
  <2>1. CombinedState(m)
    BY <1>1, <1>2, NoConflict DEF CombinedState
  <2>2. Runs(m)' /\ HasVersion(m)
    BY <1>2 DEF Runs, HasVersion
  <2>3. RunningVersion(m)' = game'
    BY <1>2 DEF RunningVersion
  <2>4. VersionOf(m) = game
    BY <1>2, MergeConstants DEF VersionOf, Expansions, Expanding
  <2> QED
    BY <1>1, <2>1, <2>2, <2>3, <2>4
<1>3. CASE m \notin {"base", "core"}
  <2>1. EnabledIn(activeSet, m)' <=> CombinedState(m)
    BY <1>1, <1>3, StatesAgree DEF EnabledIn
  <2>2. Runs(m)' <=> m \in DOMAIN Combined \cup DOMAIN DataMods /\ CombinedState(m)
    BY <1>1, <1>3, <2>1 DEF Runs
  <2>3. HasVersion(m) /\ CombinedState(m)
           <=> m \in DOMAIN Combined \cup DOMAIN DataMods /\ CombinedState(m)
    BY <1>3, MergeConstants DEF HasVersion, Expansions
  <2>4. m \in DOMAIN Combined => RunningVersion(m)' = VersionOf(m)
    BY <1>1, <1>3 DEF RunningVersion, VersionOf, Expansions, MergeBuiltIns
  <2>5. m \in DOMAIN DataMods \ DOMAIN Combined /\ CombinedState(m) => RunningVersion(m)' = VersionOf(m)
    BY <1>1, <1>3, MergeConstants DEF RunningVersion, VersionOf, Expansions
  <2> QED
    BY <2>2, <2>3, <2>4, <2>5
<1> QED
  BY <1>2, <1>3

\* What a merge writes loads together.
LEMMA MergeLoads == ASSUME MergeModPack PROVE MergedLoads'
<1>1. /\ activeSet'.mods = Combined /\ activeSet'.entries = MergedEntries /\ game' = game
      /\ Conflicting = {} /\ DOMAIN Combined \cap MergeBuiltIns = {} /\ Readable(pack)
  BY CombinedIs DEF MergeModPack, MergedSet, Readable
<1> SUFFICES ASSUME NEW n \in DOMAIN Combined, n \in DOMAIN MergedEntries, MergedEntries[n].enabled
             PROVE  /\ SameFactorioLine(game, Combined[n].line)
                    /\ MergedEntries[n].pin \in {NilVersion, Combined[n].version}
                    /\ \A d \in Combined[n].dependencies :
                        /\ d.kind = "required" =>
                              Runs(d.name)' /\ Matches(RunningVersion(d.name)', d)
                        /\ d.kind = "incompatible" =>
                              ~(Runs(d.name)' /\ Matches(RunningVersion(d.name)', d))
  BY <1>1 DEF MergedLoads, EnabledIn, Matches, Compatible, Greater, Less
<1>2. n \notin MergeBuiltIns /\ CombinedState(n)
  BY <1>1, StatesAgree DEF MergeBuiltIns
<1>3. SameFactorioLine(game, Combined[n].line)
  BY <1>1, <1>2, NoConflict
<1>4. MergedEntries[n].pin \in {NilVersion, Combined[n].version}
  <2>1. CASE n \in New
    <3>1. n \in DOMAIN EntriesOf(pack) /\ MergedEntries[n] = EntriesOf(pack)[n]
      BY <2>1, MergedEntriesAre DEF Unpinned
    <3>2. n \in DOMAIN pack.mods /\ Combined[n] = pack.mods[n]
      BY <2>1, CombinedIs DEF New
    <3> QED
      BY <1>1, <3>1, <3>2 DEF Readable
  <2>2. CASE n \notin New
    <3>1. n \in DOMAIN EntriesOf(activeSet) /\ MergedEntries[n] = EntriesOf(activeSet)[n]
      BY <2>2, MergedEntriesAre
    <3>2. HasVersion(n) /\ VersionOf(n) = Combined[n].version
      BY <1>2 DEF HasVersion, VersionOf, Expansions, MergeBuiltIns
    <3> QED
      BY <1>1, <1>2, <3>1, <3>2, NoConflict
  <2> QED
    BY <2>1, <2>2
<1>5. ASSUME NEW d \in Combined[n].dependencies
      PROVE  /\ d.kind = "required" => Runs(d.name)' /\ Matches(RunningVersion(d.name)', d)
             /\ d.kind = "incompatible" => ~(Runs(d.name)' /\ Matches(RunningVersion(d.name)', d))
  <2>1. ~Clashes(d)
    BY <1>1, <1>2, <1>5, NoConflict DEF DependenciesOf
  <2>2. /\ d.kind = "required" => Meets(d)
        /\ d.kind = "incompatible" => ~Meets(d)
    BY <2>1 DEF Clashes
  <2>3. Meets(d) <=> Runs(d.name)' /\ Matches(RunningVersion(d.name)', d)
    <3>1. /\ Runs(d.name)' <=> HasVersion(d.name) /\ CombinedState(d.name)
          /\ Runs(d.name)' => RunningVersion(d.name)' = VersionOf(d.name)
      BY RunsAsPlanned
    <3> QED
      BY <3>1 DEF Meets
  <2> QED
    BY <2>2, <2>3
<1> QED
  BY <1>3, <1>4, <1>5

\* Steps that leave the active mods and the game alone, and those that make them no merge's.
LEMMA LoadsStill ==
    ASSUME MergedLoads, ~merged' \/ UNCHANGED <<activeSet, game, merged>> PROVE MergedLoads'
<1>1. CASE ~merged'
  BY <1>1 DEF MergedLoads
<1>2. CASE UNCHANGED <<activeSet, game, merged>>
  <2>1. activeSet' = activeSet /\ game' = game /\ merged' = merged
    BY <1>2
  <2> SUFFICES ASSUME merged, NEW n \in DOMAIN activeSet.mods, EnabledIn(activeSet, n)
               PROVE  /\ SameFactorioLine(game, activeSet.mods[n].line)'
                      /\ (activeSet.entries[n].pin \in {NilVersion, activeSet.mods[n].version})'
                      /\ \A d \in activeSet.mods[n].dependencies :
                          /\ d.kind = "required" => Runs(d.name)' /\ Matches(RunningVersion(d.name)', d)
                          /\ d.kind = "incompatible" => ~(Runs(d.name)' /\ Matches(RunningVersion(d.name)', d))
    BY <2>1 DEF MergedLoads, EnabledIn
  <2>2. SameFactorioLine(game, activeSet.mods[n].line)'
    BY <2>1 DEF MergedLoads, SameFactorioLine
  <2>3. (activeSet.entries[n].pin \in {NilVersion, activeSet.mods[n].version})'
    BY <2>1 DEF MergedLoads
  <2>4. ASSUME NEW d \in activeSet.mods[n].dependencies
        PROVE  /\ d.kind = "required" => Runs(d.name)' /\ Matches(RunningVersion(d.name)', d)
               /\ d.kind = "incompatible" => ~(Runs(d.name)' /\ Matches(RunningVersion(d.name)', d))
    <3>1. Runs(d.name)' <=> Runs(d.name)
      BY <1>2 DEF Runs, EnabledIn
    <3>2. RunningVersion(d.name)' = RunningVersion(d.name)
      BY <1>2 DEF RunningVersion
    <3>3. /\ d.kind = "required" => Runs(d.name) /\ Matches(RunningVersion(d.name), d)
          /\ d.kind = "incompatible" => ~(Runs(d.name) /\ Matches(RunningVersion(d.name), d))
      BY DEF MergedLoads
    <3> QED
      BY <3>1, <3>2, <3>3
  <2> QED
    BY <2>2, <2>3, <2>4
<1> QED
  BY <1>1, <1>2

LEMMA MergeKeeps == MergeInv /\ [MergeNext]_mergeVars => MergeInv'
<1> SUFFICES ASSUME MergeInv, [MergeNext]_mergeVars PROVE MergeInv'
  OBVIOUS
<1>1. CASE PreviewModPackMerge
  <2>1. reviewed'.revision = <<game, activeSet, pack>> /\ reviewed'.additions = Additions
    BY <1>1 DEF PreviewModPackMerge, Revision
  <2>2. Reviewed'
    BY <2>1, AdditionsAre DEF Reviewed, AdditionsFor, FilesIn
  <2> QED
    BY <1>1, <2>2, LoadsStill DEF PreviewModPackMerge, MergeInv
<1>2. UNCHANGED reviewed => Reviewed'
  BY DEF MergeInv, Reviewed, AdditionsFor, FilesIn
<1> QED
  BY <1>1, <1>2, MergeLoads, LoadsStill
     DEF MergeNext, EditActive, EditPack, InstallGame, Edit, MergeModPack, MergeInv, mergeVars

\* A merge adds what its preview named and keeps what was there.
LEMMA MergeAdds ==
    ASSUME MergeInv, MergeModPack
    PROVE  /\ DOMAIN activeSet'.mods = DOMAIN activeSet.mods \cup reviewed.additions
           /\ \A n \in DOMAIN activeSet.mods : activeSet'.mods[n] = activeSet.mods[n]
           /\ activeSet.entries # NoEntries =>
                 \A n \in DOMAIN activeSet.entries : activeSet'.entries[n] = activeSet.entries[n]
<1>1. activeSet'.mods = Combined /\ activeSet'.entries = MergedEntries
  BY DEF MergeModPack, MergedSet
<1>2. reviewed.additions = Additions
  <2>1. reviewed # NotReviewed /\ reviewed.revision = <<game, activeSet, pack>>
    BY DEF MergeModPack, Revision
  <2>2. reviewed.revision[2] = activeSet /\ reviewed.revision[3] = pack
    BY <2>1
  <2> QED
    BY <2>1, <2>2, AdditionsAre DEF MergeInv, Reviewed
<1>3. activeSet.entries # NoEntries => EntriesOf(activeSet) = activeSet.entries
  BY DEF EntriesOf
<1> QED
  BY <1>1, <1>2, <1>3, CombinedIs, MergedEntriesAre

\* However the profile, the pack and the game change between a preview and its merge, and
\* change back: a merge that is applied adds what the preview named and nothing else, keeps
\* every archive, state and pin, and what it writes loads (mod_pack_merge.go:97, 129).
THEOREM MergesAsReviewed == MergeSpec => MergeSound
<1>1. MergeInit => MergeInv
  BY DEF MergeInit, MergeInv, Reviewed, MergedLoads
<1>2. MergeInv => MergedLoads
  BY DEF MergeInv
<1> DEFINE AsReviewed == merged' /\ activeSet # activeSet' =>
        /\ DOMAIN activeSet'.mods = DOMAIN activeSet.mods \cup reviewed.additions
        /\ \A n \in DOMAIN activeSet.mods : activeSet'.mods[n] = activeSet.mods[n]
        /\ activeSet.entries # NoEntries =>
              \A n \in DOMAIN activeSet.entries : activeSet'.entries[n] = activeSet.entries[n]
<1>3. MergeInv /\ [MergeNext]_mergeVars => [AsReviewed]_mergeVars
  <2> SUFFICES ASSUME MergeInv, MergeNext PROVE AsReviewed
    OBVIOUS
  <2>1. CASE MergeModPack
    BY <2>1, MergeAdds
  <2>2. CASE EditActive \/ EditPack \/ InstallGame \/ PreviewModPackMerge
    BY <2>2 DEF EditActive, EditPack, InstallGame, PreviewModPackMerge
  <2> QED
    BY <2>1, <2>2 DEF MergeNext
<1> QED
  BY <1>1, <1>2, <1>3, MergeKeeps, PTL DEF MergeSpec, MergeSound, MergeAsReviewed

\* base is listed in what a merge writes, if it was before.
LEMMA BaseStays == ASSUME MergeModPack, ListsBase(activeSet) PROVE ListsBase(activeSet)'
<1>1. activeSet'.entries = MergedEntries
  BY DEF MergeModPack, MergedSet
<1>2. "base" \in DOMAIN MergedEntries
  BY MergedEntriesAre DEF ListsBase
<1> QED
  BY <1>1, <1>2 DEF ListsBase, EntriesOf

LEMMA MergeTypesKept == MergeTypeOK /\ [MergeNext]_mergeVars => MergeTypeOK'
<1> SUFFICES ASSUME MergeTypeOK, [MergeNext]_mergeVars PROVE MergeTypeOK'
  OBVIOUS
<1> DEFINE Base == (\A set \in ActiveSets : ListsBase(set)) => ListsBase(activeSet)
           Others == /\ pack \in PackSets /\ game \in Games
                     /\ reviewed.additions \subseteq UNION {DOMAIN p.mods : p \in PackSets}
                     /\ merged \in BOOLEAN /\ edits \in 0..MaxEdits
<1>1. Base /\ Others
  BY DEF MergeTypeOK
<1>2. \A set : ListsBase(set)' <=> ListsBase(set')
  BY DEF ListsBase, EntriesOf
<1>3. activeSet' = activeSet \/ activeSet' \in ActiveSets => Base'
  BY <1>1, <1>2 DEF ListsBase, EntriesOf
<1>4. MergeModPack => Base'
  BY <1>1, BaseStays DEF ListsBase, EntriesOf
<1>5. Base'
  BY <1>3, <1>4 DEF MergeNext, EditActive, EditPack, InstallGame, PreviewModPackMerge, mergeVars
<1>6. PreviewModPackMerge => reviewed'.additions \subseteq DOMAIN pack.mods
  BY CombinedIs DEF PreviewModPackMerge
<1>7. reviewed'.additions \subseteq UNION {DOMAIN p.mods : p \in PackSets}
  <2>1. PreviewModPackMerge \/ UNCHANGED reviewed
    BY DEF MergeNext, EditActive, EditPack, InstallGame, Edit, MergeModPack, mergeVars
  <2>2. DOMAIN pack.mods \subseteq UNION {DOMAIN p.mods : p \in PackSets}
    BY <1>1
  <2> QED
    BY <1>1, <1>6, <2>1, <2>2
<1>8. pack' \in PackSets /\ game' \in Games /\ merged' \in BOOLEAN /\ edits' \in 0..MaxEdits
  <2>1. edits' = edits \/ (edits < MaxEdits /\ edits' = edits + 1)
    BY DEF MergeNext, EditActive, EditPack, InstallGame, Edit, PreviewModPackMerge,
           MergeModPack, mergeVars
  <2>2. edits' \in 0..MaxEdits
    BY <1>1, <2>1, MergeConstants
  <2>3. pack' \in PackSets /\ game' \in Games /\ merged' \in BOOLEAN
    BY <1>1 DEF MergeNext, EditActive, EditPack, InstallGame, PreviewModPackMerge,
                MergeModPack, mergeVars
  <2> QED
    BY <2>2, <2>3
<1> QED
  BY <1>5, <1>7, <1>8 DEF MergeTypeOK

\* What a preview adds comes from a pack, and base stays in the list of the profile.
THEOREM MergeTypeCorrect == MergeSpec => []MergeTypeOK
<1>1. MergeInit => MergeTypeOK
  <2> SUFFICES ASSUME MergeInit PROVE MergeTypeOK
    OBVIOUS
  <2>1. (\A set \in ActiveSets : ListsBase(set)) => ListsBase(activeSet)
    BY DEF MergeInit
  <2>2. 0 \in 0..MaxEdits
    BY MergeConstants
  <2> QED
    BY <2>1, <2>2 DEF MergeInit, MergeTypeOK, NotReviewed
<1> QED
  BY <1>1, MergeTypesKept, PTL DEF MergeSpec

-----------------------------------------------------------------------------
(* ModList: the inductive invariant.                                       *)

Asked == {"toggle", "delete", "place", "install", "deleteAll", "configuration"}
UnderLock == {"write", "find", "remove", "unlist", "clear", "fill", "stage", "activate", "entry", "old",
         "removeOld"}
NotLocked == {"idle", "list", "create", "directory", "walk", "admit", "enable"}
TaskRecords ==
    [op : Asked \cup {"none"}, step : UnderLock \cup NotLocked, mod : Mods \cup {"base"},
     files : SUBSET ModFiles, view : Entries, infos : SUBSET ModFiles, walk : SUBSET ModFiles, open : ModFiles \cup {NoFile},
     old : SUBSET ModFiles]

ModsTyped ==
    /\ zips \in SUBSET ModFiles /\ list \in Entries \cup {NoList}
    /\ lifecycle \in Admins \cup {NoAdmin} /\ locked \in ModFiles \cup {NoFile}
    /\ task \in [Admins -> TaskRecords] /\ spoiled \in BOOLEAN
    /\ requests \in 0..MaxRequests /\ modFaults \in 0..MaxModFaults

\* What a request was asked to do, at each of its steps, and what it has read of its mod.
OpOf(t) ==
    /\ t.step # "idle" => t.op \in Asked
    /\ t.step \in {"find", "remove", "unlist"} => t.op = "delete"
    /\ t.step \in {"clear", "fill"} => t.op = "deleteAll"
    /\ t.step \in {"stage", "activate", "entry", "old", "removeOld"} => t.op \in {"place", "install"}
    /\ t.step = "enable" => t.op = "install"
    /\ t.step = "write" => t.op \in {"toggle", "configuration", "install"}
    /\ t.op = "toggle" /\ t.step \in {"admit", "write"} => t.mod \in DOMAIN t.view
    /\ t.op = "install" /\ t.step \in {"enable", "write"} => t.mod \in DOMAIN t.view
    /\ t.step \in {"old", "removeOld"} => t.mod \in DOMAIN t.view
    /\ t.open # NoFile => t.step = "walk"

\* The archive that is locked is of the mod, and the older ones give way to another.
Handled(t, files, lock) ==
    /\ t.step \in {"remove", "activate", "removeOld"} => lock \in ModFiles /\ ModOf[lock] = t.mod
    /\ t.step \in {"activate", "entry", "old", "removeOld"} => \A f \in t.old : ModOf[f] = t.mod
    /\ t.step = "activate" => lock \notin t.old
    /\ t.step \in {"entry", "old"} => \E g \in files : ModOf[g] = t.mod /\ g \notin t.old
    /\ t.step = "removeOld" => \E g \in files : ModOf[g] = t.mod /\ g \notin t.old /\ g # lock

\* The list has an entry for each mod with an archive, of which it has one; base has one of its own.
Listed(entries) == IF entries = NoList THEN {} ELSE DOMAIN entries \ {"base"}
Alone(files) == \A f, g \in files : ModOf[f] = ModOf[g] => f = g
AgreeBut(n, files, entries) ==
    /\ Listed(entries) \ {n} \subseteq Mods
    /\ \A m \in Mods \ {n, "base"} : m \in Listed(entries) <=> \E f \in files : ModOf[f] = m
    /\ \A f, g \in files : ModOf[f] = ModOf[g] /\ ModOf[f] # n => f = g
Agree(files, entries) ==
    /\ Listed(entries) \subseteq Mods
    /\ \A m \in Mods \ {"base"} : m \in Listed(entries) <=> \E f \in files : ModOf[f] = m
    /\ Alone(files)

\* What is there while a request that was not overtaken holds the mutex.
Sees(t, files, entries, lock) ==
    /\ t.step \notin {"clear", "fill"} => t.view = entries
    /\ t.step \in {"write", "find", "remove", "clear", "stage", "activate"} => Agree(files, entries)
    /\ t.step \in {"find", "remove", "stage"} => t.infos = files
    /\ t.step = "remove" => lock \in files
    /\ t.step = "unlist" => AgreeBut(t.mod, files, entries) /\ \A f \in files : ModOf[f] # t.mod
    /\ t.step = "fill" => files = {} /\ entries \in {NoList, BaseOnly}
    /\ t.step = "activate" => t.old = {f \in files : ModOf[f] = t.mod} \ {lock}
    /\ t.step \in {"entry", "old"} => AgreeBut(t.mod, files, entries) /\ Alone(Of(t.mod, files) \ t.old)
    /\ t.step = "removeOld" =>
          AgreeBut(t.mod, files, entries) /\ Alone(Of(t.mod, files) \ (t.old \cup {lock}))

Ordered(c) ==
    /\ lifecycle = c <=> task[c].step \in UnderLock
    /\ OpOf(task[c]) /\ Handled(task[c], zips, locked)
    /\ lifecycle = c /\ ~spoiled => Sees(task[c], zips, list, locked)
FreeAgrees == lifecycle = NoAdmin /\ ~spoiled => Agree(zips, list)

ModsInv == ModsTyped /\ (\A c \in Admins : Ordered(c)) /\ FreeAgrees

-----------------------------------------------------------------------------
(* Lists of entries.                                                       *)

LEMMA EntriesAre ==
    ASSUME NEW v
    PROVE  v \in Entries <=> /\ DOMAIN v \subseteq Mods \cup {"base"} /\ v = [m \in DOMAIN v |-> v[m]]
                             /\ \A m \in DOMAIN v : v[m] \in BOOLEAN
<1>1. ASSUME v \in Entries
      PROVE  /\ DOMAIN v \subseteq Mods \cup {"base"} /\ v = [m \in DOMAIN v |-> v[m]]
             /\ \A m \in DOMAIN v : v[m] \in BOOLEAN
  <2>1. PICK S \in SUBSET (Mods \cup {"base"}) : v \in [S -> BOOLEAN]
    BY <1>1 DEF Entries
  <2> QED
    BY <2>1
<1>2. ASSUME DOMAIN v \subseteq Mods \cup {"base"}, v = [m \in DOMAIN v |-> v[m]],
             \A m \in DOMAIN v : v[m] \in BOOLEAN
      PROVE  v \in Entries
  <2>1. v \in [DOMAIN v -> BOOLEAN] /\ DOMAIN v \in SUBSET (Mods \cup {"base"})
    BY <1>2
  <2> QED
    BY <2>1 DEF Entries
<1> QED
  BY <1>1, <1>2

LEMMA BaseIs == BaseOnly \in Entries /\ Listed(BaseOnly) = {} /\ BaseOnly # NoList
<1>1. BaseOnly \in [{"base"} -> BOOLEAN] /\ {"base"} \in SUBSET (Mods \cup {"base"})
  BY DEF BaseOnly
<1>2. BaseOnly \in Entries
  BY <1>1 DEF Entries
<1> QED
  BY <1>1, <1>2, ModListConstants DEF Listed

LEMMA WithIs ==
    ASSUME NEW v \in Entries, NEW n \in Mods \cup {"base"}, NEW b \in BOOLEAN
    PROVE  /\ With(v, n, b) \in Entries /\ DOMAIN With(v, n, b) = DOMAIN v \cup {n}
           /\ Listed(With(v, n, b)) = Listed(v) \cup ({n} \ {"base"})
           /\ \A m \in DOMAIN v \ {n} : With(v, n, b)[m] = v[m]
<1> DEFINE w == With(v, n, b)
<1>1. /\ DOMAIN v \subseteq Mods \cup {"base"} /\ \A m \in DOMAIN v : v[m] \in BOOLEAN
  BY EntriesAre
<1>2. /\ DOMAIN w = DOMAIN v \cup {n} /\ w = [m \in DOMAIN w |-> w[m]]
      /\ w[n] = b /\ \A m \in DOMAIN v \ {n} : w[m] = v[m]
  BY DEF With
<1> HIDE DEF w
<1>3. w \in Entries
  BY <1>1, <1>2, EntriesAre
<1>4. Listed(w) = Listed(v) \cup ({n} \ {"base"})
  BY <1>2, <1>3, ModListConstants DEF Listed
<1> QED
  BY <1>2, <1>3, <1>4 DEF w

LEMMA WithoutIs ==
    ASSUME NEW v \in Entries, NEW n
    PROVE  /\ Without(v, n) \in Entries /\ DOMAIN Without(v, n) = DOMAIN v \ {n}
           /\ Listed(Without(v, n)) = Listed(v) \ {n}
           /\ \A m \in DOMAIN v \ {n} : Without(v, n)[m] = v[m]
<1> DEFINE w == Without(v, n)
<1>1. /\ DOMAIN v \subseteq Mods \cup {"base"} /\ \A m \in DOMAIN v : v[m] \in BOOLEAN
  BY EntriesAre
<1>2. /\ DOMAIN w = DOMAIN v \ {n} /\ w = [m \in DOMAIN w |-> w[m]]
      /\ \A m \in DOMAIN v \ {n} : w[m] = v[m]
  BY DEF Without
<1> HIDE DEF w
<1>3. w \in Entries
  BY <1>1, <1>2, EntriesAre
<1>4. Listed(w) = Listed(v) \ {n}
  BY <1>2, <1>3, ModListConstants DEF Listed
<1> QED
  BY <1>2, <1>3, <1>4 DEF w

\* A mod with at most one archive, counted and said without counting.
LEMMA OneArchive ==
    ASSUME NEW files \in SUBSET ModFiles
    PROVE  Alone(files) <=> \A m \in Mods : Cardinality(Of(m, files)) <= 1
<1>1. ASSUME NEW m \in Mods, Cardinality(Of(m, files)) <= 1
      PROVE  \A f, g \in Of(m, files) : f = g
  <2> SUFFICES ASSUME NEW f \in Of(m, files), NEW g \in Of(m, files) PROVE f = g
    OBVIOUS
  <2>1. IsFiniteSet(Of(m, files)) /\ Cardinality(Of(m, files)) \in Nat
    <3>1. Of(m, files) \in SUBSET ModFiles /\ IsFiniteSet(ModFiles)
      BY ModListConstants DEF Of
    <3> QED
      BY <3>1, FS_Subset, FS_CardinalityType
  <2>2. /\ IsFiniteSet(Of(m, files) \ {f}) /\ Cardinality(Of(m, files) \ {f}) \in Nat
        /\ Cardinality(Of(m, files) \ {f}) = Cardinality(Of(m, files)) - 1
    BY <2>1, FS_RemoveElement, FS_CardinalityType
  <2>3. Cardinality(Of(m, files) \ {f}) = 0
    BY <1>1, <2>1, <2>2
  <2>4. Of(m, files) \ {f} = {}
    BY <2>2, <2>3, FS_EmptySet
  <2> QED
    BY <2>4
<1>2. ASSUME NEW m \in Mods, \A f, g \in Of(m, files) : f = g
      PROVE  Cardinality(Of(m, files)) <= 1
  <2>1. CASE Of(m, files) = {}
    BY <2>1, FS_EmptySet
  <2>2. CASE Of(m, files) # {}
    <3>1. PICK f : Of(m, files) = {f}
      BY <1>2, <2>2
    <3> QED
      BY <3>1, FS_Singleton
  <2> QED
    BY <2>1, <2>2
<1>3. Alone(files) <=> \A m \in Mods : \A f, g \in Of(m, files) : f = g
  BY DEF Alone, Of, Mods
<1> QED
  BY <1>1, <1>2, <1>3

LEMMA ModsStart == ModListInit => ModsInv
<1> SUFFICES ASSUME ModListInit PROVE ModsInv
  OBVIOUS
<1>1. zips \in SUBSET ModFiles /\ Alone(zips)
  BY OneArchive DEF ModListInit
<1>2. NoTask \in TaskRecords /\ NoTask.step = "idle" /\ NoTask.op = "none" /\ NoTask.open = NoFile
  BY BaseIs DEF NoTask, TaskRecords, Asked, NotLocked
<1>3. list \in Entries \cup {NoList} /\ Agree(zips, list)
  <2> DEFINE D == {"base"} \cup {m \in Mods : HasArchive(m)}
  <2>1. CASE list \in [D -> BOOLEAN]
    <3>1. D \in SUBSET (Mods \cup {"base"})
      OBVIOUS
    <3>2. list \in Entries
      BY <2>1, <3>1 DEF Entries
    <3>3. Listed(list) = {m \in Mods : HasArchive(m)} \ {"base"}
      BY <2>1, <3>2, ModListConstants DEF Listed
    <3> QED
      BY <1>1, <3>2, <3>3 DEF Agree, HasArchive, Of
  <2>2. CASE list = NoList /\ zips = {}
    BY <1>1, <2>2 DEF Agree, Listed
  <2> QED
    BY <2>1, <2>2 DEF ModListInit
<1>4. ModsTyped
  <2>1. /\ task \in [Admins -> TaskRecords] /\ lifecycle = NoAdmin /\ locked = NoFile
        /\ spoiled = FALSE /\ requests = 0 /\ modFaults = 0
    BY <1>2 DEF ModListInit
  <2>2. 0 \in 0..MaxRequests /\ 0 \in 0..MaxModFaults
    BY ModListConstants
  <2> QED
    BY <1>1, <1>3, <2>1, <2>2 DEF ModsTyped
<1>5. \A c \in Admins : Ordered(c)
  BY <1>2, ModListConstants DEF Ordered, ModListInit, OpOf, Handled, UnderLock
<1> QED
  BY <1>3, <1>4, <1>5 DEF ModsInv, FreeAgrees

-----------------------------------------------------------------------------
(* One lemma per kind of step.                                             *)

CountersTyped == requests \in 0..MaxRequests /\ modFaults \in 0..MaxModFaults

LEMMA IdleTask == NoTask \in TaskRecords /\ NoTask.step \in NotLocked /\ OpOf(NoTask)
BY BaseIs DEF NoTask, TaskRecords, Asked, NotLocked, OpOf

\* What is known of the request that holds the mutex.
LEMMA HolderHas ==
    ASSUME ModsInv, NEW c \in Admins
    PROVE  /\ task[c] \in TaskRecords /\ OpOf(task[c]) /\ Handled(task[c], zips, locked)
           /\ lifecycle = c <=> task[c].step \in UnderLock
           /\ lifecycle = c /\ ~spoiled => Sees(task[c], zips, list, locked)
           /\ c # NoAdmin
BY ModListConstants DEF ModsInv, ModsTyped, Ordered

\* Base is all that is listed by a list written for want of one.
LEMMA SeesNew ==
    ASSUME NEW t \in TaskRecords, Sees(t, zips, NoList, locked)
    PROVE  Sees(t, zips, BaseOnly, locked)
<1>1. t.view # NoList
  BY ModListConstants DEF TaskRecords
<1>2. t.step \in {"clear", "fill"}
  BY <1>1 DEF Sees
<1>3. Agree(zips, NoList) => Agree(zips, BaseOnly)
  BY BaseIs DEF Agree, Listed
<1> QED
  BY <1>2, <1>3 DEF Sees

\* A request without the mutex, which at most writes the list that was missing.
LEMMA QuietStep ==
    ASSUME ModsInv, NEW d \in Admins, lifecycle # d, NEW t \in TaskRecords, t.step \in NotLocked, OpOf(t),
           task' = [task EXCEPT ![d] = t], UNCHANGED <<zips, lifecycle, locked>>, CountersTyped',
           \/ UNCHANGED <<list, spoiled>>
           \/ list' = BaseOnly /\ spoiled' = (spoiled \/ list # NoList)
    PROVE  ModsInv'
<1>1. /\ list' \in Entries \cup {NoList} /\ spoiled' \in BOOLEAN
      /\ ~spoiled' => ~spoiled /\ (list' = list \/ (list' = BaseOnly /\ list = NoList))
  BY BaseIs DEF ModsInv, ModsTyped
<1>2. ModsTyped'
  BY <1>1 DEF ModsInv, ModsTyped, CountersTyped
<1>3. ASSUME NEW c \in Admins PROVE Ordered(c)'
  <2>1. CASE c = d
    <3>1. task'[d] = t /\ t.step \notin UnderLock /\ lifecycle' # d
      BY DEF ModsInv, ModsTyped, UnderLock, NotLocked
    <3>2. Handled(t, zips', locked')
      BY DEF Handled, NotLocked
    <3> QED
      BY <2>1, <3>1, <3>2 DEF Ordered
  <2>2. CASE c # d
    <3>1. task'[c] = task[c] /\ lifecycle' = lifecycle /\ zips' = zips /\ locked' = locked
      BY <2>2 DEF ModsInv, ModsTyped
    <3>2. lifecycle = c /\ ~spoiled' => Sees(task[c], zips, list', locked)
      BY <1>1, HolderHas, SeesNew
    <3> QED
      BY <3>1, <3>2, HolderHas DEF Ordered
  <2> QED
    BY <2>1, <2>2
<1>4. FreeAgrees'
  <2>1. Agree(zips, NoList) => Agree(zips, BaseOnly)
    BY BaseIs DEF Agree, Listed
  <2> QED
    BY <1>1, <2>1 DEF FreeAgrees, ModsInv
<1> QED
  BY <1>2, <1>3, <1>4 DEF ModsInv

\* A step of the holder of the mutex changes what that request has and no other.
LEMMA HolderMoves ==
    ASSUME ModsInv, NEW c \in Admins, NEW t \in TaskRecords, OpOf(t), task' = [task EXCEPT ![c] = t],
           lifecycle \in {c, NoAdmin},
           lifecycle' = IF t.step \in UnderLock THEN c ELSE NoAdmin,
           zips' \in SUBSET ModFiles, list' \in Entries \cup {NoList}, spoiled' \in BOOLEAN,
           locked' \in ModFiles \cup {NoFile}, CountersTyped',
           Handled(t, zips', locked'), 
           ~spoiled' /\ t.step \in UnderLock => Sees(t, zips', list', locked'),
           ~spoiled' /\ t.step \notin UnderLock => Agree(zips', list')
    PROVE  ModsInv'
<1>1. ModsTyped'
  BY DEF ModsInv, ModsTyped, CountersTyped
<1>2. ASSUME NEW d \in Admins PROVE Ordered(d)'
  <2>1. CASE d = c
    <3>1. task'[c] = t /\ (lifecycle' = c <=> t.step \in UnderLock)
      BY ModListConstants DEF ModsInv, ModsTyped
    <3> QED
      BY <2>1, <3>1 DEF Ordered
  <2>2. CASE d # c
    <3>1. task'[d] = task[d] /\ lifecycle # d /\ lifecycle' # d
      BY <2>2, ModListConstants DEF ModsInv, ModsTyped
    <3>2. task[d].step \notin UnderLock /\ OpOf(task[d])
      BY <3>1, HolderHas
    <3>3. Handled(task[d], zips', locked')
      BY <3>2 DEF Handled, UnderLock
    <3> QED
      BY <3>1, <3>2, <3>3 DEF Ordered
  <2> QED
    BY <2>1, <2>2
<1>3. FreeAgrees'
  BY ModListConstants DEF FreeAgrees
<1> QED
  BY <1>1, <1>2, <1>3 DEF ModsInv

\* The holder gives the mutex back.
LEMMA GivesBack ==
    ASSUME ModsInv, NEW c \in Admins, lifecycle = c, NEW t \in TaskRecords, OpOf(t), t.step \in NotLocked,
           task' = [task EXCEPT ![c] = t], lifecycle' = NoAdmin, 
           zips' \in SUBSET ModFiles, list' \in Entries \cup {NoList}, spoiled' \in BOOLEAN,
           locked' \in ModFiles \cup {NoFile}, CountersTyped', ~spoiled' => Agree(zips', list')
    PROVE  ModsInv'
<1>1. t.step \notin UnderLock /\ Handled(t, zips', locked')
  BY DEF UnderLock, NotLocked, Handled
<1> QED
  BY <1>1, HolderMoves

LEMMA Ends ==
    ASSUME ModsInv, NEW c \in Admins, lifecycle = c, Finish(c), CountersTyped', 
           zips' \in SUBSET ModFiles, list' \in Entries \cup {NoList}, spoiled' \in BOOLEAN,
           locked' \in ModFiles \cup {NoFile}, ~spoiled' => Agree(zips', list')
    PROVE  ModsInv'
BY IdleTask, GivesBack DEF Finish

-----------------------------------------------------------------------------
(* Reading.                                                                *)

LEMMA FinishQuiet ==
    ASSUME ModsInv, NEW c \in Admins, lifecycle # c, Finish(c), CountersTyped',
           UNCHANGED <<zips, list, locked, spoiled>>
    PROVE  ModsInv'
<1>1. lifecycle' = lifecycle /\ task' = [task EXCEPT ![c] = NoTask]
  BY DEF Finish
<1> QED
  BY <1>1, IdleTask, QuietStep

LEMMA BeginKeepsMods ==
    ASSUME ModsInv, NEW c \in Admins, NEW r \in Requests, Begin(c, r) PROVE ModsInv'
<1> DEFINE t == [NoTask EXCEPT !.op = r.op, !.mod = r.mod, !.files = r.files,
                               !.step = IF r.op = "deleteAll" THEN "admit" ELSE "list"]
<1>1. r.op \in Asked /\ r.mod \in Mods \cup {"base"} /\ r.files \in SUBSET ModFiles
  <2>1. CASE r \in {[op |-> o, mod |-> m, files |-> {}] : o \in {"toggle", "delete"}, m \in Mods}
    BY <2>1 DEF Asked
  <2>2. CASE r \in {[op |-> "place", mod |-> ModOf[f], files |-> {f}] : f \in ModFiles}
    BY <2>2 DEF Asked, Mods
  <2>3. CASE r \in {[op |-> "install", mod |-> "base", files |-> fs] : fs \in Plans}
    <3>1. PICK fs \in Plans : r = [op |-> "install", mod |-> "base", files |-> fs]
      BY <2>3
    <3>2. fs \in SUBSET ModFiles
      BY DEF Plans
    <3> QED
      BY <3>1, <3>2 DEF Asked
  <2>4. CASE r \in {[op |-> o, mod |-> "base", files |-> {}] : o \in {"deleteAll", "configuration"}}
    BY <2>4 DEF Asked
  <2> QED
    BY <2>1, <2>2, <2>3, <2>4 DEF Requests
<1>2. /\ t \in TaskRecords /\ t.step \in {"admit", "list"} /\ t.op \in Asked /\ t.open = NoFile
      /\ t.step = "admit" => t.op = "deleteAll"
  BY <1>1, IdleTask DEF TaskRecords, NotLocked, NoTask
<1>3. OpOf(t) /\ t.step \in NotLocked
  BY <1>2 DEF OpOf, NotLocked
<1>4. task' = [task EXCEPT ![c] = t] /\ UNCHANGED <<zips, list, lifecycle, locked, spoiled, modFaults>>
  BY DEF Begin
<1>5. lifecycle # c /\ CountersTyped'
  BY <1>4, HolderHas, ModListConstants DEF Begin, UnderLock, CountersTyped, ModsInv, ModsTyped
<1> HIDE DEF t
<1> QED
  BY <1>2, <1>3, <1>4, <1>5, QuietStep

LEMMA ReadingKeeps ==
    ASSUME ModsInv, NEW c \in Admins, Reading(c) PROVE ModsInv'
<1> DEFINE t == task[c]
<1>0. /\ t \in TaskRecords /\ OpOf(t) /\ (lifecycle = c <=> t.step \in UnderLock)
      /\ c # NoAdmin
  BY HolderHas
<1>1. CountersTyped' /\ t.step \in {"list", "create", "directory", "walk"}
  BY <1>0 DEF Reading, ReadList, CreateList, ReadDirectory, OpenArchive, CloseArchive, ReadDone, Counters,
              modCounters, CountersTyped, ModsInv, ModsTyped, OpOf
<1>2. lifecycle # c /\ t.op \in Asked
  BY <1>0, <1>1 DEF UnderLock, OpOf
<1>3. CASE ReadList(c)
  <2>1. CASE list = NoList
    <3> DEFINE u == [t EXCEPT !.step = "create"]
    <3>1. task' = [task EXCEPT ![c] = u] /\ UNCHANGED <<zips, list, lifecycle, locked, spoiled>>
      BY <1>3, <2>1 DEF ReadList, ModsInv, ModsTyped
    <3>2. u \in TaskRecords /\ u.step = "create" /\ OpOf(u)
      BY <1>0, <1>3, <1>2 DEF ReadList, TaskRecords, OpOf, NotLocked
    <3> HIDE DEF u, t
    <3> QED
      BY <1>1, <1>2, <3>1, <3>2, QuietStep DEF NotLocked
  <2>2. CASE list # NoList
    <3> DEFINE u == [t EXCEPT !.step = "directory", !.view = list]
    <3>1. task' = [task EXCEPT ![c] = u] /\ UNCHANGED <<zips, list, lifecycle, locked, spoiled>>
      BY <1>3, <2>2 DEF ReadList, ModsInv, ModsTyped
    <3>2. u \in TaskRecords /\ u.step = "directory" /\ OpOf(u)
      BY <1>0, <1>3, <1>2, <2>2 DEF ReadList, TaskRecords, OpOf, NotLocked, ModsInv, ModsTyped
    <3> HIDE DEF u, t
    <3> QED
      BY <1>1, <1>2, <3>1, <3>2, QuietStep DEF NotLocked
  <2> QED
    BY <2>1, <2>2
<1>4. CASE CreateList(c)
  <2> DEFINE u == [t EXCEPT !.step = "directory", !.view = BaseOnly]
  <2>1. /\ task' = [task EXCEPT ![c] = u] /\ UNCHANGED <<zips, lifecycle, locked>>
        /\ list' = BaseOnly /\ spoiled' = (spoiled \/ list # NoList)
    BY <1>4 DEF CreateList, Spoil, ModsInv, ModsTyped
  <2>2. u \in TaskRecords /\ u.step = "directory" /\ OpOf(u)
    BY <1>0, <1>4, <1>2, BaseIs DEF CreateList, TaskRecords, OpOf, NotLocked
  <2> HIDE DEF u, t
  <2> QED
    BY <1>1, <1>2, <2>1, <2>2, QuietStep DEF NotLocked
<1>5. CASE ReadDirectory(c)
  <2> DEFINE u == [t EXCEPT !.step = "walk", !.walk = zips]
  <2>1. task' = [task EXCEPT ![c] = u] /\ UNCHANGED <<zips, list, lifecycle, locked, spoiled>>
    BY <1>5 DEF ReadDirectory, ModsInv, ModsTyped
  <2>2. u \in TaskRecords /\ u.step = "walk" /\ OpOf(u)
    BY <1>0, <1>5, <1>2 DEF ReadDirectory, TaskRecords, OpOf, NotLocked, ModsInv, ModsTyped
  <2> HIDE DEF u, t
  <2> QED
    BY <1>1, <1>2, <2>1, <2>2, QuietStep DEF NotLocked
<1>6. ASSUME NEW f \in ModFiles, OpenArchive(c, f) PROVE ModsInv'
  <2>1. CASE f \notin zips
    BY <1>1, <1>2, <1>6, <2>1, FinishQuiet DEF OpenArchive
  <2>2. CASE f \in zips
    <3> DEFINE u == [t EXCEPT !.walk = t.walk \ {f}, !.open = IF locked = f THEN NoFile ELSE f]
    <3>1. task' = [task EXCEPT ![c] = u] /\ UNCHANGED <<zips, list, lifecycle, locked, spoiled>>
      BY <1>6, <2>2 DEF OpenArchive, ModsInv, ModsTyped
    <3>2. u \in TaskRecords /\ u.step = "walk" /\ OpOf(u)
      BY <1>0, <1>2, <1>6 DEF OpenArchive, TaskRecords, OpOf, NotLocked
    <3> HIDE DEF u, t
    <3> QED
      BY <1>1, <1>2, <3>1, <3>2, QuietStep DEF NotLocked
  <2> QED
    BY <2>1, <2>2
<1>7. CASE CloseArchive(c)
  <2> DEFINE u == [t EXCEPT !.infos = t.infos \cup {t.open}, !.open = NoFile]
  <2>1. task' = [task EXCEPT ![c] = u] /\ UNCHANGED <<zips, list, lifecycle, locked, spoiled>>
    BY <1>7 DEF CloseArchive, ModsInv, ModsTyped
  <2>2. t.step = "walk" /\ t.open \in ModFiles
    BY <1>0, <1>7 DEF CloseArchive, OpOf, TaskRecords
  <2>3. u \in TaskRecords /\ u.step = "walk" /\ OpOf(u)
    BY <1>0, <1>2, <2>2 DEF TaskRecords, OpOf, NotLocked
  <2> HIDE DEF u, t
  <2> QED
    BY <1>1, <1>2, <2>1, <2>3, QuietStep DEF NotLocked
<1>8. CASE ReadDone(c)
  <2>1. CASE t.op = "toggle" /\ t.mod \notin DOMAIN t.view
    BY <1>1, <1>2, <1>8, <2>1, FinishQuiet DEF ReadDone
  <2>2. CASE ~(t.op = "toggle" /\ t.mod \notin DOMAIN t.view)
    <3> DEFINE u == [t EXCEPT !.step = "admit"]
    <3>1. task' = [task EXCEPT ![c] = u] /\ UNCHANGED <<zips, list, lifecycle, locked, spoiled>>
      BY <1>8, <2>2 DEF ReadDone, Step, ModsInv, ModsTyped
    <3>2. u \in TaskRecords /\ u.step = "admit" /\ OpOf(u)
      BY <1>0, <1>8, <1>2, <2>2 DEF ReadDone, TaskRecords, OpOf, NotLocked
    <3> HIDE DEF u, t
    <3> QED
      BY <1>1, <1>2, <3>1, <3>2, QuietStep DEF NotLocked
  <2> QED
    BY <2>1, <2>2
<1> QED
  BY <1>3, <1>4, <1>5, <1>6, <1>7, <1>8 DEF Reading

-----------------------------------------------------------------------------
(* Under the mutex.                                                        *)

LEMMA AdmitKeeps == ASSUME ModsInv, NEW c \in Admins, Admit(c) PROVE ModsInv'
<1> DEFINE t == task[c]
           s == IF t.step = "enable" THEN "write" ELSE FirstStep(t.op)
           u == [t EXCEPT !.step = s]
<1>1. /\ t \in TaskRecords /\ OpOf(t) /\ t.op \in Asked /\ t.step \in {"admit", "enable"}
      /\ t.step = "enable" => t.op = "install"
      /\ t.op = "toggle" => t.mod \in DOMAIN t.view /\ t.step = "admit"
  BY HolderHas DEF Admit, OpOf
<1>2. /\ s \in {"write", "find", "stage", "clear"}
      /\ s = "write" => t.op \in {"toggle", "configuration"} \/ t.step = "enable"
      /\ s = "find" => t.op = "delete"
      /\ s = "stage" => t.op \in {"place", "install"}
      /\ s = "clear" <=> t.op = "deleteAll"
  BY <1>1 DEF FirstStep, Asked
<1>3. /\ task' = [task EXCEPT ![c] = u] /\ lifecycle = NoAdmin /\ lifecycle' = c
      /\ UNCHANGED <<zips, list, locked, requests, modFaults>>
      /\ spoiled' = (spoiled \/ (t.op # "deleteAll" /\ (t.view # list \/ t.infos # zips)))
  BY DEF Admit, Step, Spoil, Overtaken, Counters, modCounters, ModsInv, ModsTyped
<1> HIDE DEF s
<1>4. /\ u \in TaskRecords /\ u.step = s /\ u.op = t.op /\ u.mod = t.mod /\ u.view = t.view
      /\ u.infos = t.infos /\ u.open = t.open
  BY <1>1, <1>2 DEF TaskRecords, UnderLock
<1>5. t.open = NoFile
  BY <1>1 DEF OpOf
<1> HIDE DEF u
<1>6. OpOf(u)
  BY <1>1, <1>2, <1>4, <1>5 DEF OpOf
<1>7. Handled(u, zips', locked')
  BY <1>2, <1>4 DEF Handled
<1>8. ASSUME ~spoiled' PROVE Sees(u, zips', list', locked')
  <2>1. Agree(zips, list) /\ (s # "clear" => t.view = list /\ t.infos = zips)
    BY <1>2, <1>3, <1>8 DEF ModsInv, FreeAgrees, ModsTyped
  <2> QED
    BY <1>2, <1>3, <1>4, <2>1 DEF Sees
<1>9. u.step \in UnderLock /\ CountersTyped'
  BY <1>2, <1>3, <1>4 DEF UnderLock, CountersTyped, ModsInv, ModsTyped
<1>10. /\ zips' \in SUBSET ModFiles /\ list' \in Entries \cup {NoList} /\ spoiled' \in BOOLEAN
       /\ locked' \in ModFiles \cup {NoFile}
  BY <1>3 DEF ModsInv, ModsTyped
<1> HIDE DEF t
<1> QED
  BY <1>3, <1>4, <1>6, <1>7, <1>8, <1>9, <1>10, HolderMoves

LEMMA ServerActiveKeeps == ASSUME ModsInv, NEW c \in Admins, ServerActive(c) PROVE ModsInv'
<1>1. lifecycle # c /\ CountersTyped'
  BY HolderHas DEF ServerActive, Counters, modCounters, CountersTyped, ModsInv, ModsTyped
<1> QED
  BY <1>1, FinishQuiet DEF ServerActive

\* An entry that is there and one that is not.
LEMMA ListedSame ==
    ASSUME NEW v \in Entries, NEW n \in Mods \cup {"base"}, n \in DOMAIN v, NEW b \in BOOLEAN
    PROVE  Listed(With(v, n, b)) = Listed(v)
<1>1. Listed(With(v, n, b)) = Listed(v) \cup ({n} \ {"base"})
  BY WithIs
<1>2. Listed(v) = DOMAIN v \ {"base"}
  BY ModListConstants DEF Listed
<1> QED
  BY <1>1, <1>2

\* What a request that holds the mutex may take for granted.
LEMMA Work ==
    ASSUME ModsInv, NEW c \in Admins, lifecycle = c
    PROVE  /\ task[c] \in TaskRecords /\ OpOf(task[c]) /\ Handled(task[c], zips, locked)
           /\ ~spoiled => Sees(task[c], zips, list, locked)
           /\ task[c].op \in Asked /\ task[c].step \in UnderLock /\ task[c].open = NoFile
           /\ task[c].mod \in Mods \cup {"base"} /\ task[c].view \in Entries /\ c # NoAdmin
           /\ zips \in SUBSET ModFiles /\ list \in Entries \cup {NoList} /\ spoiled \in BOOLEAN
           /\ locked \in ModFiles \cup {NoFile} /\ CountersTyped
           /\ task = [task EXCEPT ![c] = task[c]]
           /\ \A u : [task EXCEPT ![c] = u][c] = u
<1>1. /\ task[c] \in TaskRecords /\ OpOf(task[c]) /\ Handled(task[c], zips, locked)
      /\ ~spoiled => Sees(task[c], zips, list, locked)
      /\ task[c].step \in UnderLock /\ c # NoAdmin
  BY HolderHas
<1>2. task[c].op \in Asked /\ task[c].open = NoFile
  BY <1>1 DEF OpOf, UnderLock
<1> QED
  BY <1>1, <1>2 DEF ModsInv, ModsTyped, TaskRecords, CountersTyped

LEMMA WritesKeep ==
    ASSUME ModsInv, NEW c \in Admins,
           Toggle(c) \/ EnableInstalled(c) \/ \E l \in ModLists : SaveModConfiguration(c, l)
    PROVE  ModsInv'
<1> DEFINE t == task[c]
<1>1. /\ lifecycle = c /\ t.step = "write" /\ CountersTyped' /\ UNCHANGED <<zips, locked>>
  BY Work DEF Toggle, EnableInstalled, SaveModConfiguration, Working, Counters, modCounters, CountersTyped
<1>2. ~spoiled => t.view = list /\ Agree(zips, list)
  BY <1>1, Work DEF Sees
<1>3. ASSUME NEW b \in BOOLEAN, t.mod \in DOMAIN t.view, list' = With(t.view, t.mod, b),
             spoiled' = spoiled
      PROVE  list' \in Entries /\ (~spoiled' => Agree(zips', list'))
  <2>1. list' \in Entries /\ Listed(list') = Listed(t.view)
    BY <1>1, <1>3, Work, WithIs, ListedSame
  <2> QED
    BY <1>1, <1>2, <1>3, <2>1 DEF Agree
<1>4. CASE Toggle(c)
  <2>1. t.mod \in DOMAIN t.view /\ (~t.view[t.mod]) \in BOOLEAN
    BY <1>1, <1>4, Work DEF Toggle, OpOf
  <2> QED
    BY <1>1, <1>3, <1>4, <2>1, Work, Ends DEF Toggle
<1>5. CASE EnableInstalled(c)
  <2>1. t.mod \in DOMAIN t.view /\ t.op = "install"
    BY <1>1, <1>5, Work DEF EnableInstalled, OpOf
  <2>2. list' = With(t.view, t.mod, TRUE) /\ spoiled' = spoiled
    BY <1>5 DEF EnableInstalled
  <2>3. list' \in Entries /\ (~spoiled' => Agree(zips', list'))
    BY <1>3, <2>1, <2>2
  <2>4. CASE t.files = {}
    BY <1>1, <1>5, <2>2, <2>3, <2>4, Work, Ends DEF EnableInstalled
  <2>5. CASE t.files # {}
    <3> DEFINE u == [t EXCEPT !.view = list', !.step = "admit"]
    <3>1. task' = [task EXCEPT ![c] = u] /\ lifecycle' = NoAdmin
      BY <1>5, <2>5, Work DEF EnableInstalled, ModsInv, ModsTyped
    <3>2. u \in TaskRecords /\ u.step = "admit" /\ u.op = "install" /\ u.open = NoFile
      <4>1. t \in TaskRecords /\ t.open = NoFile /\ list' \in Entries
        BY <1>1, <2>3, Work
      <4> QED
        BY <2>1, <4>1 DEF TaskRecords, NotLocked
    <3> HIDE DEF u
    <3>3. OpOf(u) /\ u.step \in NotLocked
      BY <3>2 DEF OpOf, NotLocked, Asked
    <3> QED
      BY <1>1, <2>2, <2>3, <3>1, <3>2, <3>3, Work, GivesBack
  <2> QED
    BY <2>4, <2>5
<1>6. ASSUME NEW l \in ModLists, SaveModConfiguration(c, l) PROVE ModsInv'
  <2>1. /\ list' = l /\ l \in Entries /\ l # NoList /\ Finish(c)
        /\ spoiled' = (spoiled \/ DOMAIN l \ {"base"} # {m \in Mods \ {"base"} : HasArchive(m)})
    BY <1>6, ModListConstants DEF SaveModConfiguration, Spoil
  <2>2. ASSUME ~spoiled' PROVE Agree(zips', list')
    <3>1. Listed(l) = {m \in Mods \ {"base"} : HasArchive(m)} /\ Alone(zips)
      BY <1>2, <2>1, <2>2 DEF Listed, Agree
    <3> QED
      BY <1>1, <2>1, <3>1 DEF Agree, HasArchive, Of
  <2> QED
    BY <1>1, <2>1, <2>2, Work, Ends
<1> QED
  BY <1>4, <1>5, <1>6

LEMMA DeletingKeeps ==
    ASSUME ModsInv, NEW c \in Admins,
           \/ \E f \in ModFiles : LockDeleted(c, f)
           \/ NothingToDelete(c) \/ RemoveArchive(c) \/ RemoveEntry(c)
    PROVE  ModsInv'
<1> DEFINE t == task[c]
<1>1. /\ lifecycle = c /\ CountersTyped' /\ spoiled' = spoiled
  BY Work DEF LockDeleted, NothingToDelete, RemoveArchive, RemoveEntry, Working, Counters, modCounters,
              CountersTyped
<1>2. ASSUME NEW f \in ModFiles, LockDeleted(c, f) PROVE ModsInv'
  <2> DEFINE u == [t EXCEPT !.step = "remove"]
  <2>1. /\ task' = [task EXCEPT ![c] = u] /\ UNCHANGED <<zips, list, lifecycle, spoiled>> /\ locked' = f
        /\ t.step = "find" /\ ModOf[f] = t.mod /\ f \in t.infos
    BY <1>2 DEF LockDeleted, Step, Working, Of, ModsInv, ModsTyped
  <2>2. /\ u \in TaskRecords /\ u.step = "remove" /\ u.op = t.op /\ u.open = NoFile
        /\ u.mod = t.mod /\ u.view = t.view /\ u.infos = t.infos
    BY <1>1, Work DEF TaskRecords, UnderLock
  <2>3. t.op = "delete"
    BY <1>1, <2>1, Work DEF OpOf
  <2> HIDE DEF u
  <2>4. OpOf(u) /\ Handled(u, zips', locked')
    BY <2>1, <2>2, <2>3 DEF OpOf, Handled, Asked
  <2>5. ~spoiled => t.view = list /\ Agree(zips, list) /\ t.infos = zips
    BY <1>1, <2>1, Work DEF Sees
  <2>6. ~spoiled' => Sees(u, zips', list', locked')
    BY <2>1, <2>2, <2>5 DEF Sees
  <2> QED
    BY <1>1, <2>1, <2>2, <2>4, <2>6, Work, HolderMoves DEF UnderLock
<1>3. CASE NothingToDelete(c)
  <2>1. t.step = "find" /\ Finish(c) /\ UNCHANGED <<zips, list, locked>>
    BY <1>3 DEF NothingToDelete, Working
  <2>2. ~spoiled => Agree(zips, list)
    BY <1>1, <2>1, Work DEF Sees
  <2> QED
    BY <1>1, <2>1, <2>2, Work, Ends
<1>4. CASE RemoveArchive(c)
  <2>1. /\ t.step = "remove" /\ zips' = zips \ {locked} /\ locked' = NoFile /\ list' = list
        /\ IF locked \in zips THEN Step(c, "unlist") /\ UNCHANGED lifecycle ELSE Finish(c)
    BY <1>4 DEF RemoveArchive, Working
  <2>2. /\ ~spoiled => t.view = list /\ Agree(zips, list) /\ locked \in zips
        /\ ModOf[locked] = t.mod /\ t.op = "delete"
    BY <1>1, <2>1, Work DEF Sees, Handled, OpOf
  <2>3. CASE locked \notin zips
    BY <1>1, <2>1, <2>2, <2>3, Work, Ends
  <2>4. CASE locked \in zips
    <3> DEFINE u == [t EXCEPT !.step = "unlist"]
    <3>1. task' = [task EXCEPT ![c] = u] /\ UNCHANGED lifecycle
      BY <2>1, <2>4 DEF Step, ModsInv, ModsTyped
    <3>2. /\ u \in TaskRecords /\ u.step = "unlist" /\ u.op = t.op /\ u.open = NoFile
          /\ u.mod = t.mod /\ u.view = t.view
      BY <1>1, Work DEF TaskRecords, UnderLock
    <3> HIDE DEF u
    <3>3. OpOf(u) /\ Handled(u, zips', locked')
      BY <2>2, <3>2 DEF OpOf, Handled, Asked
    <3>4. ASSUME ~spoiled PROVE Sees(u, zips', list', locked')
      <4>1. \A f \in zips' : ModOf[f] # t.mod
        BY <2>1, <2>2, <3>4 DEF Agree, Alone
      <4>2. AgreeBut(t.mod, zips', list')
        BY <2>1, <2>2, <3>4 DEF Agree, Alone, AgreeBut
      <4> QED
        BY <2>1, <2>2, <3>2, <3>4, <4>1, <4>2 DEF Sees
    <3> QED
      BY <1>1, <2>1, <3>1, <3>2, <3>3, <3>4, Work, HolderMoves DEF UnderLock
  <2> QED
    BY <2>3, <2>4
<1>5. CASE RemoveEntry(c)
  <2>1. /\ t.step = "unlist" /\ list' = Without(t.view, t.mod) /\ Finish(c) /\ UNCHANGED <<zips, locked>>
    BY <1>5 DEF RemoveEntry, Working
  <2>2. list' \in Entries /\ Listed(list') = Listed(t.view) \ {t.mod}
    BY <1>1, <2>1, Work, WithoutIs
  <2>3. ASSUME ~spoiled PROVE Agree(zips', list')
    <3>1. t.view = list /\ AgreeBut(t.mod, zips, list) /\ \A f \in zips : ModOf[f] # t.mod
      BY <1>1, <2>1, <2>3, Work DEF Sees
    <3> QED
      BY <2>1, <2>2, <3>1 DEF Agree, AgreeBut, Alone
  <2> QED
    BY <1>1, <2>1, <2>2, <2>3, Work, Ends
<1> QED
  BY <1>2, <1>3, <1>4, <1>5

LEMMA ClearingKeeps ==
    ASSUME ModsInv, NEW c \in Admins, ClearDirectory(c) \/ FillDirectory(c) PROVE ModsInv'
<1> DEFINE t == task[c]
<1>1. /\ lifecycle = c /\ CountersTyped' /\ UNCHANGED <<locked, spoiled>>
  BY Work DEF ClearDirectory, FillDirectory, Working, Counters, modCounters, CountersTyped
<1>2. CASE ClearDirectory(c)
  <2> DEFINE u == [t EXCEPT !.step = "fill"]
  <2>1. /\ task' = [task EXCEPT ![c] = u] /\ lifecycle' = lifecycle /\ zips' = {} /\ list' = NoList
        /\ t.step = "clear"
    BY <1>2 DEF ClearDirectory, Step, Working, ModsInv, ModsTyped
  <2>2. u \in TaskRecords /\ u.step = "fill" /\ u.op = t.op /\ t.op = "deleteAll" /\ u.open = NoFile
    BY <1>1, <2>1, Work DEF TaskRecords, UnderLock, OpOf
  <2> HIDE DEF u
  <2>3. OpOf(u) /\ Handled(u, zips', locked') /\ Sees(u, zips', list', locked')
    BY <2>1, <2>2 DEF OpOf, Handled, Sees, Asked
  <2> QED
    BY <1>1, <2>1, <2>2, <2>3, Work, HolderMoves DEF UnderLock
<1>3. CASE FillDirectory(c)
  <2>1. t.step = "fill" /\ list' = BaseOnly /\ Finish(c) /\ zips' = zips
    BY <1>3 DEF FillDirectory, Working
  <2>2. ~spoiled => zips = {}
    BY <1>1, <2>1, Work DEF Sees
  <2>3. ~spoiled' => Agree(zips', list')
    BY <1>1, <2>1, <2>2, BaseIs DEF Agree, Alone
  <2> QED
    BY <1>1, <2>1, <2>3, BaseIs, Work, Ends
<1> QED
  BY <1>2, <1>3

LEMMA StageKeepsMods ==
    ASSUME ModsInv, NEW c \in Admins, NEW f \in ModFiles, Stage(c, f) PROVE ModsInv'
<1> DEFINE t == task[c]
           u == [t EXCEPT !.step = "activate", !.mod = ModOf[f], !.files = t.files \ {f},
                          !.old = Of(ModOf[f], t.infos) \ {f}]
<1>1. /\ lifecycle = c /\ CountersTyped' /\ t.step = "stage" /\ UNCHANGED <<zips, list, lifecycle, spoiled>>
      /\ locked' = f
  BY Work DEF Stage, Working, Counters, modCounters, CountersTyped
<1>2. task' = [task EXCEPT ![c] = u]
  BY DEF Stage, ModsInv, ModsTyped
<1>3. t \in TaskRecords /\ t.op \in {"place", "install"} /\ t.open = NoFile /\ ModOf[f] \in Mods
  BY <1>1, Work DEF OpOf, Mods
<1>4. /\ u \in TaskRecords /\ u.step = "activate" /\ u.op = t.op /\ u.open = NoFile
      /\ u.mod = ModOf[f] /\ u.view = t.view /\ u.old = Of(ModOf[f], t.infos) \ {f}
  BY <1>3 DEF TaskRecords, UnderLock, Of
<1> HIDE DEF u
<1>5. OpOf(u)
  BY <1>3, <1>4 DEF OpOf, Asked
<1>6. Handled(u, zips', locked')
  BY <1>1, <1>4 DEF Handled, Of
<1>7. ASSUME ~spoiled PROVE Sees(u, zips', list', locked')
  <2>1. t.view = list /\ Agree(zips, list) /\ t.infos = zips
    BY <1>1, <1>7, Work DEF Sees
  <2> QED
    BY <1>1, <1>4, <2>1 DEF Sees, Of
<1> HIDE DEF t
<1>8. u.step \in UnderLock
  BY <1>4 DEF UnderLock
<1>9. /\ zips' \in SUBSET ModFiles /\ list' \in Entries \cup {NoList} /\ spoiled' \in BOOLEAN
      /\ locked' \in ModFiles \cup {NoFile}
  BY <1>1, Work
<1> QED
  BY <1>1, <1>2, <1>4, <1>5, <1>6, <1>7, <1>8, <1>9, HolderMoves

LEMMA ActivateKeeps ==
    ASSUME ModsInv, NEW c \in Admins, Activate(c) PROVE ModsInv'
<1> DEFINE t == task[c]
           u == [t EXCEPT !.step = "entry", !.infos = zips']
<1>1. /\ lifecycle = c /\ CountersTyped' /\ t.step = "activate" /\ UNCHANGED <<list, lifecycle, spoiled>>
      /\ zips' = zips \cup {locked} /\ locked' = NoFile
  BY Work DEF Activate, Working, Counters, modCounters, CountersTyped
<1>2. task' = [task EXCEPT ![c] = u]
  BY DEF Activate, ModsInv, ModsTyped
<1>3. /\ t \in TaskRecords /\ t.op \in {"place", "install"} /\ t.open = NoFile
      /\ locked \in ModFiles /\ ModOf[locked] = t.mod /\ locked \notin t.old
      /\ \A g \in t.old : ModOf[g] = t.mod
  BY <1>1, Work DEF OpOf, Handled
<1>4. zips' \in SUBSET ModFiles
  BY <1>1, <1>3, Work
<1>5. /\ u \in TaskRecords /\ u.step = "entry" /\ u.op = t.op /\ u.open = NoFile
      /\ u.mod = t.mod /\ u.view = t.view /\ u.old = t.old
  BY <1>3, <1>4 DEF TaskRecords, UnderLock
<1> HIDE DEF u
<1>6. OpOf(u)
  BY <1>3, <1>5 DEF OpOf, Asked
<1>7. Handled(u, zips', locked')
  BY <1>1, <1>3, <1>5 DEF Handled
<1>8. ASSUME ~spoiled PROVE Sees(u, zips', list', locked')
  <2>1. t.view = list /\ Agree(zips, list) /\ t.old = {g \in zips : ModOf[g] = t.mod} \ {locked}
    BY <1>1, <1>8, Work DEF Sees
  <2>2. AgreeBut(t.mod, zips', list)
    BY <1>1, <1>3, <2>1 DEF Agree, AgreeBut, Alone
  <2>3. Alone(Of(t.mod, zips') \ t.old)
    BY <1>1, <1>3, <2>1 DEF Alone, Of
  <2> QED
    BY <1>1, <1>5, <2>1, <2>2, <2>3 DEF Sees
<1>9. /\ u.step \in UnderLock /\ spoiled' \in BOOLEAN /\ list' \in Entries \cup {NoList}
      /\ locked' \in ModFiles \cup {NoFile}
  BY <1>1, <1>5, Work DEF UnderLock
<1> HIDE DEF t
<1> QED
  BY <1>1, <1>2, <1>4, <1>5, <1>6, <1>7, <1>8, <1>9, HolderMoves

LEMMA AddEntryKeeps ==
    ASSUME ModsInv, NEW c \in Admins, AddEntry(c) PROVE ModsInv'
<1> DEFINE t == task[c]
           view == IF t.mod \in DOMAIN t.view THEN t.view ELSE With(t.view, t.mod, TRUE)
           u == [t EXCEPT !.step = "old", !.view = view]
<1>1. /\ lifecycle = c /\ CountersTyped' /\ t.step = "entry" /\ UNCHANGED <<zips, lifecycle, locked, spoiled>>
      /\ IF t.mod \in DOMAIN t.view THEN list' = list ELSE list' = view
  BY Work DEF AddEntry, Working, Counters, modCounters, CountersTyped
<1>2. task' = [task EXCEPT ![c] = u]
  <2>1. t \in TaskRecords /\ task \in [Admins -> TaskRecords]
    BY <1>1, Work DEF ModsInv, ModsTyped
  <2>2. CASE t.mod \in DOMAIN t.view
    <3>1. task' = [task EXCEPT ![c] = [t EXCEPT !.step = "old"]]
      BY <2>1, <2>2 DEF AddEntry, Step
    <3>2. [t EXCEPT !.step = "old"] = u
      BY <2>1, <2>2 DEF TaskRecords
    <3> QED
      BY <3>1, <3>2
  <2>3. CASE t.mod \notin DOMAIN t.view
    BY <2>1, <2>3 DEF AddEntry
  <2> QED
    BY <2>2, <2>3
<1>3. /\ t \in TaskRecords /\ t.op \in {"place", "install"} /\ t.open = NoFile
      /\ Handled(t, zips, locked)
  BY <1>1, Work DEF OpOf
<1>4. /\ view \in Entries /\ t.mod \in DOMAIN view
      /\ Listed(view) = Listed(t.view) \cup ({t.mod} \ {"base"})
  <2>1. CASE t.mod \in DOMAIN t.view
    BY <1>1, <2>1, Work, ModListConstants DEF Listed
  <2>2. CASE t.mod \notin DOMAIN t.view
    <3>1. view = With(t.view, t.mod, TRUE) /\ t.view \in Entries /\ t.mod \in Mods \cup {"base"}
      BY <1>1, <2>2, Work
    <3>2. t.mod \in DOMAIN t.view \cup {t.mod}
      OBVIOUS
    <3> HIDE DEF t, view
    <3> QED
      BY <3>1, <3>2, WithIs
  <2> QED
    BY <2>1, <2>2
<1>5. /\ u \in TaskRecords /\ u.step = "old" /\ u.op = t.op /\ u.open = NoFile
      /\ u.mod = t.mod /\ u.view = view /\ u.old = t.old
  BY <1>3, <1>4 DEF TaskRecords, UnderLock
<1>6. list' \in Entries \cup {NoList}
  BY <1>1, <1>4, Work
<1>7. ~spoiled => /\ list' = view /\ AgreeBut(t.mod, zips, list) /\ Alone(Of(t.mod, zips) \ t.old)
                  /\ t.view = list
  BY <1>1, Work DEF Sees
<1> HIDE DEF u, view
<1>8. OpOf(u)
  BY <1>3, <1>4, <1>5 DEF OpOf, Asked
<1>9. Handled(u, zips', locked')
  BY <1>1, <1>3, <1>5 DEF Handled
<1>10. ASSUME ~spoiled PROVE Sees(u, zips', list', locked')
  <2>1. AgreeBut(t.mod, zips', list')
    BY <1>1, <1>4, <1>7, <1>10 DEF AgreeBut
  <2> QED
    BY <1>1, <1>5, <1>7, <1>10, <2>1 DEF Sees
<1>11. /\ u.step \in UnderLock /\ spoiled' \in BOOLEAN /\ zips' \in SUBSET ModFiles
       /\ locked' \in ModFiles \cup {NoFile}
  BY <1>1, <1>5, Work DEF UnderLock
<1> HIDE DEF t
<1> QED
  BY <1>1, <1>2, <1>5, <1>6, <1>8, <1>9, <1>10, <1>11, HolderMoves

LEMMA OldKeeps ==
    ASSUME ModsInv, NEW c \in Admins, (\E f \in ModFiles : LockOld(c, f)) \/ RemoveOld(c)
    PROVE  ModsInv'
<1> DEFINE t == task[c]
<1>1. /\ lifecycle = c /\ CountersTyped' /\ UNCHANGED <<list, lifecycle, spoiled>>
      /\ t.step \in {"old", "removeOld"}
  BY Work DEF LockOld, RemoveOld, Working, Counters, modCounters, CountersTyped
<1>2. /\ t \in TaskRecords /\ t.op \in {"place", "install"} /\ t.open = NoFile
      /\ t.mod \in DOMAIN t.view /\ Handled(t, zips, locked)
      /\ ~spoiled => t.view = list /\ AgreeBut(t.mod, zips, list)
  BY <1>1, Work DEF OpOf, Sees
<1>3. ASSUME NEW f \in ModFiles, LockOld(c, f) PROVE ModsInv'
  <2> DEFINE u == [t EXCEPT !.step = "removeOld", !.old = t.old \ {f}]
  <2>1. /\ task' = [task EXCEPT ![c] = u] /\ zips' = zips /\ locked' = f /\ f \in t.old /\ t.step = "old"
    BY <1>3 DEF LockOld, Working, ModsInv, ModsTyped
  <2>2. /\ u \in TaskRecords /\ u.step = "removeOld" /\ u.op = t.op /\ u.open = NoFile
        /\ u.mod = t.mod /\ u.view = t.view /\ u.old = t.old \ {f}
    BY <1>2 DEF TaskRecords, UnderLock
  <2> HIDE DEF u
  <2>3. OpOf(u) /\ Handled(u, zips', locked')
    BY <1>2, <2>1, <2>2 DEF OpOf, Handled, Asked
  <2>4. ASSUME ~spoiled PROVE Sees(u, zips', list', locked')
    <3>1. Alone(Of(t.mod, zips) \ t.old)
      BY <1>1, <2>1, <2>4, Work DEF Sees
    <3>2. Of(t.mod, zips) \ (u.old \cup {f}) = Of(t.mod, zips) \ t.old
      BY <2>1, <2>2
    <3> QED
      BY <1>1, <1>2, <2>1, <2>2, <2>4, <3>1, <3>2 DEF Sees
  <2> QED
    BY <1>1, <2>1, <2>2, <2>3, <2>4, Work, HolderMoves DEF UnderLock
<1>4. CASE RemoveOld(c)
  <2> DEFINE u == [t EXCEPT !.step = "old"]
  <2>1. /\ task' = [task EXCEPT ![c] = u] /\ zips' = zips \ {locked} /\ locked' = NoFile
        /\ t.step = "removeOld"
    BY <1>4 DEF RemoveOld, Step, Working, ModsInv, ModsTyped
  <2>2. /\ u \in TaskRecords /\ u.step = "old" /\ u.op = t.op /\ u.open = NoFile
        /\ u.mod = t.mod /\ u.view = t.view /\ u.old = t.old
    BY <1>2 DEF TaskRecords, UnderLock
  <2> HIDE DEF u
  <2>3. OpOf(u) /\ Handled(u, zips', locked') /\ ModOf[locked] = t.mod
    BY <1>2, <2>1, <2>2 DEF OpOf, Handled, Asked
  <2>4. ASSUME ~spoiled PROVE Sees(u, zips', list', locked')
    <3>1. Alone(Of(t.mod, zips) \ (t.old \cup {locked}))
      BY <1>1, <2>1, <2>4, Work DEF Sees
    <3>2. Of(t.mod, zips') \ u.old = Of(t.mod, zips) \ (t.old \cup {locked})
      BY <2>1, <2>2 DEF Of
    <3>3. AgreeBut(t.mod, zips', list)
      BY <1>2, <2>1, <2>3, <2>4 DEF AgreeBut
    <3> QED
      BY <1>1, <1>2, <2>2, <2>4, <3>1, <3>2, <3>3 DEF Sees
  <2> QED
    BY <1>1, <2>1, <2>2, <2>3, <2>4, Work, HolderMoves DEF UnderLock
<1> QED
  BY <1>3, <1>4

LEMMA PlacedKeepsMods == ASSUME ModsInv, NEW c \in Admins, Placed(c) PROVE ModsInv'
<1> DEFINE t == task[c]
<1>1. /\ lifecycle = c /\ CountersTyped' /\ UNCHANGED <<zips, list, locked, spoiled>>
      /\ t.step = "old" /\ t.old = {}
  BY Work DEF Placed, Working, Counters, modCounters, CountersTyped
<1>2. /\ t.op \in {"place", "install"} /\ t.open = NoFile /\ t.mod \in DOMAIN t.view
      /\ \E g \in zips : ModOf[g] = t.mod
  BY <1>1, Work DEF OpOf, Handled
<1>3. ASSUME ~spoiled PROVE Agree(zips, list)
  <2>1. t.view = list /\ AgreeBut(t.mod, zips, list) /\ Alone(Of(t.mod, zips))
    <3>1. /\ t.view = list /\ AgreeBut(t.mod, zips, list)
          /\ Alone(Of(t.mod, zips) \ t.old)
      BY <1>1, <1>3, Work DEF Sees
    <3>2. Of(t.mod, zips) \ t.old = Of(t.mod, zips)
      BY <1>1
    <3> QED
      BY <3>1, <3>2
  <2>2. t.mod \in Mods /\ (t.mod # "base" => t.mod \in Listed(list))
    BY <1>1, <1>2, <2>1, Work, ModListConstants DEF Listed, Mods
  <2>3. Alone(zips)
    BY <2>1 DEF Alone, AgreeBut, Of
  <2> QED
    BY <1>2, <2>1, <2>2, <2>3 DEF Agree, AgreeBut
<1>4. CASE t.op = "place"
  BY <1>1, <1>3, <1>4, Work, Ends DEF Placed
<1>5. CASE t.op = "install"
  <2> DEFINE u == [t EXCEPT !.step = "enable", !.infos = zips]
  <2>1. task' = [task EXCEPT ![c] = u] /\ lifecycle' = NoAdmin
    BY <1>5 DEF Placed, ModsInv, ModsTyped
  <2>2. /\ u \in TaskRecords /\ u.step = "enable" /\ u.op = "install" /\ u.open = NoFile
        /\ u.mod = t.mod /\ u.view = t.view
    BY <1>1, <1>2, <1>5, Work DEF TaskRecords, NotLocked
  <2> HIDE DEF u
  <2>3. OpOf(u) /\ u.step \in NotLocked
    BY <1>2, <2>2 DEF OpOf, NotLocked, Asked
  <2> QED
    BY <1>1, <1>3, <2>1, <2>2, <2>3, Work, GivesBack
<1> QED
  BY <1>2, <1>4, <1>5

-----------------------------------------------------------------------------
(* Failures, and the theorems.                                             *)

LEMMA NotHalfDone ==
    ASSUME ModsInv, NEW c \in Admins, lifecycle = c, ~spoiled, ~HalfDone(c) PROVE Agree(zips, list)
BY Work DEF Sees, UnderLock, HalfDone

LEMMA StepFailsKeepsMods == ASSUME ModsInv, NEW c \in Admins, StepFails(c) PROVE ModsInv'
<1>1. /\ lifecycle = c /\ Finish(c) /\ UNCHANGED <<zips, list>> /\ locked' = NoFile
      /\ spoiled' = (spoiled \/ HalfDone(c))
  BY DEF StepFails, Spoil
<1>2. CountersTyped'
  BY ModListConstants DEF StepFails, CountersTyped, ModsInv, ModsTyped
<1>3. ~spoiled' => Agree(zips', list')
  BY <1>1, NotHalfDone
<1>4. spoiled' \in BOOLEAN
  BY <1>1, Work DEF HalfDone
<1> QED
  BY <1>1, <1>2, <1>3, <1>4, Work, Ends

LEMMA ManagerStopsKeeps == ASSUME ModsInv, ManagerStops PROVE ModsInv'
<1>1. /\ task' = [c \in Admins |-> NoTask] /\ lifecycle' = NoAdmin /\ locked' = NoFile
      /\ spoiled' = (spoiled \/ \E c \in Admins : HalfDone(c)) /\ UNCHANGED <<zips, list>>
  BY DEF ManagerStops, Spoil
<1>2. CountersTyped'
  BY ModListConstants DEF ManagerStops, CountersTyped, ModsInv, ModsTyped
<1>3. ~spoiled' => Agree(zips', list')
  <2>1. lifecycle = NoAdmin /\ ~spoiled => Agree(zips, list)
    BY DEF ModsInv, FreeAgrees
  <2>2. lifecycle \in Admins \cup {NoAdmin}
    BY DEF ModsInv, ModsTyped
  <2> QED
    BY <1>1, <2>1, <2>2, NotHalfDone
<1>4. spoiled' \in BOOLEAN
  BY <1>1 DEF ModsInv, ModsTyped
<1>5. ModsTyped'
  BY <1>1, <1>2, <1>4, IdleTask DEF ModsInv, ModsTyped, CountersTyped
<1>6. ASSUME NEW c \in Admins PROVE Ordered(c)'
  <2>1. task'[c] = NoTask /\ NoTask.step \notin UnderLock /\ lifecycle' # c
    BY <1>1, IdleTask, ModListConstants DEF UnderLock, NotLocked
  <2>2. Handled(NoTask, zips', locked')
    BY IdleTask DEF Handled, NotLocked
  <2> QED
    BY <2>1, <2>2, IdleTask DEF Ordered
<1> QED
  BY <1>1, <1>3, <1>5, <1>6 DEF ModsInv, FreeAgrees

LEMMA ModsKeep == ModsInv /\ [ModListNext]_modVars => ModsInv'
<1> SUFFICES ASSUME ModsInv, [ModListNext]_modVars PROVE ModsInv'
  OBVIOUS
<1>1. CASE UNCHANGED modVars
  BY <1>1 DEF modVars, modCounters, ModsInv, ModsTyped, Ordered, FreeAgrees
<1>2. ASSUME NEW c \in Admins, Changing(c) PROVE ModsInv'
  BY <1>2, WritesKeep, DeletingKeeps, ClearingKeeps, StageKeepsMods, ActivateKeeps, AddEntryKeeps, OldKeeps,
     PlacedKeepsMods DEF Changing
<1> QED
  BY <1>1, <1>2, BeginKeepsMods, ReadingKeeps, AdmitKeeps, ServerActiveKeeps, StepFailsKeepsMods,
     ManagerStopsKeeps DEF ModListNext

\* The state of the mods directory and of the requests on it has its type.
THEOREM ModListTypeCorrect == ModListSpec => []ModListTypeOK
<1>1. ModsInv => ModListTypeOK
  BY DEF ModsInv, ModsTyped, ModListTypeOK, TaskRecords
<1> QED
  BY <1>1, ModsStart, ModsKeep, PTL DEF ModListSpec

\* The last archive of a mod goes only when a deletion asked for it.
LEMMA ArchivesLeave ==
    ASSUME ModsInv, ModListNext, NEW m \in Mods, HasArchive(m), ~HasArchive(m)'
    PROVE  \E c \in Admins : \/ Doing(c, "delete", "remove") /\ task[c].mod = m
                            \/ Doing(c, "deleteAll", "clear")
<1>1. PICK f \in zips : ModOf[f] = m /\ f \notin zips'
  BY DEF HasArchive, Of
<1>2. \A g \in zips' : ModOf[g] # m
  BY DEF HasArchive, Of
<1>3. PICK c \in Admins : RemoveArchive(c) \/ ClearDirectory(c) \/ RemoveOld(c)
  BY <1>1 DEF ModListNext, Reading, Changing, Begin, ReadList, CreateList, ReadDirectory, OpenArchive,
              CloseArchive, ReadDone, Admit, ServerActive, Toggle, EnableInstalled, SaveModConfiguration,
              LockDeleted, NothingToDelete, RemoveEntry, FillDirectory, Stage, Activate, AddEntry, LockOld,
              Placed, StepFails, ManagerStops
<1>4. lifecycle = c
  BY <1>3 DEF RemoveArchive, ClearDirectory, RemoveOld, Working
<1>5. CASE RemoveArchive(c)
  <2>1. task[c].step = "remove" /\ f = locked
    BY <1>1, <1>5 DEF RemoveArchive, Working
  <2>2. task[c].op = "delete" /\ ModOf[locked] = task[c].mod
    BY <1>4, <2>1, Work DEF OpOf, Handled
  <2> QED
    BY <1>1, <2>1, <2>2 DEF Doing
<1>6. CASE ClearDirectory(c)
  <2>1. task[c].step = "clear"
    BY <1>6 DEF ClearDirectory, Working
  <2> QED
    BY <1>4, <2>1, Work DEF OpOf, Doing
<1>7. CASE RemoveOld(c)
  <2>1. task[c].step = "removeOld" /\ zips' = zips \ {locked}
    BY <1>7 DEF RemoveOld, Working
  <2>2. ModOf[locked] = task[c].mod /\ \E g \in zips : ModOf[g] = task[c].mod /\ g # locked
    BY <1>4, <2>1, Work DEF Handled
  <2> QED
    BY <1>1, <1>2, <2>1, <2>2
<1> QED
  BY <1>3, <1>5, <1>6, <1>7

SameEntries(n) ==
    \A m \in (Mods \cup {"base"}) \ {n} :
        /\ m \in DOMAIN list <=> m \in DOMAIN list'
        /\ m \in DOMAIN list => list[m] = list'[m]

\* A request that was not overtaken leaves the entries of the other mods alone.
LEMMA OthersStay ==
    ASSUME ModsInv, ModListNext, NEW c \in Admins, lifecycle = c, ~spoiled', list # list',
           task[c].op \in {"toggle", "delete", "place", "install"}
    PROVE  SameEntries(task[c].mod)
<1>1. ~spoiled
  <2>1. \A d \in Admins : Reading(d) => (spoiled => spoiled')
    BY DEF Reading, ReadList, CreateList, ReadDirectory, OpenArchive, CloseArchive, ReadDone, Spoil
  <2>2. \A d \in Admins : Changing(d) => (spoiled => spoiled')
    BY DEF Changing, Toggle, EnableInstalled, SaveModConfiguration, LockDeleted, NothingToDelete,
           RemoveArchive, RemoveEntry, ClearDirectory, FillDirectory, Stage, Activate, AddEntry, LockOld,
           RemoveOld, Placed, Spoil
  <2>3. \A d \in Admins : Admit(d) \/ ServerActive(d) \/ StepFails(d) => (spoiled => spoiled')
    BY DEF Admit, ServerActive, StepFails, Spoil
  <2>4. \A d \in Admins, r \in Requests : Begin(d, r) => (spoiled => spoiled')
    BY DEF Begin
  <2>5. ManagerStops => (spoiled => spoiled')
    BY DEF ManagerStops, Spoil
  <2> QED
    BY <2>1, <2>2, <2>3, <2>4, <2>5 DEF ModListNext
<1>2. PICK d \in Admins :
        \/ CreateList(d) \/ Toggle(d) \/ EnableInstalled(d) \/ (\E l \in ModLists : SaveModConfiguration(d, l))
        \/ RemoveEntry(d) \/ ClearDirectory(d) \/ FillDirectory(d) \/ AddEntry(d)
  BY DEF ModListNext, Reading, Changing, Begin, ReadList, ReadDirectory, OpenArchive,
         CloseArchive, ReadDone, Admit, ServerActive, LockDeleted, NothingToDelete, RemoveArchive, Stage,
         Activate, LockOld, RemoveOld, Placed, StepFails, ManagerStops
<1>3. task[c].view = list /\ list \in Entries /\ task[c].mod \in Mods \cup {"base"}
  <2>1. task[c].step \notin {"clear", "fill"}
    BY Work DEF OpOf
  <2> QED
    BY <1>1, <2>1, Work DEF Sees
<1>4. ~CreateList(d)
  BY <1>3, ModListConstants DEF CreateList, Spoil
<1>5. d = c
  BY <1>2, <1>4 DEF Toggle, EnableInstalled, SaveModConfiguration, RemoveEntry, ClearDirectory,
                    FillDirectory, AddEntry, Working
<1>6. ~ClearDirectory(d) /\ ~FillDirectory(d) /\ \A l \in ModLists : ~SaveModConfiguration(d, l)
  BY <1>5, Work DEF ClearDirectory, FillDirectory, SaveModConfiguration, Working, OpOf
<1>7. CASE Toggle(d)
  <2>1. list' = With(list, task[c].mod, ~list[task[c].mod])
    BY <1>3, <1>5, <1>7 DEF Toggle
  <2> QED
    BY <2>1 DEF With, SameEntries
<1>8. CASE EnableInstalled(d) \/ AddEntry(d)
  <2>1. list' = With(list, task[c].mod, TRUE)
    BY <1>3, <1>5, <1>8 DEF EnableInstalled, AddEntry
  <2> QED
    BY <2>1 DEF With, SameEntries
<1>9. CASE RemoveEntry(d)
  <2>1. list' = Without(list, task[c].mod)
    BY <1>3, <1>5, <1>9 DEF RemoveEntry
  <2> QED
    BY <2>1 DEF Without, SameEntries
<1> QED
  BY <1>2, <1>4, <1>6, <1>7, <1>8, <1>9

\* Whatever requests overlap, fail or are cut short: the archives of a mod go only when that was
\* asked, a request that was not overtaken changes the entries of its mod only, and unless one was
\* overtaken or cut short the list has an entry for each mod that is there (mod_modSimple.go:150).
THEOREM ModsOnlyAsAsked == ModListSpec => OnlyAsked
<1>1. ModsInv => ListAgrees
  <2> SUFFICES ASSUME ModsInv, ~spoiled, \A c \in Admins : task[c].step = "idle"
               PROVE  /\ {m \in Mods \ {"base"} : HasArchive(m)}
                            = IF list = NoList THEN {} ELSE DOMAIN list \ {"base"}
                      /\ \A m \in Mods : Cardinality(Of(m, zips)) <= 1
    BY DEF ListAgrees
  <2>1. lifecycle = NoAdmin
    BY HolderHas DEF ModsInv, ModsTyped, UnderLock
  <2>2. Agree(zips, list) /\ zips \in SUBSET ModFiles
    BY <2>1 DEF ModsInv, FreeAgrees, ModsTyped
  <2>3. \A m \in Mods : Cardinality(Of(m, zips)) <= 1
    BY <2>2, OneArchive DEF Agree
  <2>4. {m \in Mods \ {"base"} : HasArchive(m)} = Listed(list)
    BY <2>2 DEF Agree, HasArchive, Of, Listed
  <2> QED
    BY <2>3, <2>4 DEF Listed
<1> DEFINE Archives == \A m \in Mods : HasArchive(m) /\ ~HasArchive(m)' =>
                          \E c \in Admins : \/ Doing(c, "delete", "remove") /\ task[c].mod = m
                                           \/ Doing(c, "deleteAll", "clear")
           Others == \A c \in Admins : lifecycle = c /\ ~spoiled' /\ list # list'
                            /\ task[c].op \in {"toggle", "delete", "place", "install"} =>
                        \A m \in (Mods \cup {"base"}) \ {task[c].mod} :
                            /\ m \in DOMAIN list <=> m \in DOMAIN list'
                            /\ m \in DOMAIN list => list[m] = list'[m]
<1>2. ModsInv /\ [ModListNext]_modVars => [Archives]_modVars
  BY ArchivesLeave
<1>3. ModsInv /\ [ModListNext]_modVars => [Others]_modVars
  BY OthersStay DEF SameEntries
<1> QED
  BY <1>1, <1>2, <1>3, ModsStart, ModsKeep, PTL DEF ModListSpec, OnlyAsked, ArchivesKept, OthersKept

-----------------------------------------------------------------------------
(* Versions: among finitely many there is a newest.                        *)

LEMMA NewerParts ==
    ASSUME NEW v \in Version, NEW w \in Version
    PROVE  Greater(w, v) <=>
             \/ w[1] > v[1]
             \/ w[1] = v[1] /\ w[2] > v[2]
             \/ w[1] = v[1] /\ w[2] = v[2] /\ w[3] > v[3]
             \/ w[1] = v[1] /\ w[2] = v[2] /\ w[3] = v[3] /\ w[4] > v[4]
<1>1. \A i \in 1..4 : v[i] \in Nat /\ w[i] \in Nat
  BY DEF Version
<1>2. v = w <=> v[1] = w[1] /\ v[2] = w[2] /\ v[3] = w[3] /\ v[4] = w[4]
  <2>1. (\A i \in 1..4 : v[i] = w[i]) => v = w
    BY DEF Version
  <2>2. \A i \in 1..4 : i = 1 \/ i = 2 \/ i = 3 \/ i = 4
    OBVIOUS
  <2> QED
    BY <2>1, <2>2
<1>3. Less(w, v) <=>
        \/ w[1] < v[1]
        \/ w[1] = v[1] /\ w[2] < v[2]
        \/ w[1] = v[1] /\ w[2] = v[2] /\ w[3] < v[3]
        \/ w[1] = v[1] /\ w[2] = v[2] /\ w[3] = v[3] /\ w[4] < v[4]
  <2> DEFINE Before(i) == w[i] < v[i] /\ \A j \in 1..4 : j < i => w[j] = v[j]
  <2>1. Less(w, v) <=> Before(1) \/ Before(2) \/ Before(3) \/ Before(4)
    BY DEF Less
  <2>2. /\ Before(1) <=> w[1] < v[1]
        /\ Before(2) <=> w[1] = v[1] /\ w[2] < v[2]
        /\ Before(3) <=> w[1] = v[1] /\ w[2] = v[2] /\ w[3] < v[3]
        /\ Before(4) <=> w[1] = v[1] /\ w[2] = v[2] /\ w[3] = v[3] /\ w[4] < v[4]
    OBVIOUS
  <2> HIDE DEF Before
  <2> QED
    BY <2>1, <2>2
<1>4. /\ v[1] \in Nat /\ v[2] \in Nat /\ v[3] \in Nat /\ v[4] \in Nat
      /\ w[1] \in Nat /\ w[2] \in Nat /\ w[3] \in Nat /\ w[4] \in Nat
  BY <1>1
<1> QED
  BY <1>2, <1>3, <1>4 DEF Greater

LEMMA NewerOrder ==
    ASSUME NEW u \in Version, NEW v \in Version, NEW w \in Version
    PROVE  ~Greater(v, v) /\ (Greater(w, v) /\ Greater(v, u) => Greater(w, u))
<1>1. /\ u[1] \in Nat /\ u[2] \in Nat /\ u[3] \in Nat /\ u[4] \in Nat
      /\ v[1] \in Nat /\ v[2] \in Nat /\ v[3] \in Nat /\ v[4] \in Nat
      /\ w[1] \in Nat /\ w[2] \in Nat /\ w[3] \in Nat /\ w[4] \in Nat
  BY DEF Version
<1>2. ~Greater(v, v)
  BY DEF Greater
<1>3. Greater(w, v) /\ Greater(v, u) => Greater(w, u)
  BY <1>1, NewerParts
<1> QED
  BY <1>2, <1>3

\* The sets of newer ones get smaller; one that is not empty has one below it.
LEMMA NewestExists ==
    ASSUME NEW S \in SUBSET Version, IsFiniteSet(S), S # {}
    PROVE  \E v \in S : \A w \in S : ~Greater(w, v)
<1> DEFINE newer(v) == {w \in S : Greater(w, v)}
           T == {newer(v) : v \in S}
           R == StrictSubsetOrdering(S)
<1>1. IsWellFoundedOn(R, FiniteSubsetsOf(S))
  BY FS_StrictSubsetOrderingWellFounded
<1>2. T \subseteq FiniteSubsetsOf(S) /\ T # {}
  <2>1. \A v \in S : newer(v) \subseteq S /\ IsFiniteSet(newer(v))
    BY FS_Subset
  <2> QED
    BY <2>1 DEF FiniteSubsetsOf
<1>3. PICK least \in T : \A t \in T : <<t, least>> \notin R
  <2> HIDE DEF T, R
  <2> QED
    BY <1>1, <1>2, WFMin, Zenon
<1>4. PICK v \in S : least = newer(v)
  OBVIOUS
<1>5. ASSUME NEW w \in S, Greater(w, v) PROVE FALSE
  <2>1. newer(w) \subseteq newer(v) /\ w \in newer(v) /\ w \notin newer(w)
    BY <1>5, NewerOrder
  <2>2. newer(w) \in T /\ newer(w) \subseteq S /\ newer(v) \subseteq S
    OBVIOUS
  <2>3. <<newer(w), newer(v)>> \in R
    BY <2>1, <2>2 DEF StrictSubsetOrdering
  <2> QED
    BY <1>3, <1>4, <2>2, <2>3
<1> QED
  BY <1>5

\* A release is chosen from those that meet every constraint.
LEMMA ChosenMeets ==
    ASSUME NEW releases \in SUBSET Version, IsFiniteSet(releases), NEW constraints,
           ReleasesFor(releases, constraints) # {}, NEW preferred
    PROVE  ChooseRelease(releases, constraints, preferred) \in ReleasesFor(releases, constraints)
<1> DEFINE S == ReleasesFor(releases, constraints)
<1>1. S \in SUBSET Version /\ IsFiniteSet(S)
  BY FS_Subset DEF ReleasesFor
<1>2. \E v \in S : \A w \in S : ~Greater(w, v)
  <2> HIDE DEF S
  <2>1. S # {}
    BY DEF S
  <2> QED
    BY <1>1, <2>1, NewestExists
<1> QED
  BY <1>2 DEF ChooseRelease

-----------------------------------------------------------------------------
(* ModPlan: the inductive invariant.                                       *)

OfMod(p, n) == UNION {p[n][v] : v \in DOMAIN p[n]}
OfPortal(p) == UNION {OfMod(p, n) : n \in DOMAIN p}
OfGame == UNION {BuiltIn[n].dependencies : n \in DOMAIN BuiltIn}
Needed == {RootDependency} \cup OfGame \cup UNION {OfPortal(p) : p \in Portals}
Called == {Root} \cup DOMAIN BuiltIn \cup UNION {DOMAIN p : p \in Portals}
Offered == Called \cup {""}
Frames == [name : Called, version : Version, todo : SUBSET Needed, offered : Offered]

\* A call for the mod still has the dependency to deal with.
Waits(cs, n, d) == \E i \in 1..Len(cs) : cs[i].name = n /\ d \in cs[i].todo

\* A dependency of the mod has been dealt with, for good.
Settled(p, n, d) ==
    /\ d.kind = "required" /\ d.name \notin Ignored =>
          d.name \in DOMAIN p.constraints /\ d \in p.constraints[d.name]
    /\ d.kind = "incompatible" => <<n, d>> \in p.incompatible

\* Nothing that a release needs is forgotten, and nothing that was asked for.
Going(p, cs) ==
    /\ \A x \in p.processed : \A d \in Dependencies(x[1], x[2]) :
          Waits(cs, x[1], d) \/ Settled(p, x[1], d)
    /\ Waits(cs, Root, RootDependency) \/ Settled(p, Root, RootDependency)

\* What is chosen meets what was gathered, and its dependencies were read.
Fits(p) ==
    /\ p = [nodes |-> p.nodes, constraints |-> p.constraints, optional |-> p.optional,
            processed |-> p.processed, incompatible |-> p.incompatible]
    /\ DOMAIN p.constraints = DOMAIN p.nodes
    /\ \A n \in DOMAIN p.nodes :
          /\ Known(n) /\ p.nodes[n] \in Releases(n)
          /\ MatchesAll(p.nodes[n], p.constraints[n])
          /\ <<n, p.nodes[n]>> \in p.processed
    /\ \A n \in DOMAIN p.optional : Known(n)

CallsTyped ==
    /\ calls \in Seq(Frames)
    /\ \A i \in 1..Len(calls) : calls[i].offered = "" \/ Known(calls[i].offered)
    /\ stage = "planning" <=> calls # <<>>

Installing ==
    /\ left \subseteq DOMAIN plan.nodes
    /\ stage \notin {"installing", "failed"} => left = {}
    /\ stage \in {"installing", "installed"} =>
          /\ Conflicts = {}
          /\ \A n \in DOMAIN plan.nodes \ left : Enabled(n) /\ mods[n].version = plan.nodes[n]

PlanInv ==
    /\ PlanTypeOK /\ CallsTyped /\ Fits(plan)
    /\ stage \in {"planning", "planned", "installing", "installed"} => Going(plan, calls)
    /\ \A p \in fallback : Fits(p) /\ Going(p, <<>>)
    /\ Installing

LEMMA PlanInvWorks ==
    ASSUME PlanInv
    PROVE  PlanWorks
<1> USE PlanConstants
<1>1. ASSUME stage \in {"planned", "installing", "installed"}
      PROVE  Going(plan, <<>>)
  BY <1>1 DEF PlanInv, CallsTyped
<1>2. ~Waits(<<>>, Root, RootDependency) /\ \A n, d : ~Waits(<<>>, n, d)
  BY DEF Waits
<1>3. ASSUME stage \in {"planned", "installing", "installed"},
             NEW n \in DOMAIN plan.nodes, NEW d \in Dependencies(n, plan.nodes[n])
      PROVE  Settled(plan, n, d)
  <2>1. <<n, plan.nodes[n]>> \in plan.processed
    BY DEF PlanInv, Fits
  <2> QED
    BY <1>1, <1>2, <1>3, <2>1 DEF Going
<1>4. ASSUME stage \in {"planned", "installing", "installed"}
      PROVE  Root \in DOMAIN plan.nodes /\ plan.nodes[Root] = RootVersion
  <2>1. Settled(plan, Root, RootDependency)
    BY <1>1, <1>2, <1>4 DEF Going
  <2>2. Root \in DOMAIN plan.constraints /\ RootDependency \in plan.constraints[Root]
    BY <2>1 DEF Settled, RootDependency, Ignored, PlanConstants
  <2>3. Root \in DOMAIN plan.nodes /\ Matches(plan.nodes[Root], RootDependency)
    BY <2>2 DEF PlanInv, Fits, MatchesAll
  <2> QED
    BY <2>3 DEF Matches, Compatible, RootDependency, PlanConstants
<1>5. ASSUME stage \in {"planned", "installing", "installed"},
             NEW n \in DOMAIN plan.nodes, NEW d \in Dependencies(n, plan.nodes[n]),
             d.kind = "required", d.name \notin Ignored
      PROVE  d.name \in DOMAIN plan.nodes /\ Matches(plan.nodes[d.name], d)
  <2>1. d.name \in DOMAIN plan.constraints /\ d \in plan.constraints[d.name]
    BY <1>3, <1>5 DEF Settled
  <2> QED
    BY <2>1 DEF PlanInv, Fits, MatchesAll
<1>6. PlanSound
  BY <1>4, <1>5 DEF PlanSound, Required
<1>7. ASSUME stage = "installed", NEW n \in DOMAIN plan.nodes
      PROVE  /\ Enabled(n) /\ mods[n].version = plan.nodes[n]
             /\ \A d \in Dependencies(n, mods[n].version) :
                  /\ d.kind = "required" /\ d.name \notin Ignored =>
                       Enabled(d.name) /\ Matches(mods[d.name].version, d)
                  /\ d.kind = "incompatible" => ~Enabled(d.name)
  <2>1. \A m \in DOMAIN plan.nodes : Enabled(m) /\ mods[m].version = plan.nodes[m]
    BY <1>7 DEF PlanInv, Installing
  <2>2. Conflicts = {}
    BY <1>7 DEF PlanInv, Installing
  <2>3. ASSUME NEW d \in Dependencies(n, plan.nodes[n]), d.kind = "incompatible"
        PROVE  ~Enabled(d.name)
    <3>1. <<n, d>> \in plan.incompatible
      BY <1>3, <1>7, <2>3 DEF Settled
    <3> QED
      BY <2>2, <3>1 DEF Conflicts
  <2> QED
    BY <1>5, <1>7, <2>1, <2>3
<1> QED
  BY <1>6, <1>7 DEF PlanWorks, InstalledWorks

-----------------------------------------------------------------------------
(* What is on offer.                                                       *)

LEMMA NeededShape ==
    \A d \in Needed : DOMAIN d = {"kind", "name", "op", "version"}
<1> USE PlanConstants
<1>1. IsDependency(RootDependency)
  BY DEF IsDependency, RootDependency
<1>2. \A n \in DOMAIN BuiltIn : \A d \in BuiltIn[n].dependencies : IsDependency(d)
  BY DEF PlanConstants
<1>3. \A p \in Portals : \A n \in DOMAIN p : \A v \in DOMAIN p[n] : \A d \in p[n][v] : IsDependency(d)
  BY DEF PlanConstants
<1>4. \A d \in OfGame : IsDependency(d)
  BY <1>2 DEF OfGame
<1>5. \A p \in Portals : \A d \in OfPortal(p) : IsDependency(d)
  BY <1>3 DEF OfPortal, OfMod
<1>6. \A d \in Needed : IsDependency(d)
  BY <1>1, <1>4, <1>5 DEF Needed
<1> QED
  BY <1>6 DEF IsDependency

LEMMA OfferTyped ==
    ASSUME portal \in Portals, NEW n, Known(n)
    PROVE  /\ n \in Called
           /\ Releases(n) \in SUBSET Version /\ IsFiniteSet(Releases(n))
           /\ \A v \in Releases(n) : Dependencies(n, v) \subseteq Needed
<1> USE PlanConstants
<1>1. CASE n \in DOMAIN BuiltIn
  <2>1. Releases(n) = {BuiltIn[n].version} /\ BuiltIn[n].version \in Version
    BY <1>1 DEF Releases, PlanConstants
  <2>2. IsFiniteSet({BuiltIn[n].version})
    BY FS_Singleton
  <2>3. \A v : Dependencies(n, v) \subseteq Needed
    BY <1>1 DEF Dependencies, Needed, OfGame
  <2> QED
    BY <1>1, <2>1, <2>2, <2>3 DEF Called
<1>2. CASE n \notin DOMAIN BuiltIn
  <2>1. n \in DOMAIN portal
    BY <1>2 DEF Known
  <2>2. Releases(n) = DOMAIN portal[n] /\ Releases(n) \subseteq Version /\ IsFiniteSet(Releases(n))
    BY <1>2, <2>1 DEF Releases, PlanConstants
  <2>3. ASSUME NEW v \in Releases(n), NEW d \in Dependencies(n, v) PROVE d \in Needed
    <3>1. v \in DOMAIN portal[n] /\ d \in portal[n][v]
      BY <1>2, <2>2, <2>3 DEF Dependencies
    <3>2. d \in OfMod(portal, n)
      BY <3>1 DEF OfMod
    <3>3. d \in OfPortal(portal)
      BY <2>1, <3>2 DEF OfPortal
    <3> QED
      BY <3>3 DEF Needed
  <2>4. n \in Called
    BY <2>1 DEF Called
  <2> QED
    BY <2>2, <2>3, <2>4
<1> QED
  BY <1>1, <1>2

-----------------------------------------------------------------------------
(* The calls under way.                                                    *)

LEMMA FrontIs ==
    ASSUME NEW S, NEW c \in Seq(S), c # <<>>
    PROVE  /\ SubSeq(c, 1, Len(c) - 1) \in Seq(S) /\ Len(SubSeq(c, 1, Len(c) - 1)) = Len(c) - 1
           /\ \A i \in 1..(Len(c) - 1) : SubSeq(c, 1, Len(c) - 1)[i] = c[i]
<1>1. SubSeq(c, 1, Len(c) - 1) \in Seq(S)
  OBVIOUS
<1>2. Len(SubSeq(c, 1, Len(c) - 1)) = Len(c) - 1
  BY Len(c) \in Nat, Len(c) - 1 \in Nat
<1>3. \A i \in 1..(Len(c) - 1) : SubSeq(c, 1, Len(c) - 1)[i] = c[i]
  OBVIOUS
<1> QED
  BY <1>1, <1>2, <1>3

LEMMA BelowIs ==
    ASSUME calls \in Seq(Frames), calls # <<>>
    PROVE  /\ Below \in Seq(Frames) /\ Len(Below) = Len(calls) - 1
           /\ \A i \in 1..(Len(calls) - 1) : Below[i] = calls[i]
BY FrontIs DEF Below

LEMMA FrameLess ==
    ASSUME NEW t \in Frames, NEW d
    PROVE  /\ [t EXCEPT !.todo = @ \ {d}]
                = [name |-> t.name, version |-> t.version, todo |-> t.todo \ {d}, offered |-> t.offered]
           /\ [t EXCEPT !.todo = @ \ {d}] \in Frames
BY DEF Frames

LEMMA PastIs ==
    ASSUME calls \in Seq(Frames), calls # <<>>, NEW d
    PROVE  /\ Top \in Frames
           /\ Past(d) \in Seq(Frames) /\ Len(Past(d)) = Len(calls) /\ Past(d) # <<>>
           /\ \A i \in 1..Len(calls) :
                 i < Len(calls) => Past(d)[i] = calls[i]
           /\ Past(d)[Len(calls)] = [name |-> Top.name, version |-> Top.version,
                                     todo |-> Top.todo \ {d}, offered |-> Top.offered]
<1> DEFINE top == [name |-> Top.name, version |-> Top.version,
                   todo |-> Top.todo \ {d}, offered |-> Top.offered]
<1>1. Len(calls) \in Nat \ {0} /\ Len(calls) - 1 \in Nat
  OBVIOUS
<1>2. Top \in Frames
  BY <1>1 DEF Top
<1>3. [Top EXCEPT !.todo = @ \ {d}] = top /\ top \in Frames
  <2> HIDE DEF Top
  <2> QED
    BY <1>2, FrameLess
<1>4. Below \in Seq(Frames) /\ Len(Below) = Len(calls) - 1
      /\ \A i \in 1..(Len(calls) - 1) : Below[i] = calls[i]
  BY BelowIs
<1>5. Past(d) = Append(Below, top)
  BY <1>3 DEF Past
<1> HIDE DEF top
<1>6. /\ Past(d) \in Seq(Frames) /\ Len(Past(d)) = Len(calls)
      /\ Past(d)[Len(calls)] = top
      /\ \A i \in 1..(Len(calls) - 1) : Past(d)[i] = Below[i]
  BY <1>1, <1>3, <1>4, <1>5
<1>7. Past(d) # <<>>
  BY <1>1, <1>6
<1> QED
  BY <1>1, <1>2, <1>4, <1>6, <1>7 DEF top

LEMMA PassKeeps ==
    ASSUME calls \in Seq(Frames), calls # <<>>, NEW d, NEW n, NEW e, Waits(calls, n, e)
    PROVE  Waits(Past(d), n, e) \/ (n = Top.name /\ e = d)
<1>1. PICK i \in 1..Len(calls) : calls[i].name = n /\ e \in calls[i].todo
  BY DEF Waits
<1>2. CASE i < Len(calls)
  BY <1>1, <1>2, PastIs DEF Waits
<1>3. CASE i = Len(calls)
  <2>1. /\ Len(Past(d)) = Len(calls) /\ Len(calls) \in 1..Len(Past(d))
        /\ Past(d)[Len(calls)].name = n /\ Past(d)[Len(calls)].todo = Top.todo \ {d}
        /\ n = Top.name /\ e \in Top.todo
    <3>1. calls[Len(calls)] = Top
      BY DEF Top
    <3>2. n = Top.name /\ e \in Top.todo
      BY <1>1, <1>3, <3>1
    <3>3. /\ Len(Past(d)) = Len(calls)
          /\ Past(d)[Len(calls)] = [name |-> Top.name, version |-> Top.version,
                                    todo |-> Top.todo \ {d}, offered |-> Top.offered]
      BY PastIs
    <3> QED
      BY <1>1, <1>3, <3>2, <3>3
  <2> QED
    BY <2>1 DEF Waits
<1> QED
  BY <1>1, <1>2, <1>3

LEMMA PushKeeps ==
    ASSUME NEW cs \in Seq(Frames), NEW f \in Frames
    PROVE  /\ Append(cs, f) \in Seq(Frames) /\ Append(cs, f) # <<>>
           /\ \A n, e : Waits(cs, n, e) => Waits(Append(cs, f), n, e)
           /\ \A e \in f.todo : Waits(Append(cs, f), f.name, e)
           /\ \A i \in 1..Len(Append(cs, f)) : Append(cs, f)[i] = f \/ (i \in 1..Len(cs) /\ Append(cs, f)[i] = cs[i])
<1>1. /\ Append(cs, f) \in Seq(Frames) /\ Len(Append(cs, f)) = Len(cs) + 1 /\ Len(cs) \in Nat
      /\ Append(cs, f)[Len(cs) + 1] = f
      /\ \A i \in 1..Len(cs) : Append(cs, f)[i] = cs[i]
  OBVIOUS
<1> DEFINE a == Append(cs, f)
<1> HIDE DEF a
<1>2. /\ a \in Seq(Frames) /\ Len(a) = Len(cs) + 1 /\ Len(cs) \in Nat
      /\ a[Len(cs) + 1] = f /\ \A i \in 1..Len(cs) : a[i] = cs[i]
  BY <1>1 DEF a
<1>3. \A n, e : Waits(cs, n, e) => Waits(a, n, e)
  BY <1>2 DEF Waits
<1>4. \A e \in f.todo : Waits(a, f.name, e)
  BY <1>2 DEF Waits
<1>5. a # <<>>
  BY <1>2
<1>6. \A i \in 1..Len(a) : a[i] = f \/ (i \in 1..Len(cs) /\ a[i] = cs[i])
  BY <1>2
<1> QED
  BY <1>2, <1>3, <1>4, <1>5, <1>6 DEF a

LEMMA BelowKeeps ==
    ASSUME calls \in Seq(Frames), calls # <<>>, Top.todo = {}
    PROVE  /\ Below \in Seq(Frames) /\ Len(Below) = Len(calls) - 1
           /\ \A n, e : Waits(calls, n, e) => Waits(Below, n, e)
           /\ \A i \in 1..Len(Below) : i \in 1..Len(calls) /\ Below[i] = calls[i]
<1>1. Len(calls) \in Nat \ {0} /\ Len(calls) - 1 \in Nat
  OBVIOUS
<1>2. Below \in Seq(Frames) /\ Len(Below) = Len(calls) - 1
      /\ \A i \in 1..(Len(calls) - 1) : Below[i] = calls[i]
  BY BelowIs
<1>3. \A i \in 1..Len(Below) : i \in 1..Len(calls) /\ Below[i] = calls[i]
  BY <1>1, <1>2
<1>4. ASSUME NEW n, NEW e, Waits(calls, n, e) PROVE Waits(Below, n, e)
  <2>1. PICK i \in 1..Len(calls) : calls[i].name = n /\ e \in calls[i].todo
    BY <1>4 DEF Waits
  <2>2. i # Len(calls)
    BY <2>1 DEF Top
  <2> QED
    BY <1>1, <1>2, <2>1, <2>2 DEF Waits
<1> QED
  BY <1>2, <1>3, <1>4

-----------------------------------------------------------------------------
(* What a step of the planner must show.                                   *)

LEMMA KeepsGoing ==
    ASSUME calls \in Seq(Frames), calls # <<>>, Going(plan, calls), NEW d, NEW q, NEW cs,
           \A n, e : Settled(plan, n, e) => Settled(q, n, e),
           Settled(q, Top.name, d),
           \A n, e : Waits(Past(d), n, e) => Waits(cs, n, e),
           \A x \in q.processed :
              x \in plan.processed \/ \A e \in Dependencies(x[1], x[2]) : Waits(cs, x[1], e)
    PROVE  Going(q, cs)
<1>1. ASSUME NEW n, NEW e, Waits(calls, n, e) \/ Settled(plan, n, e)
      PROVE  Waits(cs, n, e) \/ Settled(q, n, e)
  <2>1. CASE Waits(calls, n, e)
    <3>1. Waits(Past(d), n, e) \/ (n = Top.name /\ e = d)
      BY <2>1, PassKeeps
    <3> QED
      BY <3>1
  <2>2. CASE Settled(plan, n, e)
    BY <2>2
  <2> QED
    BY <1>1, <2>1, <2>2
<1>2. Waits(cs, Root, RootDependency) \/ Settled(q, Root, RootDependency)
  BY <1>1 DEF Going
<1>3. ASSUME NEW x \in q.processed, NEW e \in Dependencies(x[1], x[2])
      PROVE  Waits(cs, x[1], e) \/ Settled(q, x[1], e)
  <2>1. CASE x \in plan.processed
    <3>1. Waits(calls, x[1], e) \/ Settled(plan, x[1], e)
      BY <1>3, <2>1 DEF Going
    <3> QED
      BY <1>1, <3>1
  <2>2. CASE x \notin plan.processed
    BY <1>3, <2>2
  <2> QED
    BY <2>1, <2>2
<1> QED
  BY <1>2, <1>3 DEF Going

LEMMA FitsStill ==
    ASSUME UNCHANGED portal
    PROVE  /\ Fits(plan') => Fits(plan)' 
           /\ (\A p \in fallback : Fits(p)) /\ UNCHANGED fallback => (\A p \in fallback : Fits(p))'
BY DEF Fits, Known, Releases

LEMMA GoingStill ==
    ASSUME UNCHANGED portal
    PROVE  /\ Going(plan', calls') => Going(plan, calls)'
           /\ (\A p \in fallback : Going(p, <<>>)) /\ UNCHANGED fallback
                 => (\A p \in fallback : Going(p, <<>>))'
BY DEF Going, Waits, Settled, Dependencies

LEMMA PlanStep ==
    ASSUME PlanInv, stage = "planning", Planning,
           calls' \in Seq(Frames), calls' # <<>>,
           \A i \in 1..Len(calls') : calls'[i].offered = "" \/ Known(calls'[i].offered),
           Fits(plan'), Going(plan', calls')
    PROVE  PlanInv'
<1> USE DEF Planning
<1>1. Fits(plan)' /\ Going(plan, calls)'
  BY FitsStill, GoingStill
<1>2. (\A p \in fallback : Fits(p) /\ Going(p, <<>>))'
  BY FitsStill, GoingStill DEF PlanInv
<1>3. CallsTyped'
  BY DEF CallsTyped, Known
<1>4. left = {}
  BY DEF PlanInv, Installing
<1>5. Installing'
  BY <1>4 DEF Installing
<1>6. PlanTypeOK'
  BY <1>1, <1>4 DEF PlanInv, PlanTypeOK, Fits
<1> QED
  BY <1>1, <1>2, <1>3, <1>5, <1>6 DEF PlanInv

LEMMA DueFacts ==
    ASSUME PlanInv, NEW d, Due(d)
    PROVE  /\ calls \in Seq(Frames) /\ calls # <<>> /\ stage = "planning"
           /\ Fits(plan) /\ Going(plan, calls) /\ portal \in Portals
           /\ d \in Needed /\ d \in Top.todo
           /\ Past(d) \in Seq(Frames) /\ Past(d) # <<>>
           /\ \A i \in 1..Len(Past(d)) : Past(d)[i].offered = "" \/ Known(Past(d)[i].offered)
<1>1. /\ calls \in Seq(Frames) /\ stage = "planning" /\ calls # <<>> /\ d \in Top.todo
      /\ \A i \in 1..Len(calls) : calls[i].offered = "" \/ Known(calls[i].offered)
  BY DEF PlanInv, CallsTyped, Due
<1>2. d \in Needed
  <2>1. Top.todo \in SUBSET Needed
    BY <1>1, PastIs DEF Frames
  <2> QED
    BY <1>1, <2>1
<1>3. /\ Past(d) \in Seq(Frames) /\ Past(d) # <<>> /\ Len(Past(d)) = Len(calls)
      /\ \A i \in 1..Len(calls) : i < Len(calls) => Past(d)[i] = calls[i]
      /\ Past(d)[Len(calls)].offered = Top.offered
  <2>1. calls \in Seq(Frames) /\ calls # <<>>
    BY <1>1
  <2>2. Past(d)[Len(calls)] = [name |-> Top.name, version |-> Top.version,
                               todo |-> Top.todo \ {d}, offered |-> Top.offered]
    BY <2>1, PastIs
  <2>3. Past(d)[Len(calls)].offered = Top.offered
    BY <2>2
  <2> QED
    BY <2>1, <2>3, PastIs
<1>4. \A i \in 1..Len(Past(d)) : Past(d)[i].offered = calls[i].offered
  <2> TAKE i \in 1..Len(Past(d))
  <2>0. calls \in Seq(Frames)
    BY <1>1
  <2>1. Len(calls) \in Nat
    BY <2>0
  <2>2. CASE i < Len(calls)
    BY <1>3, <2>1, <2>2
  <2>3. CASE i = Len(calls)
    BY <1>3, <2>3 DEF Top
  <2> QED
    BY <1>3, <2>1, <2>2, <2>3
<1>5. \A i \in 1..Len(Past(d)) : Past(d)[i].offered = "" \/ Known(Past(d)[i].offered)
  BY <1>1, <1>3, <1>4
<1> QED
  BY <1>1, <1>2, <1>3, <1>5 DEF PlanInv, PlanTypeOK

\* The innermost call deals with a dependency by noting it, or by nothing.
LEMMA NotedStep ==
    ASSUME PlanInv, NEW d, Due(d), Planning, calls' = Past(d), Fits(plan'),
           plan'.processed = plan.processed,
           \A n, e : Settled(plan, n, e) => Settled(plan', n, e),
           Settled(plan', Top.name, d)
    PROVE  PlanInv'
<1>1. Going(plan', calls')
  <2> DEFINE q == plan'
  <2>1. \A n, e : Waits(Past(d), n, e) => Waits(calls', n, e)
    OBVIOUS
  <2>2. /\ calls \in Seq(Frames) /\ calls # <<>> /\ Going(plan, calls)
        /\ \A n, e : Settled(plan, n, e) => Settled(q, n, e)
        /\ Settled(q, Top.name, d) /\ q.processed = plan.processed
    BY DueFacts
  <2> HIDE DEF q
  <2>3. Going(q, calls')
    BY <2>1, <2>2, KeepsGoing
  <2> QED
    BY <2>3 DEF q
<1> QED
  BY <1>1, DueFacts, PlanStep

\* A release is chosen for the mod, and its dependencies are next.
LEMMA EnterStep ==
    ASSUME PlanInv, NEW d, Due(d), NEW w, NEW o,
           w.name = d.name, Resolvable(w), Enter(w, Past(d), o),
           o = "" \/ (o \in Called /\ Known(o)),
           d.kind = "required" => w = d, d.kind # "incompatible"
    PROVE  PlanInv'
<1> DEFINE n == w.name
           v == Choose(w)
           f == [name |-> n, version |-> v, offered |-> o,
                 todo |-> IF <<n, v>> \in plan.processed THEN {} ELSE Dependencies(n, v)]
           p == [nodes |-> Set(plan.nodes, n, v), constraints |-> Set(plan.constraints, n, Gathered(w)),
                 optional |-> Drop(plan.optional, n), processed |-> plan.processed \cup {<<n, v>>},
                 incompatible |-> plan.incompatible]
<1>1. /\ calls \in Seq(Frames) /\ calls # <<>> /\ stage = "planning"
      /\ Fits(plan) /\ Going(plan, calls) /\ portal \in Portals
      /\ Past(d) \in Seq(Frames) /\ Past(d) # <<>>
      /\ \A i \in 1..Len(Past(d)) : Past(d)[i].offered = "" \/ Known(Past(d)[i].offered)
  BY DueFacts
<1>2. /\ n \in Called /\ Known(n) /\ Releases(n) \in SUBSET Version /\ IsFiniteSet(Releases(n))
      /\ \A r \in Releases(n) : Dependencies(n, r) \subseteq Needed
  BY <1>1, OfferTyped DEF Resolvable
<1>3. v \in Releases(n) /\ MatchesAll(v, Gathered(w))
  <2>1. v \in ReleasesFor(Releases(n), Gathered(w))
    BY <1>2, ChosenMeets DEF Resolvable, Choose
  <2> QED
    BY <2>1 DEF ReleasesFor
<1>4. calls' = Append(Past(d), f) /\ Planning
  BY DEF Enter, Ahead
<1>5. plan' = p
  <2>1. plan = [nodes |-> plan.nodes, constraints |-> plan.constraints, optional |-> plan.optional,
                processed |-> plan.processed, incompatible |-> plan.incompatible]
    BY <1>1 DEF Fits
  <2>2. plan' = [plan EXCEPT !.nodes = Set(@, n, v), !.constraints = Set(@, n, Gathered(w)),
                             !.optional = Drop(@, n), !.processed = @ \cup {<<n, v>>}]
    BY DEF Enter
  <2> HIDE DEF n, v
  <2> QED
    BY <2>1, <2>2
<1>6. f \in Frames
  BY <1>2, <1>3 DEF Frames, Offered
<1> HIDE DEF v
<1>7. Fits(p)
  <2>1. \A m \in DOMAIN p.nodes :
          /\ m \in DOMAIN plan.nodes \/ m = n
          /\ m = n => p.nodes[m] = v /\ p.constraints[m] = Gathered(w)
          /\ m # n => p.nodes[m] = plan.nodes[m] /\ p.constraints[m] = plan.constraints[m]
    BY <1>1 DEF Set, Fits
  <2>2. DOMAIN p.constraints = DOMAIN p.nodes
    BY <1>1 DEF Set, Fits
  <2>3. \A m \in DOMAIN p.optional : Known(m)
    BY <1>1 DEF Drop, Fits
  <2>4. p.processed = plan.processed \cup {<<n, v>>}
    OBVIOUS
  <2>5. p = [nodes |-> p.nodes, constraints |-> p.constraints, optional |-> p.optional,
             processed |-> p.processed, incompatible |-> p.incompatible]
    OBVIOUS
  <2> HIDE DEF p
  <2>6. \A m \in DOMAIN p.nodes :
          /\ Known(m) /\ p.nodes[m] \in Releases(m)
          /\ MatchesAll(p.nodes[m], p.constraints[m])
          /\ <<m, p.nodes[m]>> \in p.processed
    BY <1>1, <1>2, <1>3, <2>1, <2>4 DEF Fits
  <2> QED
    BY <2>2, <2>3, <2>5, <2>6 DEF Fits
<1>8. \A m, e : Settled(plan, m, e) => Settled(p, m, e)
  <2>1. \A m \in DOMAIN plan.constraints :
          m \in DOMAIN p.constraints /\ plan.constraints[m] \subseteq p.constraints[m]
    BY DEF Set, Gathered
  <2>2. p.incompatible = plan.incompatible
    OBVIOUS
  <2> HIDE DEF p
  <2> QED
    BY <2>1, <2>2 DEF Settled
<1>9. Settled(p, Top.name, d)
  <2>1. n \in DOMAIN p.constraints /\ w \in p.constraints[n]
    BY DEF Set, Gathered
  <2> HIDE DEF p
  <2> QED
    BY <2>1 DEF Settled
<1>10. /\ calls' \in Seq(Frames) /\ calls' # <<>>
       /\ \A m, e : Waits(Past(d), m, e) => Waits(calls', m, e)
       /\ \A e \in f.todo : Waits(calls', n, e)
       /\ \A i \in 1..Len(calls') : calls'[i].offered = "" \/ Known(calls'[i].offered)
  <2>1. /\ calls' \in Seq(Frames) /\ calls' # <<>>
        /\ \A m, e : Waits(Past(d), m, e) => Waits(calls', m, e)
        /\ \A e \in f.todo : Waits(calls', f.name, e)
        /\ \A i \in 1..Len(calls') :
              calls'[i] = f \/ (i \in 1..Len(Past(d)) /\ calls'[i] = Past(d)[i])
    <3> HIDE DEF f
    <3> QED
      BY <1>1, <1>4, <1>6, PushKeeps
  <2>2. f.name = n /\ f.offered = o
    OBVIOUS
  <2> HIDE DEF f
  <2>3. \A i \in 1..Len(calls') : calls'[i].offered = "" \/ Known(calls'[i].offered)
    BY <1>1, <2>1, <2>2
  <2> QED
    BY <2>1, <2>2, <2>3
<1>11. Going(p, calls')
  <2>1. \A x \in p.processed :
          x \in plan.processed \/ \A e \in Dependencies(x[1], x[2]) : Waits(calls', x[1], e)
    <3> TAKE x \in p.processed
    <3>1. x \in plan.processed \/ (x = <<n, v>> /\ x \notin plan.processed)
      OBVIOUS
    <3>2. ASSUME x = <<n, v>>, x \notin plan.processed
          PROVE  \A e \in Dependencies(x[1], x[2]) : Waits(calls', x[1], e)
      <4>1. f.todo = Dependencies(n, v) /\ x[1] = n /\ x[2] = v
        BY <3>2
      <4> HIDE DEF f
      <4> QED
        BY <1>10, <4>1
    <3> QED
      BY <3>1, <3>2
  <2> HIDE DEF p, f, n
  <2>2. \A m, e : Waits(Past(d), m, e) => Waits(calls', m, e)
    BY <1>10
  <2> QED
    BY <1>1, <1>8, <1>9, <2>1, <2>2, KeepsGoing
<1> HIDE DEF p, f
<1> QED
  BY <1>1, <1>4, <1>5, <1>7, <1>10, <1>11, PlanStep

-----------------------------------------------------------------------------
(* The steps of the planner.                                               *)

LEMMA PassedStep ==
    ASSUME PlanInv, NEW d, Due(d), Passed(d), Settled(plan, Top.name, d)
    PROVE  PlanInv'
<1>1. Fits(plan) /\ UNCHANGED plan /\ calls' = Past(d) /\ Planning
  BY DueFacts DEF Passed
<1>2. Fits(plan')
  BY <1>1
<1>3. \A n, e : Settled(plan, n, e) => Settled(plan', n, e)
  BY <1>1
<1> QED
  BY <1>1, <1>2, <1>3, NotedStep

LEMMA RefuseStep ==
    ASSUME PlanInv, stage = "planning", Refuse
    PROVE  PlanInv'
<1>1. /\ calls' = <<>> /\ UNCHANGED <<portal, mods, selected, defaults, fallback, left>>
      /\ left = {} /\ portal \in Portals
  BY DEF Refuse, PlanInv, PlanTypeOK, Installing
<1>2. (\A p \in fallback : Fits(p) /\ Going(p, <<>>))'
  BY <1>1, FitsStill, GoingStill DEF PlanInv
<1>3. calls' \in Seq(Frames) /\ Len(calls') = 0
  BY <1>1
<1>4. CASE fallback = {} /\ stage' = "refused" /\ UNCHANGED plan
  <2>1. stage' = "refused" /\ UNCHANGED plan /\ Fits(plan')
    BY <1>4 DEF Refuse, PlanInv
  <2>2. Fits(plan)'
    BY <1>1, <2>1, FitsStill
  <2>3. CallsTyped'
    BY <1>1, <1>3, <2>1 DEF CallsTyped
  <2>4. Installing'
    BY <1>1, <2>1 DEF Installing
  <2>5. PlanTypeOK'
    BY <1>1, <2>1, <2>2 DEF PlanInv, PlanTypeOK, Fits
  <2> QED
    BY <1>2, <2>1, <2>2, <2>3, <2>4, <2>5 DEF PlanInv
<1>5. CASE stage' = "planned" /\ plan' \in fallback
  <2>1. stage' = "planned" /\ plan' \in fallback /\ Fits(plan') /\ Going(plan', calls')
    BY <1>1, <1>5 DEF Refuse, PlanInv
  <2>2. Fits(plan)' /\ Going(plan, calls)'
    BY <1>1, <2>1, FitsStill, GoingStill
  <2>3. CallsTyped'
    BY <1>1, <1>3, <2>1 DEF CallsTyped
  <2>4. Installing'
    BY <1>1, <2>1 DEF Installing
  <2>5. PlanTypeOK'
    BY <1>1, <2>1, <2>2 DEF PlanInv, PlanTypeOK, Fits
  <2> QED
    BY <1>2, <2>1, <2>2, <2>3, <2>4, <2>5 DEF PlanInv
<1> QED
  BY <1>4, <1>5 DEF Refuse

LEMMA ResolveRequiredStep ==
    ASSUME PlanInv, NEW d, ResolveRequired(d)
    PROVE  PlanInv'
<1>1. Due(d) /\ d.kind = "required"
  BY DEF ResolveRequired
<1>2. CASE Resolvable(d)
  <2>1. Enter(d, Past(d), "")
    BY <1>2 DEF ResolveRequired
  <2> QED
    BY <1>1, <1>2, <2>1, EnterStep
<1>3. CASE ~Resolvable(d)
  BY <1>1, <1>3, RefuseStep DEF ResolveRequired, Due
<1> QED
  BY <1>2, <1>3

LEMMA ResolveSelectedStep ==
    ASSUME PlanInv, NEW d, ResolveSelected(d)
    PROVE  PlanInv'
<1> DEFINE w == [d EXCEPT !.kind = "required"]
<1>1. Due(d) /\ d.kind = "optional"
  BY DEF ResolveSelected
<1>2. w.name = d.name
  <2>1. DOMAIN d = {"kind", "name", "op", "version"}
    BY <1>1, DueFacts, NeededShape
  <2> QED
    BY <2>1
<1>3. CASE OnOffer(d) /\ Resolvable(w)
  <2>1. Enter(w, Past(d), d.name)
    BY <1>3 DEF ResolveSelected
  <2>2. Known(d.name) /\ d.name \in Called
    BY <1>1, <1>3, DueFacts, OfferTyped DEF OnOffer
  <2> HIDE DEF w
  <2> QED
    BY <1>1, <1>2, <1>3, <2>1, <2>2, EnterStep
<1>4. CASE ~(OnOffer(d) /\ Resolvable(w))
  <2>1. Refuse
    BY <1>4 DEF ResolveSelected
  <2> QED
    BY <1>1, <2>1, RefuseStep DEF Due
<1> QED
  BY <1>3, <1>4

LEMMA NoteIncompatibleStep ==
    ASSUME PlanInv, NEW d, NoteIncompatible(d)
    PROVE  PlanInv'
<1> DEFINE p == [nodes |-> plan.nodes, constraints |-> plan.constraints, optional |-> plan.optional,
                 processed |-> plan.processed, incompatible |-> plan.incompatible \cup {<<Top.name, d>>}]
<1>1. Due(d) /\ d.kind = "incompatible" /\ calls' = Past(d) /\ Planning /\ Fits(plan)
  BY DEF NoteIncompatible, PlanInv
<1>2. plan' = p
  <2>1. plan = [nodes |-> plan.nodes, constraints |-> plan.constraints, optional |-> plan.optional,
                processed |-> plan.processed, incompatible |-> plan.incompatible]
    BY <1>1 DEF Fits
  <2>2. plan' = [plan EXCEPT !.incompatible = @ \cup {<<Top.name, d>>}]
    BY DEF NoteIncompatible
  <2> HIDE DEF Top
  <2> QED
    BY <2>1, <2>2
<1>3. Fits(p)
  BY <1>1 DEF Fits
<1>4. /\ p.processed = plan.processed
      /\ \A n, e : Settled(plan, n, e) => Settled(p, n, e)
      /\ Settled(p, Top.name, d)
  BY <1>1 DEF Settled
<1> HIDE DEF p
<1> QED
  BY <1>1, <1>2, <1>3, <1>4, NotedStep

LEMMA OfferOptionalStep ==
    ASSUME PlanInv, NEW d, OfferOptional(d)
    PROVE  PlanInv'
<1> DEFINE p == [nodes |-> plan.nodes, constraints |-> plan.constraints,
                 optional |-> Set(plan.optional, d.name, FALSE),
                 processed |-> plan.processed, incompatible |-> plan.incompatible]
<1>1. Due(d) /\ d.kind = "optional" /\ calls' = Past(d) /\ Planning /\ Fits(plan)
  BY DEF OfferOptional, PlanInv
<1>2. CASE plan' = plan
  <2>1. Fits(plan') /\ \A n, e : Settled(plan, n, e) => Settled(plan', n, e)
    BY <1>1, <1>2
  <2>2. Settled(plan', Top.name, d)
    BY <1>1 DEF Settled
  <2> QED
    BY <1>1, <1>2, <2>1, <2>2, NotedStep
<1>3. CASE plan' # plan
  <2>1. Known(d.name) /\ plan' = [plan EXCEPT !.optional = Set(@, d.name, FALSE)]
    BY <1>3 DEF OfferOptional, OnOffer
  <2>2. plan = [nodes |-> plan.nodes, constraints |-> plan.constraints, optional |-> plan.optional,
                processed |-> plan.processed, incompatible |-> plan.incompatible]
    BY <1>1 DEF Fits
  <2>3. plan' = p
    BY <2>1, <2>2
  <2>4. Fits(p)
    BY <1>1, <2>1 DEF Fits, Set
  <2>5. /\ p.processed = plan.processed
        /\ \A n, e : Settled(plan, n, e) => Settled(p, n, e)
        /\ Settled(p, Top.name, d)
    BY <1>1 DEF Settled
  <2> HIDE DEF p
  <2> QED
    BY <1>1, <2>3, <2>4, <2>5, NotedStep
<1> QED
  BY <1>2, <1>3

LEMMA ConsiderStep ==
    ASSUME PlanInv, NEW d, Consider(d)
    PROVE  PlanInv'
<1>1. CASE SkipBase(d)
  <2>1. Settled(plan, Top.name, d)
    BY <1>1 DEF SkipBase, Settled
  <2> QED
    BY <1>1, <2>1, PassedStep DEF SkipBase
<1>2. CASE OptionalPresent(d)
  <2>1. Settled(plan, Top.name, d)
    BY <1>2 DEF OptionalPresent, Settled
  <2> QED
    BY <1>2, <2>1, PassedStep DEF OptionalPresent
<1> QED
  BY <1>1, <1>2, ResolveRequiredStep, ResolveSelectedStep, NoteIncompatibleStep, OfferOptionalStep
     DEF Consider

LEMMA ReturnFromNodeStep ==
    ASSUME PlanInv, ReturnFromNode
    PROVE  PlanInv'
<1> DEFINE p == [nodes |-> plan.nodes, constraints |-> plan.constraints,
                 optional |-> Set(plan.optional, Top.offered, TRUE),
                 processed |-> plan.processed, incompatible |-> plan.incompatible]
<1>1. /\ stage = "planning" /\ Top.todo = {} /\ Len(calls) > 1 /\ calls' = Below /\ Planning
      /\ calls \in Seq(Frames) /\ calls # <<>>
      /\ \A i \in 1..Len(calls) : calls[i].offered = "" \/ Known(calls[i].offered)
      /\ Fits(plan) /\ Going(plan, calls)
  BY DEF ReturnFromNode, PlanInv, CallsTyped
<1>2. /\ Below \in Seq(Frames) /\ Len(Below) = Len(calls) - 1
      /\ \A n, e : Waits(calls, n, e) => Waits(Below, n, e)
      /\ \A i \in 1..Len(Below) : i \in 1..Len(calls) /\ Below[i] = calls[i]
  BY <1>1, BelowKeeps
<1>3. calls' \in Seq(Frames) /\ calls' # <<>>
  <2>1. calls \in Seq(Frames) /\ Len(calls) > 1 /\ Len(Below) = Len(calls) - 1 /\ Below \in Seq(Frames)
    BY <1>1, <1>2
  <2>2. Len(calls) \in Nat
    BY <2>1
  <2>3. Len(Below) # 0
    BY <2>1, <2>2
  <2>4. Below # <<>>
    BY <2>3
  <2> QED
    BY <1>1, <2>1, <2>4
<1>4. \A i \in 1..Len(calls') : calls'[i].offered = "" \/ Known(calls'[i].offered)
  BY <1>1, <1>2
<1>5. Going(plan, calls')
  BY <1>1, <1>2 DEF Going
<1>6. CASE Top.offered = ""
  <2>1. plan' = plan
    BY <1>6 DEF ReturnFromNode
  <2>2. Fits(plan') /\ Going(plan', calls')
    BY <1>1, <1>5, <2>1
  <2> QED
    BY <1>1, <1>3, <1>4, <2>2, PlanStep
<1>7. CASE Top.offered # ""
  <2>1. Known(Top.offered)
    <3>1. Len(calls) \in 1..Len(calls)
      <4>1. calls \in Seq(Frames) /\ Len(calls) > 1
        BY <1>1
      <4>2. Len(calls) \in Nat
        BY <4>1
      <4> QED
        BY <4>1, <4>2
    <3> QED
      BY <1>1, <1>7, <3>1 DEF Top
  <2>2. plan' = p
    <3>1. plan = [nodes |-> plan.nodes, constraints |-> plan.constraints, optional |-> plan.optional,
                  processed |-> plan.processed, incompatible |-> plan.incompatible]
      BY <1>1 DEF Fits
    <3>2. plan' = [plan EXCEPT !.optional = Set(@, Top.offered, TRUE)]
      BY <1>7 DEF ReturnFromNode
    <3> HIDE DEF Top
    <3> QED
      BY <3>1, <3>2
  <2>3. Fits(p)
    BY <1>1, <2>1 DEF Fits, Set
  <2>4. p.processed = plan.processed /\ \A n, e : Settled(plan, n, e) => Settled(p, n, e)
    BY DEF Settled
  <2> HIDE DEF p
  <2>5. Going(p, calls')
    BY <1>5, <2>4 DEF Going
  <2> QED
    BY <1>1, <1>3, <1>4, <2>2, <2>3, <2>5, PlanStep
<1> QED
  BY <1>6, <1>7

LEMMA StartsAgain ==
    ASSUME portal \in Portals
    PROVE  /\ Fits(EmptyPlan) /\ Going(EmptyPlan, FirstCall)
           /\ FirstCall \in Seq(Frames) /\ FirstCall # <<>>
           /\ \A i \in 1..Len(FirstCall) : FirstCall[i].offered = ""
<1> USE PlanConstants
<1>1. Fits(EmptyPlan)
  BY DEF Fits, EmptyPlan, NoNames
<1> DEFINE f == [name |-> Root, version |-> NilVersion, todo |-> {RootDependency}, offered |-> ""]
<1>2. NilVersion \in Version
  BY DEF NilVersion, Version
<1>3. f \in Frames
  BY <1>2 DEF Frames, Called, Offered, Needed
<1>4. FirstCall = <<f>> /\ f.name = Root /\ RootDependency \in f.todo /\ f.offered = ""
  BY DEF FirstCall
<1> HIDE DEF f
<1>5. /\ FirstCall \in Seq(Frames) /\ FirstCall # <<>>
      /\ 1 \in 1..Len(FirstCall) /\ \A i \in 1..Len(FirstCall) : FirstCall[i] = f
  <2>1. \A S : \A x \in S : <<x>> \in Seq(S) /\ <<x>> # <<>> /\ Len(<<x>>) = 1 /\ <<x>>[1] = x
    OBVIOUS
  <2>2. FirstCall \in Seq(Frames) /\ FirstCall # <<>> /\ Len(FirstCall) = 1 /\ FirstCall[1] = f
    BY <1>3, <1>4, <2>1
  <2> QED
    BY <2>2
<1>6. Waits(FirstCall, Root, RootDependency)
  BY <1>4, <1>5 DEF Waits
<1>7. Going(EmptyPlan, FirstCall)
  BY <1>6 DEF Going, EmptyPlan
<1> QED
  BY <1>1, <1>4, <1>5, <1>7

LEMMA EndPlanStep ==
    ASSUME PlanInv, EndPlan
    PROVE  PlanInv'
<1>1. /\ stage = "planning" /\ Len(calls) = 1 /\ Top.todo = {} /\ stage' = "planned" /\ calls' = <<>>
      /\ UNCHANGED <<portal, mods, selected, defaults, plan, fallback, left>>
      /\ calls \in Seq(Frames) /\ calls # <<>> /\ Fits(plan) /\ Going(plan, calls) /\ left = {}
  BY DEF EndPlan, Planned, PlanInv, CallsTyped, Installing
<1>2. Below = <<>>
  <2>1. Below \in Seq(Frames) /\ Len(Below) = 0
    <3>1. Below \in Seq(Frames) /\ Len(Below) = Len(calls) - 1
      BY <1>1, BelowIs
    <3> QED
      BY <1>1, <3>1
  <2> HIDE DEF Below
  <2> QED
    BY <2>1
<1>3. Going(plan, <<>>)
  BY <1>1, <1>2, BelowKeeps DEF Going
<1>4. Fits(plan') /\ Going(plan', calls')
  BY <1>1, <1>3
<1>5. Fits(plan)' /\ Going(plan, calls)'
  BY <1>1, <1>4, FitsStill, GoingStill
<1>6. (\A p \in fallback : Fits(p) /\ Going(p, <<>>))'
  BY <1>1, FitsStill, GoingStill DEF PlanInv
<1>7. calls' \in Seq(Frames) /\ Len(calls') = 0
  BY <1>1
<1>8. CallsTyped' /\ Installing'
  BY <1>1, <1>7 DEF CallsTyped, Installing
<1>9. PlanTypeOK'
  BY <1>1, <1>5 DEF PlanInv, PlanTypeOK, Fits
<1> QED
  BY <1>5, <1>6, <1>8, <1>9 DEF PlanInv

\* A build starts over.
LEMMA RestartStep ==
    ASSUME PlanInv, calls' = FirstCall, plan' = EmptyPlan, stage' = "planning",
           UNCHANGED portal, left' = {}, defaults' \in BOOLEAN,
           selected' \subseteq (UNION Choices) \cup DOMAIN portal \cup DOMAIN BuiltIn,
           (\A p \in fallback : Fits(p) /\ Going(p, <<>>))'
    PROVE  PlanInv'
<1>1. portal \in Portals
  BY DEF PlanInv, PlanTypeOK
<1>2. Fits(plan') /\ Going(plan', calls')
  BY <1>1, StartsAgain
<1>3. Fits(plan)' /\ Going(plan, calls)'
  BY <1>2, FitsStill, GoingStill
<1>4. CallsTyped'
  <2>1. /\ FirstCall \in Seq(Frames) /\ FirstCall # <<>>
        /\ \A i \in 1..Len(FirstCall) : FirstCall[i].offered = ""
    BY <1>1, StartsAgain
  <2> QED
    BY <2>1 DEF CallsTyped
<1>5. Installing'
  BY DEF Installing
<1>6. PlanTypeOK'
  BY <1>1, <1>3 DEF PlanTypeOK, Fits
<1> QED
  BY <1>3, <1>4, <1>5, <1>6 DEF PlanInv

LEMMA PlanWithDefaultsStep ==
    ASSUME PlanInv, PlanWithDefaults
    PROVE  PlanInv'
<1>1. /\ stage = "planning" /\ Len(calls) = 1 /\ Top.todo = {}
      /\ UNCHANGED <<portal, mods, defaults, stage, left>>
      /\ fallback' = {plan} /\ selected' = selected \cup DOMAIN plan.optional
      /\ calls' = FirstCall /\ plan' = EmptyPlan
      /\ calls \in Seq(Frames) /\ calls # <<>> /\ Fits(plan) /\ Going(plan, calls) /\ left = {}
  BY DEF PlanWithDefaults, Planned, PlanInv, CallsTyped, Installing
<1>2. Going(plan, <<>>)
  <2>1. Below \in Seq(Frames) /\ Len(Below) = 0
    <3>1. Below \in Seq(Frames) /\ Len(Below) = Len(calls) - 1
      BY <1>1, BelowIs
    <3> QED
      BY <1>1, <3>1
  <2>2. Below = <<>>
    <3> HIDE DEF Below
    <3> QED
      BY <2>1
  <2> QED
    BY <1>1, <2>2, BelowKeeps DEF Going
<1>3. (\A p \in fallback : Fits(p) /\ Going(p, <<>>))'
  BY <1>1, <1>2 DEF Fits, Going, Waits, Settled, Known, Releases, Dependencies
<1>4. selected' \subseteq (UNION Choices) \cup DOMAIN portal \cup DOMAIN BuiltIn
  <2> DEFINE any == (UNION Choices) \cup DOMAIN portal \cup DOMAIN BuiltIn
  <2>1. \A n \in DOMAIN plan.optional : n \in any
    BY <1>1 DEF Fits, Known
  <2>2. selected \subseteq any
    BY DEF PlanInv, PlanTypeOK
  <2> HIDE DEF any
  <2>3. selected' \subseteq any
    BY <1>1, <2>1, <2>2
  <2> QED
    BY <2>3 DEF any
<1>5. defaults' \in BOOLEAN
  BY <1>1 DEF PlanInv, PlanTypeOK
<1> QED
  BY <1>1, <1>3, <1>4, <1>5, RestartStep

LEMMA SubmitReviewedStep ==
    ASSUME PlanInv, SubmitReviewed
    PROVE  PlanInv'
<1>1. /\ stage = "planned" /\ selected' = {n \in DOMAIN plan.optional : plan.optional[n]}
      /\ defaults' = FALSE /\ fallback' = {} /\ stage' = "planning"
      /\ calls' = FirstCall /\ plan' = EmptyPlan /\ UNCHANGED <<portal, mods, left>>
      /\ left = {} /\ Fits(plan)
  BY DEF SubmitReviewed, PlanInv, Installing
<1>2. selected' \subseteq (UNION Choices) \cup DOMAIN portal \cup DOMAIN BuiltIn
  <2> DEFINE any == (UNION Choices) \cup DOMAIN portal \cup DOMAIN BuiltIn
  <2>1. \A n \in DOMAIN plan.optional : n \in any
    BY <1>1 DEF Fits, Known
  <2> HIDE DEF any
  <2>2. selected' \subseteq any
    BY <1>1, <2>1
  <2> QED
    BY <2>2 DEF any
<1> QED
  BY <1>1, <1>2, RestartStep

-----------------------------------------------------------------------------
(* The steps of an installation.                                           *)

LEMMA InstallStep ==
    ASSUME PlanInv, stage # "planning", stage' # "planning",
           UNCHANGED <<portal, selected, defaults, calls, plan, fallback>>,
           stage' \in {"planned", "refused", "installing", "installed", "failed"},
           stage' \in {"planned", "installing", "installed"} =>
              stage \in {"planned", "installing", "installed"},
           Installing'
    PROVE  PlanInv'
<1>1. Fits(plan) /\ portal \in Portals /\ calls = <<>>
  BY DEF PlanInv, PlanTypeOK, CallsTyped
<1>2. Fits(plan') /\ Fits(plan)'
  BY <1>1, FitsStill
<1>3. (stage \in {"planning", "planned", "installing", "installed"} => Going(plan, calls))'
  <2> SUFFICES ASSUME stage' \in {"planned", "installing", "installed"}
               PROVE  Going(plan, calls)'
    OBVIOUS
  <2>1. Going(plan, calls)
    BY DEF PlanInv
  <2>2. Going(plan', calls')
    BY <2>1
  <2> QED
    BY <2>2, GoingStill
<1>4. (\A p \in fallback : Fits(p) /\ Going(p, <<>>))'
  BY FitsStill, GoingStill DEF PlanInv
<1>5. CallsTyped'
  BY <1>1 DEF PlanInv, CallsTyped, Known
<1>6. PlanTypeOK'
  BY <1>1, <1>2 DEF PlanInv, PlanTypeOK, Fits, Installing
<1> QED
  BY <1>2, <1>3, <1>4, <1>5, <1>6 DEF PlanInv

LEMMA InstallModPlanStep ==
    ASSUME PlanInv, InstallModPlan
    PROVE  PlanInv'
<1>1. /\ stage = "planned" /\ UNCHANGED <<portal, mods, selected, defaults, calls, plan, fallback>>
      /\ left = {}
  BY DEF InstallModPlan, PlanInv, Installing
<1>2. CASE Conflicts # {}
  <2>1. stage' = "refused" /\ left' = {}
    BY <1>1, <1>2 DEF InstallModPlan
  <2>2. Installing'
    BY <2>1 DEF Installing
  <2> QED
    BY <1>1, <2>1, <2>2, InstallStep
<1>3. CASE Conflicts = {}
  <2>1. stage' = "installing" /\ left' = DOMAIN plan.nodes
    BY <1>3 DEF InstallModPlan
  <2>2. Conflicts' = {}
    BY <1>1, <1>3 DEF Conflicts, Enabled
  <2>3. Installing'
    BY <1>1, <2>1, <2>2 DEF Installing
  <2> QED
    BY <1>1, <2>1, <2>3, InstallStep
<1> QED
  BY <1>2, <1>3

LEMMA InstallItemStep ==
    ASSUME PlanInv, NEW n \in left, InstallItem(n)
    PROVE  PlanInv'
<1>1. /\ stage = "installing" /\ stage' = stage /\ left' = left \ {n}
      /\ mods' = Set(mods, n, [version |-> plan.nodes[n], enabled |-> TRUE])
      /\ UNCHANGED <<portal, selected, defaults, calls, plan, fallback>>
      /\ left \subseteq DOMAIN plan.nodes /\ Conflicts = {}
      /\ \A m \in DOMAIN plan.nodes \ left : Enabled(m) /\ mods[m].version = plan.nodes[m]
  BY DEF InstallItem, PlanInv, Installing
<1>2. /\ DOMAIN mods' = DOMAIN mods \cup {n}
      /\ mods'[n] = [version |-> plan.nodes[n], enabled |-> TRUE]
      /\ \A m \in DOMAIN mods : m # n => mods'[m] = mods[m]
  BY <1>1 DEF Set
<1>3. \A m : m # n => (Enabled(m)' <=> Enabled(m))
  BY <1>2 DEF Enabled
<1>4. Conflicts' = {}
  <2>1. \A c \in plan.incompatible : c[2].name \notin DOMAIN plan.nodes /\ ~Enabled(c[2].name)
    BY <1>1 DEF Conflicts
  <2>2. \A c \in plan.incompatible : c[2].name # n /\ ~Enabled(c[2].name)'
    BY <1>1, <1>3, <2>1
  <2> QED
    BY <1>1, <2>1, <2>2 DEF Conflicts
<1>5. \A m \in DOMAIN plan.nodes \ left' : Enabled(m)' /\ mods'[m].version = plan.nodes[m]
  <2> TAKE m \in DOMAIN plan.nodes \ left'
  <2>1. CASE m = n
    BY <1>2, <2>1 DEF Enabled
  <2>2. CASE m # n
    BY <1>1, <1>2, <2>2 DEF Enabled
  <2> QED
    BY <2>1, <2>2
<1>6. Installing'
  BY <1>1, <1>4, <1>5 DEF Installing
<1> QED
  BY <1>1, <1>6, InstallStep

LEMMA PlanNextInv ==
    ASSUME PlanInv, [PlanNext]_planVars
    PROVE  PlanInv'
<1>1. CASE \E n \in left : InstallItemFails(n)
  <2>1. /\ stage = "installing" /\ stage' = "failed"
        /\ UNCHANGED <<portal, selected, defaults, calls, plan, fallback, left>>
    BY <1>1 DEF InstallItemFails
  <2>2. Installing'
    BY <2>1 DEF PlanInv, Installing
  <2> QED
    BY <2>1, <2>2, InstallStep
<1>2. CASE EndInstall
  <2>1. /\ stage = "installing" /\ left = {} /\ stage' = "installed"
        /\ UNCHANGED <<portal, mods, selected, defaults, calls, plan, fallback, left>>
    BY <1>2 DEF EndInstall
  <2>2. Installing'
    BY <2>1 DEF PlanInv, Installing, Conflicts, Enabled
  <2> QED
    BY <2>1, <2>2, InstallStep
<1>3. CASE UNCHANGED planVars
  BY <1>3 DEF planVars, PlanInv, PlanTypeOK, CallsTyped, Fits, Going, Waits, Settled, Installing,
              Conflicts, Enabled, Known, Releases, Dependencies
<1>4. CASE \E d : Consider(d)
  BY <1>4, ConsiderStep
<1>5. CASE \E n \in left : InstallItem(n)
  BY <1>5, InstallItemStep
<1>6. CASE ReturnFromNode \/ EndPlan \/ PlanWithDefaults \/ SubmitReviewed \/ InstallModPlan
  BY <1>6, ReturnFromNodeStep, EndPlanStep, PlanWithDefaultsStep, SubmitReviewedStep, InstallModPlanStep
<1> QED
  BY <1>1, <1>2, <1>3, <1>4, <1>5, <1>6 DEF PlanNext

LEMMA PlanInitInv ==
    ASSUME PlanInit
    PROVE  PlanInv
<1>1. /\ portal \in Portals /\ selected \in Choices /\ defaults \in BOOLEAN /\ stage = "planning"
      /\ calls = FirstCall /\ plan = EmptyPlan /\ fallback = {} /\ left = {}
  BY DEF PlanInit
<1>2. /\ Fits(plan) /\ Going(plan, calls)
      /\ calls \in Seq(Frames) /\ calls # <<>> /\ \A i \in 1..Len(calls) : calls[i].offered = ""
  BY <1>1, StartsAgain
<1>3. CallsTyped
  BY <1>1, <1>2 DEF CallsTyped
<1>4. Installing
  BY <1>1 DEF Installing
<1>5. PlanTypeOK
  BY <1>1, <1>2 DEF PlanTypeOK, Fits
<1> QED
  BY <1>1, <1>2, <1>3, <1>4, <1>5 DEF PlanInv

\* For any portal, mods that are installed, requests, limits and orders of the
\* dependencies: what is chosen is on offer, and only what is planned is left
\* to install (factorio/mod_dependencies.go:79).
THEOREM PlansTypeCorrect == PlanSpec => []PlanTypeOK
<1>1. PlanInit => PlanInv
  BY PlanInitInv
<1>2. PlanInv /\ [PlanNext]_planVars => PlanInv'
  BY PlanNextInv
<1>3. PlanInv => PlanTypeOK
  BY DEF PlanInv
<1> QED
  BY <1>1, <1>2, <1>3, PTL DEF PlanSpec

\* For any portal, mods that are installed, requests, limits and orders of the
\* dependencies: a plan meets every requirement of every mod in it, although
\* the planner never goes back to a choice, and what it installs works together
\* (factorio/mod_dependencies.go:231, factorio/mod_dependency_plan.go:78).
THEOREM PlansAlwaysWork == PlanSpec => []PlanWorks
<1>1. PlanInit => PlanInv
  BY PlanInitInv
<1>2. PlanInv /\ [PlanNext]_planVars => PlanInv'
  BY PlanNextInv
<1>3. PlanInv => PlanWorks
  BY PlanInvWorks
<1> QED
  BY <1>1, <1>2, <1>3, PTL DEF PlanSpec

-----------------------------------------------------------------------------
(* The planner comes to an end.                                            *)

\* Beside PlanInv: what the calls have to deal with is finite.
PlanEndsInv == PlanInv /\ IsFiniteSet(Awaiting(calls))

LEMMA NamesFinite ==
    ASSUME portal \in Portals
    PROVE  IsFiniteSet(DOMAIN BuiltIn \cup DOMAIN portal)
<1>1. IsFiniteSet(DOMAIN BuiltIn) /\ IsFiniteSet(DOMAIN portal)
  BY PlanConstants DEF PlanConstants
<1> QED
  BY <1>1, FS_Union

LEMMA ReadableFinite ==
    ASSUME portal \in Portals
    PROVE  IsFiniteSet(AllReleases)
<1> DEFINE names == DOMAIN BuiltIn \cup DOMAIN portal
           PairsOf(n) == {n} \X Releases(n)
           parts == {PairsOf(n) : n \in names}
           f == [n \in names |-> PairsOf(n)]
<1>1. IsFiniteSet(names)
  BY NamesFinite
<1>2. \A n \in names : IsFiniteSet(PairsOf(n))
  <2> TAKE n \in names
  <2>1. IsFiniteSet({n}) /\ IsFiniteSet(Releases(n))
    BY FS_Singleton, OfferTyped DEF Known
  <2> QED
    BY <2>1, FS_Product
<1>3. f \in Surjection(names, parts)
  <2> HIDE DEF PairsOf, names
  <2> QED
    BY DEF Surjection
<1>4. IsFiniteSet(parts)
  <2> HIDE DEF names, parts, f
  <2> QED
    BY <1>1, <1>3, FS_Surjection
<1>5. \A p \in parts : IsFiniteSet(p)
  BY <1>2
<1>6. AllReleases = UNION parts
  BY DEF AllReleases
<1> HIDE DEF parts
<1> QED
  BY <1>4, <1>5, <1>6, FS_UNION

\* What is chosen is one of the releases there are, and needs finitely many mods.
LEMMA ReadableHolds ==
    ASSUME portal \in Portals, NEW n, Known(n), NEW v \in Releases(n)
    PROVE  <<n, v>> \in AllReleases /\ IsFiniteSet(Dependencies(n, v))
<1>1. <<n, v>> \in {n} \X Releases(n) /\ n \in DOMAIN BuiltIn \cup DOMAIN portal
  BY DEF Known
<1>2. <<n, v>> \in AllReleases
  BY <1>1 DEF AllReleases
<1>3. CASE n \in DOMAIN BuiltIn
  BY <1>2, <1>3, PlanConstants DEF PlanConstants, Dependencies
<1>4. CASE n \notin DOMAIN BuiltIn
  <2>1. n \in DOMAIN portal /\ v \in DOMAIN portal[n]
    BY <1>4 DEF Known, Releases
  <2> QED
    BY <1>2, <1>4, <2>1, PlanConstants DEF PlanConstants, Dependencies
<1> QED
  BY <1>2, <1>3, <1>4

-----------------------------------------------------------------------------
(* What the calls still have to deal with.                                 *)

LEMMA AwaitingHolds ==
    ASSUME NEW cs, NEW x
    PROVE  x \in Awaiting(cs) <=> \E i \in 1..Len(cs) : \E e \in cs[i].todo : x = <<i, e>>
BY DEF Awaiting

LEMMA AwaitingPast ==
    ASSUME calls \in Seq(Frames), calls # <<>>, NEW d \in Top.todo, IsFiniteSet(Awaiting(calls))
    PROVE  /\ IsFiniteSet(Awaiting(Past(d)))
           /\ Cardinality(Awaiting(Past(d))) = Cardinality(Awaiting(calls)) - 1
<1> DEFINE k == Len(calls)
<1>1. k \in Nat \ {0} /\ k \in 1..k /\ calls[k] = Top
  BY DEF Top
<1>2. /\ Len(Past(d)) = k /\ Past(d)[k].todo = Top.todo \ {d}
      /\ \A i \in 1..k : i < k => Past(d)[i] = calls[i]
  <2>1. Past(d)[k] = [name |-> Top.name, version |-> Top.version,
                      todo |-> Top.todo \ {d}, offered |-> Top.offered]
    BY PastIs
  <2>2. Past(d)[k].todo = Top.todo \ {d}
    BY <2>1
  <2> QED
    BY <2>2, PastIs
<1>3. \A i \in 1..k : \A e : e \in Past(d)[i].todo <=> e \in calls[i].todo /\ <<i, e>> # <<k, d>>
  <2> TAKE i \in 1..k
  <2>1. CASE i = k
    BY <1>1, <1>2, <2>1
  <2>2. CASE i < k
    BY <1>1, <1>2, <2>2
  <2> HIDE DEF k
  <2> QED
    BY <1>1, <2>1, <2>2
<1>4. <<k, d>> \in Awaiting(calls)
  BY <1>1, AwaitingHolds
<1>5. \A x : x \in Awaiting(Past(d)) <=> x \in Awaiting(calls) /\ x # <<k, d>>
  <2> TAKE x
  <2>1. x \in Awaiting(Past(d)) <=> \E i \in 1..k : \E e \in Past(d)[i].todo : x = <<i, e>>
    BY <1>2, AwaitingHolds
  <2>2. x \in Awaiting(calls) <=> \E i \in 1..k : \E e \in calls[i].todo : x = <<i, e>>
    BY AwaitingHolds
  <2> HIDE DEF k
  <2> QED
    BY <1>3, <2>1, <2>2
<1>6. Awaiting(Past(d)) = Awaiting(calls) \ {<<k, d>>}
  BY <1>5
<1> QED
  BY <1>4, <1>6, FS_RemoveElement

LEMMA AwaitingPush ==
    ASSUME NEW cs \in Seq(Frames), NEW f \in Frames, IsFiniteSet(Awaiting(cs)), IsFiniteSet(f.todo)
    PROVE  /\ IsFiniteSet(Awaiting(Append(cs, f)))
           /\ f.todo = {} => Awaiting(Append(cs, f)) = Awaiting(cs)
<1> DEFINE k == Len(cs) + 1
           more == {k} \X f.todo
<1>1. /\ Len(Append(cs, f)) = k /\ Len(cs) \in Nat /\ Append(cs, f)[k] = f
      /\ \A i \in 1..Len(cs) : Append(cs, f)[i] = cs[i]
  OBVIOUS
<1>2. \A x : x \in Awaiting(Append(cs, f)) <=> x \in Awaiting(cs) \/ x \in more
  <2> TAKE x
  <2>1. x \in Awaiting(Append(cs, f))
          <=> \E i \in 1..k : \E e \in Append(cs, f)[i].todo : x = <<i, e>>
    <3> DEFINE a == Append(cs, f)
    <3>1. Len(a) = k
      BY <1>1
    <3> HIDE DEF a, k
    <3>2. x \in Awaiting(a) <=> \E i \in 1..Len(a) : \E e \in a[i].todo : x = <<i, e>>
      BY AwaitingHolds
    <3>3. x \in Awaiting(a) <=> \E i \in 1..k : \E e \in a[i].todo : x = <<i, e>>
      BY <3>1, <3>2
    <3> QED
      BY <3>3 DEF a
  <2>2. x \in Awaiting(cs) <=> \E i \in 1..Len(cs) : \E e \in cs[i].todo : x = <<i, e>>
    BY AwaitingHolds
  <2>3. x \in more <=> \E e \in f.todo : x = <<k, e>>
    OBVIOUS
  <2>4. \A i : i \in 1..k <=> i \in 1..Len(cs) \/ i = k
    BY <1>1
  <2>5. ASSUME x \in Awaiting(Append(cs, f)) PROVE x \in Awaiting(cs) \/ x \in more
    <3>1. PICK i \in 1..k : \E e \in Append(cs, f)[i].todo : x = <<i, e>>
      BY <2>1, <2>5
    <3> HIDE DEF k, more
    <3>2. CASE i = k
      BY <1>1, <2>3, <3>1, <3>2
    <3>3. CASE i \in 1..Len(cs)
      BY <1>1, <2>2, <3>1, <3>3
    <3> QED
      BY <2>4, <3>1, <3>2, <3>3
  <2>6. ASSUME x \in Awaiting(cs) \/ x \in more PROVE x \in Awaiting(Append(cs, f))
    <3> HIDE DEF k, more
    <3>1. CASE x \in Awaiting(cs)
      BY <1>1, <2>1, <2>2, <2>4, <3>1
    <3>2. CASE x \in more
      BY <1>1, <2>1, <2>3, <2>4, <3>2
    <3> QED
      BY <2>6, <3>1, <3>2
  <2> QED
    BY <2>5, <2>6
<1>3. Awaiting(Append(cs, f)) = Awaiting(cs) \cup more
  BY <1>2
<1>4. IsFiniteSet(more)
  <2>1. IsFiniteSet({k})
    BY FS_Singleton
  <2> QED
    BY <2>1, FS_Product
<1>5. IsFiniteSet(Awaiting(cs) \cup more)
  BY <1>4, FS_Union
<1>6. f.todo = {} => more = {}
  OBVIOUS
<1> QED
  BY <1>3, <1>5, <1>6

LEMMA CallsLonger ==
    ASSUME NEW S, NEW cs \in Seq(S)
    PROVE  Len(cs) \in Nat /\ \A f \in S : Len(Append(cs, f)) = Len(cs) + 1
OBVIOUS

LEMMA EmptyCallLess ==
    ASSUME NEW a \in Nat, NEW b \in Nat
    PROVE  2 * (a - 1) + (b + 1) < 2 * a + b
OBVIOUS

LEMMA AwaitingBelow ==
    ASSUME calls \in Seq(Frames), calls # <<>>, Top.todo = {}
    PROVE  Awaiting(Below) = Awaiting(calls)
<1>1. /\ Len(calls) \in Nat \ {0} /\ Len(Below) = Len(calls) - 1
      /\ \A i \in 1..(Len(calls) - 1) : Below[i] = calls[i]
  BY BelowIs
<1>2. \A i : i \in 1..Len(calls) <=> i \in 1..(Len(calls) - 1) \/ i = Len(calls)
  BY <1>1
<1>3. calls[Len(calls)].todo = {}
  BY DEF Top
<1>4. \A x : x \in Awaiting(Below) <=> x \in Awaiting(calls)
  <2> TAKE x
  <2>1. x \in Awaiting(Below) <=> \E i \in 1..(Len(calls) - 1) : \E e \in Below[i].todo : x = <<i, e>>
    BY <1>1, AwaitingHolds
  <2>2. x \in Awaiting(calls) <=> \E i \in 1..Len(calls) : \E e \in calls[i].todo : x = <<i, e>>
    BY AwaitingHolds
  <2>3. ASSUME x \in Awaiting(Below) PROVE x \in Awaiting(calls)
    <3>1. PICK i \in 1..(Len(calls) - 1) : \E e \in Below[i].todo : x = <<i, e>>
      BY <2>1, <2>3
    <3> QED
      BY <1>1, <1>2, <2>2, <3>1
  <2>4. ASSUME x \in Awaiting(calls) PROVE x \in Awaiting(Below)
    <3>1. PICK i \in 1..Len(calls) : \E e \in calls[i].todo : x = <<i, e>>
      BY <2>2, <2>4
    <3>2. i # Len(calls)
      BY <1>3, <3>1
    <3> QED
      BY <1>1, <1>2, <2>1, <3>1, <3>2
  <2> QED
    BY <2>3, <2>4
<1> QED
  BY <1>4

LEMMA AwaitingFirst == IsFiniteSet(Awaiting(FirstCall))
<1> DEFINE more == {1} \X {RootDependency}
<1>1. IsFiniteSet({1}) /\ IsFiniteSet({RootDependency})
  BY FS_Singleton
<1>2. IsFiniteSet(more)
  BY <1>1, FS_Product
<1>3. Len(FirstCall) = 1 /\ FirstCall[1].todo = {RootDependency}
  BY DEF FirstCall
<1>4. \A x : x \in Awaiting(FirstCall) => x \in more
  <2> TAKE x
  <2>1. x \in Awaiting(FirstCall) <=> \E i \in 1..Len(FirstCall) : \E e \in FirstCall[i].todo : x = <<i, e>>
    BY AwaitingHolds
  <2> QED
    BY <1>3, <2>1
<1>5. Awaiting(FirstCall) \in SUBSET more
  BY <1>4
<1> QED
  BY <1>2, <1>5, FS_Subset

LEMMA AwaitingNone == ASSUME NEW cs, cs = <<>> PROVE IsFiniteSet(Awaiting(cs))
<1>1. \A x : x \notin Awaiting(cs)
  BY AwaitingHolds
<1>2. Awaiting(cs) = {}
  BY <1>1
<1> QED
  BY <1>2, FS_EmptySet

-----------------------------------------------------------------------------
(* Every step comes nearer.                                                *)

\* A step within a build reads a release that was not read, or leaves less to deal with.
LEMMA NearerWithin ==
    ASSUME portal \in Portals, defaults \in BOOLEAN, stage = "planning", Planning,
           IsFiniteSet(Awaiting(calls)), IsFiniteSet(Awaiting(calls')),
           \/ \E x \in AllReleases \ plan.processed : plan'.processed = plan.processed \cup {x}
           \/ /\ plan'.processed = plan.processed
              /\ 2 * Cardinality(Awaiting(calls')) + Len(calls') < 2 * Cardinality(Awaiting(calls)) + Len(calls)
    PROVE  Nearer
<1>1. stage' = stage /\ StagesLeft' = StagesLeft /\ AllReleases' = AllReleases
  BY DEF Planning, StagesLeft, AllReleases, Releases
<1>2. ItemsLeft = Cardinality(UnreadReleases) /\ ItemsLeft' = Cardinality(UnreadReleases')
  BY <1>1 DEF ItemsLeft
<1>3. IsFiniteSet(UnreadReleases)
  <2>1. UnreadReleases \in SUBSET AllReleases
    BY DEF UnreadReleases
  <2> QED
    BY <2>1, ReadableFinite, FS_Subset
<1>4. ASSUME NEW x \in AllReleases \ plan.processed, plan'.processed = plan.processed \cup {x}
      PROVE  Nearer
  <2>1. UnreadReleases' = UnreadReleases \ {x} /\ x \in UnreadReleases
    BY <1>1, <1>4 DEF UnreadReleases
  <2>2. Cardinality(UnreadReleases') = Cardinality(UnreadReleases) - 1 /\ Cardinality(UnreadReleases) \in Nat
    BY <1>3, <2>1, FS_RemoveElement, FS_CardinalityType
  <2> QED
    BY <1>1, <1>2, <2>2 DEF Nearer
<1>5. ASSUME plan'.processed = plan.processed,
             2 * Cardinality(Awaiting(calls')) + Len(calls') < 2 * Cardinality(Awaiting(calls)) + Len(calls)
      PROVE  Nearer
  <2>1. UnreadReleases' = UnreadReleases
    BY <1>1, <1>5 DEF UnreadReleases
  <2>2. CallsLeft' < CallsLeft
    BY <1>1, <1>5 DEF CallsLeft
  <2> QED
    BY <1>1, <1>2, <2>1, <2>2 DEF Nearer
<1> QED
  BY <1>4, <1>5

LEMMA NotedNearer ==
    ASSUME PlanEndsInv, NEW d, Due(d), Planning, calls' = Past(d), plan'.processed = plan.processed
    PROVE  IsFiniteSet(Awaiting(calls')) /\ Nearer
<1>1. /\ calls \in Seq(Frames) /\ calls # <<>> /\ d \in Top.todo /\ stage = "planning"
      /\ portal \in Portals /\ defaults \in BOOLEAN /\ IsFiniteSet(Awaiting(calls))
  BY DueFacts DEF PlanEndsInv, PlanInv, PlanTypeOK
<1>2. /\ IsFiniteSet(Awaiting(calls')) /\ Cardinality(Awaiting(calls')) = Cardinality(Awaiting(calls)) - 1
      /\ Len(calls') = Len(calls)
  BY <1>1, AwaitingPast, PastIs
<1>3. Len(calls) \in Nat /\ Cardinality(Awaiting(calls)) \in Nat
  BY <1>1, FS_CardinalityType
<1>4. 2 * Cardinality(Awaiting(calls')) + Len(calls') < 2 * Cardinality(Awaiting(calls)) + Len(calls)
  BY <1>2, <1>3
<1> QED
  BY <1>1, <1>2, <1>4, NearerWithin

\* A release whose dependencies were read before is not gone into once more.
LEMMA EnterNearer ==
    ASSUME PlanEndsInv, NEW d, Due(d), NEW w, NEW o, Resolvable(w), Enter(w, Past(d), o),
           o = "" \/ (o \in Called /\ Known(o))
    PROVE  IsFiniteSet(Awaiting(calls')) /\ Nearer
<1> DEFINE n == w.name
           v == Choose(w)
           f == [name |-> n, version |-> v, offered |-> o,
                 todo |-> IF <<n, v>> \in plan.processed THEN {} ELSE Dependencies(n, v)]
<1>1. /\ calls \in Seq(Frames) /\ calls # <<>> /\ d \in Top.todo /\ stage = "planning"
      /\ portal \in Portals /\ defaults \in BOOLEAN /\ IsFiniteSet(Awaiting(calls)) /\ Fits(plan)
      /\ Past(d) \in Seq(Frames)
  BY DueFacts DEF PlanEndsInv, PlanInv, PlanTypeOK
<1>2. /\ n \in Called /\ Known(n) /\ Releases(n) \in SUBSET Version /\ IsFiniteSet(Releases(n))
      /\ \A r \in Releases(n) : Dependencies(n, r) \subseteq Needed
  BY <1>1, OfferTyped DEF Resolvable
<1>3. v \in Releases(n)
  <2>1. v \in ReleasesFor(Releases(n), Gathered(w))
    BY <1>2, ChosenMeets DEF Resolvable, Choose
  <2> QED
    BY <2>1 DEF ReleasesFor
<1>4. calls' = Append(Past(d), f) /\ Planning
  BY DEF Enter, Ahead
<1>5. plan'.processed = plan.processed \cup {<<n, v>>}
  <2>1. plan = [nodes |-> plan.nodes, constraints |-> plan.constraints, optional |-> plan.optional,
                processed |-> plan.processed, incompatible |-> plan.incompatible]
    BY <1>1 DEF Fits
  <2>2. plan' = [plan EXCEPT !.nodes = Set(@, n, v), !.constraints = Set(@, n, Gathered(w)),
                             !.optional = Drop(@, n), !.processed = @ \cup {<<n, v>>}]
    BY DEF Enter
  <2> HIDE DEF n, v
  <2> QED
    BY <2>1, <2>2
<1>6. f \in Frames
  BY <1>2, <1>3 DEF Frames, Offered
<1>7. <<n, v>> \in AllReleases /\ IsFiniteSet(f.todo)
      /\ (<<n, v>> \in plan.processed => f.todo = {})
  BY <1>1, <1>2, <1>3, ReadableHolds, FS_EmptySet
<1>8. /\ IsFiniteSet(Awaiting(Past(d))) /\ Len(Past(d)) = Len(calls)
      /\ Cardinality(Awaiting(Past(d))) = Cardinality(Awaiting(calls)) - 1
  BY <1>1, AwaitingPast, PastIs
<1> HIDE DEF f, v, n
<1>9. /\ IsFiniteSet(Awaiting(calls')) /\ (f.todo = {} => Awaiting(calls') = Awaiting(Past(d)))
      /\ Len(calls') = Len(calls) + 1
  <2>1. Len(calls') = Len(Past(d)) + 1
    <3>1. Past(d) \in Seq(Frames) /\ calls' = Append(Past(d), f)
      BY <1>1, <1>4
    <3> QED
      BY <1>6, <3>1, CallsLonger
  <2>2. IsFiniteSet(Awaiting(calls')) /\ (f.todo = {} => Awaiting(calls') = Awaiting(Past(d)))
    BY <1>1, <1>4, <1>6, <1>7, <1>8, AwaitingPush
  <2> QED
    BY <1>8, <2>1, <2>2
<1>10. CASE <<n, v>> \in plan.processed
  <2>1. Len(calls) \in Nat /\ Cardinality(Awaiting(calls)) \in Nat
    <3>1. calls \in Seq(Frames)
      BY <1>1
    <3>2. Len(calls) \in Nat
      BY <3>1, CallsLonger
    <3> QED
      BY <1>1, <3>2, FS_CardinalityType
  <2>2. 2 * Cardinality(Awaiting(calls')) + Len(calls') < 2 * Cardinality(Awaiting(calls)) + Len(calls)
    <3>1. Cardinality(Awaiting(calls')) = Cardinality(Awaiting(calls)) - 1
      BY <1>7, <1>8, <1>9, <1>10
    <3>2. Len(calls') = Len(calls) + 1
      BY <1>9
    <3> QED
      BY <2>1, <3>1, <3>2, EmptyCallLess
  <2>3. plan'.processed = plan.processed
    BY <1>5, <1>10
  <2> QED
    BY <1>1, <1>4, <1>9, <2>2, <2>3, NearerWithin
<1>11. CASE <<n, v>> \notin plan.processed
  <2>1. \E x \in AllReleases \ plan.processed : plan'.processed = plan.processed \cup {x}
    BY <1>5, <1>7, <1>11
  <2> QED
    BY <1>1, <1>4, <1>9, <2>1, NearerWithin
<1> QED
  BY <1>10, <1>11

LEMMA RefuseNearer ==
    ASSUME PlanEndsInv, stage = "planning", Refuse
    PROVE  IsFiniteSet(Awaiting(calls')) /\ Nearer
<1>1. calls' = <<>> /\ UNCHANGED <<defaults, fallback>> /\ defaults \in BOOLEAN
  BY DEF Refuse, PlanEndsInv, PlanInv, PlanTypeOK
<1>2. IsFiniteSet(Awaiting(calls'))
  BY <1>1, AwaitingNone
<1>3. StagesLeft' < StagesLeft
  <2>1. CASE fallback = {}
    BY <1>1, <2>1 DEF Refuse, StagesLeft
  <2>2. CASE fallback # {}
    BY <1>1, <2>2 DEF Refuse, StagesLeft
  <2> QED
    BY <2>1, <2>2
<1> QED
  BY <1>2, <1>3 DEF Nearer

LEMMA ConsiderNearer ==
    ASSUME PlanEndsInv, NEW d, Consider(d)
    PROVE  IsFiniteSet(Awaiting(calls')) /\ Nearer
<1>1. CASE SkipBase(d) \/ OptionalPresent(d)
  <2>1. Due(d) /\ Planning /\ calls' = Past(d) /\ plan'.processed = plan.processed
    BY <1>1 DEF SkipBase, OptionalPresent, Passed
  <2> QED
    BY <2>1, NotedNearer
<1>2. CASE NoteIncompatible(d)
  <2>1. Due(d) /\ Planning /\ calls' = Past(d)
    BY <1>2 DEF NoteIncompatible
  <2>2. plan'.processed = plan.processed
    <3>1. Fits(plan)
      BY DEF PlanEndsInv, PlanInv
    <3> QED
      BY <1>2, <3>1 DEF NoteIncompatible, Fits
  <2> QED
    BY <2>1, <2>2, NotedNearer
<1>3. CASE OfferOptional(d)
  <2>1. Due(d) /\ Planning /\ calls' = Past(d)
    BY <1>3 DEF OfferOptional
  <2>2. plan'.processed = plan.processed
    <3>1. plan = [nodes |-> plan.nodes, constraints |-> plan.constraints, optional |-> plan.optional,
                  processed |-> plan.processed, incompatible |-> plan.incompatible]
      BY DEF PlanEndsInv, PlanInv, Fits
    <3>2. plan' = plan \/ plan' = [plan EXCEPT !.optional = Set(@, d.name, FALSE)]
      BY <1>3 DEF OfferOptional
    <3> QED
      BY <3>1, <3>2
  <2> QED
    BY <2>1, <2>2, NotedNearer
<1>4. CASE ResolveRequired(d)
  <2>1. Due(d)
    BY <1>4 DEF ResolveRequired
  <2>2. CASE Resolvable(d)
    <3>1. Enter(d, Past(d), "")
      BY <1>4, <2>2 DEF ResolveRequired
    <3> QED
      BY <2>1, <2>2, <3>1, EnterNearer
  <2>3. CASE ~Resolvable(d)
    BY <1>4, <2>1, <2>3, RefuseNearer DEF ResolveRequired, Due
  <2> QED
    BY <2>2, <2>3
<1>5. CASE ResolveSelected(d)
  <2> DEFINE w == [d EXCEPT !.kind = "required"]
  <2>1. Due(d)
    BY <1>5 DEF ResolveSelected
  <2>2. CASE OnOffer(d) /\ Resolvable(w)
    <3>1. Enter(w, Past(d), d.name)
      BY <1>5, <2>2 DEF ResolveSelected
    <3>2. Known(d.name) /\ d.name \in Called
      BY <2>1, <2>2, DueFacts, OfferTyped DEF OnOffer, PlanEndsInv
    <3> HIDE DEF w
    <3> QED
      BY <2>1, <2>2, <3>1, <3>2, EnterNearer
  <2>3. CASE ~(OnOffer(d) /\ Resolvable(w))
    <3>1. Refuse
      BY <1>5, <2>3 DEF ResolveSelected
    <3> QED
      BY <2>1, <3>1, RefuseNearer DEF Due
  <2> QED
    BY <2>2, <2>3
<1> QED
  BY <1>1, <1>2, <1>3, <1>4, <1>5 DEF Consider

LEMMA ReturnNearer ==
    ASSUME PlanEndsInv, ReturnFromNode
    PROVE  IsFiniteSet(Awaiting(calls')) /\ Nearer
<1>1. /\ calls \in Seq(Frames) /\ calls # <<>> /\ stage = "planning" /\ Top.todo = {} /\ calls' = Below
      /\ portal \in Portals /\ defaults \in BOOLEAN /\ IsFiniteSet(Awaiting(calls)) /\ Planning
  BY DEF ReturnFromNode, PlanEndsInv, PlanInv, PlanTypeOK, CallsTyped
<1>2. Awaiting(calls') = Awaiting(calls) /\ Len(calls') = Len(calls) - 1
  BY <1>1, AwaitingBelow, BelowIs
<1>3. Len(calls) \in Nat /\ Cardinality(Awaiting(calls)) \in Nat
  BY <1>1, FS_CardinalityType
<1>4. 2 * Cardinality(Awaiting(calls')) + Len(calls') < 2 * Cardinality(Awaiting(calls)) + Len(calls)
  BY <1>2, <1>3
<1>5. plan'.processed = plan.processed
  <2>1. plan = [nodes |-> plan.nodes, constraints |-> plan.constraints, optional |-> plan.optional,
                processed |-> plan.processed, incompatible |-> plan.incompatible]
    BY DEF PlanEndsInv, PlanInv, Fits
  <2>2. plan' = plan \/ plan' = [plan EXCEPT !.optional = Set(@, Top.offered, TRUE)]
    BY DEF ReturnFromNode
  <2> QED
    BY <2>1, <2>2
<1> QED
  BY <1>1, <1>2, <1>4, <1>5, NearerWithin

LEMMA InstallItemNearer ==
    ASSUME PlanEndsInv, NEW n \in left, InstallItem(n)
    PROVE  Nearer
<1>1. /\ stage = "installing" /\ stage' = stage /\ left' = left \ {n}
      /\ UNCHANGED <<defaults, fallback>> /\ portal \in Portals
  BY DEF InstallItem, PlanEndsInv, PlanInv, PlanTypeOK
<1>2. IsFiniteSet(left)
  <2>1. \A m \in left : m \in DOMAIN BuiltIn \cup DOMAIN portal
    BY DEF PlanEndsInv, PlanInv, PlanTypeOK, Known
  <2>2. left \in SUBSET (DOMAIN BuiltIn \cup DOMAIN portal)
    BY <2>1
  <2> QED
    BY <1>1, <2>2, NamesFinite, FS_Subset
<1>3. Cardinality(left') = Cardinality(left) - 1 /\ Cardinality(left) \in Nat
  BY <1>1, <1>2, FS_RemoveElement, FS_CardinalityType
<1>4. StagesLeft' = StagesLeft /\ ItemsLeft = Cardinality(left) /\ ItemsLeft' = Cardinality(left')
  BY <1>1 DEF StagesLeft, ItemsLeft
<1> QED
  BY <1>3, <1>4 DEF Nearer

\* The other steps end a build or an installation.
LEMMA StageNearer ==
    ASSUME PlanEndsInv,
           \/ EndPlan \/ PlanWithDefaults \/ SubmitReviewed \/ InstallModPlan \/ EndInstall
           \/ \E n \in left : InstallItemFails(n)
    PROVE  IsFiniteSet(Awaiting(calls')) /\ Nearer
<1>1. defaults \in BOOLEAN /\ IsFiniteSet(Awaiting(calls))
  BY DEF PlanEndsInv, PlanInv, PlanTypeOK
<1>2. CASE EndPlan
  <2>1. /\ stage = "planning" /\ (~defaults \/ fallback # {}) /\ stage' = "planned" /\ calls' = <<>>
        /\ UNCHANGED <<defaults, fallback>>
    BY <1>2 DEF EndPlan, Planned
  <2>2. StagesLeft' < StagesLeft
    BY <1>1, <2>1 DEF StagesLeft
  <2> QED
    BY <2>1, <2>2, AwaitingNone DEF Nearer
<1>3. CASE PlanWithDefaults
  <2>1. /\ stage = "planning" /\ defaults /\ fallback = {} /\ stage' = "planning" /\ defaults' = defaults
        /\ fallback' = {plan} /\ calls' = FirstCall
    BY <1>3 DEF PlanWithDefaults, Planned
  <2>2. StagesLeft' < StagesLeft
    BY <1>1, <2>1 DEF StagesLeft
  <2> QED
    BY <2>1, <2>2, AwaitingFirst DEF Nearer
<1>4. CASE SubmitReviewed
  <2>1. /\ stage = "planned" /\ defaults /\ stage' = "planning" /\ defaults' = FALSE
        /\ calls' = FirstCall
    BY <1>4 DEF SubmitReviewed
  <2>2. StagesLeft' < StagesLeft
    BY <1>1, <2>1 DEF StagesLeft
  <2> QED
    BY <2>1, <2>2, AwaitingFirst DEF Nearer
<1>5. CASE InstallModPlan
  <2>1. /\ stage = "planned" /\ ~defaults /\ stage' \in {"refused", "installing"} /\ defaults' = defaults
        /\ calls' = calls
    BY <1>5 DEF InstallModPlan
  <2>2. StagesLeft' < StagesLeft
    BY <1>1, <2>1 DEF StagesLeft
  <2> QED
    BY <1>1, <2>1, <2>2 DEF Nearer
<1>6. CASE EndInstall \/ \E n \in left : InstallItemFails(n)
  <2>1. stage = "installing" /\ stage' \in {"installed", "failed"} /\ calls' = calls
    BY <1>6 DEF EndInstall, InstallItemFails
  <2>2. StagesLeft' < StagesLeft
    BY <2>1 DEF StagesLeft
  <2> QED
    BY <1>1, <2>1, <2>2 DEF Nearer
<1> QED
  BY <1>2, <1>3, <1>4, <1>5, <1>6

LEMMA PlanNearer ==
    ASSUME PlanEndsInv, PlanNext
    PROVE  IsFiniteSet(Awaiting(calls')) /\ Nearer
<1>1. CASE \E d : Consider(d)
  BY <1>1, ConsiderNearer
<1>2. CASE ReturnFromNode
  BY <1>2, ReturnNearer
<1>3. CASE \E n \in left : InstallItem(n)
  <2>1. calls' = calls /\ IsFiniteSet(Awaiting(calls))
    BY <1>3 DEF InstallItem, PlanEndsInv
  <2> QED
    BY <1>3, <2>1, InstallItemNearer
<1>4. CASE \/ EndPlan \/ PlanWithDefaults \/ SubmitReviewed \/ InstallModPlan \/ EndInstall
           \/ \E n \in left : InstallItemFails(n)
  BY <1>4, StageNearer
<1> QED
  BY <1>1, <1>2, <1>3, <1>4 DEF PlanNext

LEMMA DistanceCounts ==
    ASSUME PlanEndsInv
    PROVE  DistanceNat
<1>1. StagesLeft \in Nat
  BY DEF StagesLeft, PlanEndsInv, PlanInv, PlanTypeOK
<1>2. portal \in Portals /\ IsFiniteSet(Awaiting(calls)) /\ calls \in Seq(Frames)
  BY DEF PlanEndsInv, PlanInv, PlanTypeOK, CallsTyped
<1>3. Cardinality(UnreadReleases) \in Nat
  <2>1. UnreadReleases \in SUBSET AllReleases
    BY DEF UnreadReleases
  <2> QED
    BY <1>2, <2>1, ReadableFinite, FS_Subset, FS_CardinalityType
<1>4. Cardinality(left) \in Nat
  <2>1. \A m \in left : m \in DOMAIN BuiltIn \cup DOMAIN portal
    BY DEF PlanEndsInv, PlanInv, PlanTypeOK, Known
  <2>2. left \in SUBSET (DOMAIN BuiltIn \cup DOMAIN portal)
    BY <2>1
  <2> QED
    BY <1>2, <2>2, NamesFinite, FS_Subset, FS_CardinalityType
<1>5. ItemsLeft \in Nat
  BY <1>3, <1>4 DEF ItemsLeft
<1>6. CallsLeft \in Nat
  BY <1>2, FS_CardinalityType DEF CallsLeft
<1> QED
  BY <1>1, <1>5, <1>6 DEF DistanceNat

\* For any portal, requests, limits and orders of the dependencies, cycles among
\* them included: every step brings a request nearer to its end, by a distance
\* of three numbers of which the first that changes falls, so planning and
\* installing come to an end.  A release is gone into once
\* (factorio/mod_dependencies.go:252).
THEOREM PlansEnd == PlanSpec => PlanEnds
<1>1. PlanInit => PlanEndsInv
  BY PlanInitInv, AwaitingFirst DEF PlanInit, PlanEndsInv
<1>2. PlanEndsInv /\ [PlanNext]_planVars => PlanEndsInv'
  <2> SUFFICES ASSUME PlanEndsInv, [PlanNext]_planVars
               PROVE  PlanEndsInv'
    OBVIOUS
  <2>1. PlanInv'
    BY PlanNextInv DEF PlanEndsInv
  <2>2. CASE PlanNext
    BY <2>1, <2>2, PlanNearer DEF PlanEndsInv
  <2>3. CASE UNCHANGED planVars
    BY <2>1, <2>3 DEF PlanEndsInv, planVars
  <2> QED
    BY <2>2, <2>3
<1>3. PlanEndsInv /\ [PlanNext]_planVars => [Nearer]_planVars
  BY PlanNearer
<1>4. PlanEndsInv => DistanceNat
  BY DistanceCounts
<1> QED
  BY <1>1, <1>2, <1>3, <1>4, PTL DEF PlanSpec, PlanEnds

-----------------------------------------------------------------------------
(* The run over all stores.                                                *)

\* Where the others stand still, each store behaves as it does alone.
LEMMA StoresParts ==
    StoresSpec => /\ Spec /\ SnapshotsSpec /\ ModListSpec /\ PlanSpec /\ MergeSpec
                  /\ ReleaseInstallSpec /\ ServerSettingsSpec /\ SavesSpec /\ PacksSpec
                  /\ ImportSpec /\ StartupSpec
<1>1. StoresInit => /\ Init /\ SnapshotsInit /\ ModListInit /\ PlanInit /\ MergeInit
                    /\ ReleaseInstallInit /\ ServerSettingsInit /\ SavesInit /\ PacksInit
                    /\ ImportInit /\ StartupInit
  BY DEF StoresInit
<1>2. [StoresNext]_<<part, storeParts>> =>
         /\ [Next]_vars /\ [SnapshotsNext]_snapVars /\ [ModListNext]_modVars
         /\ [PlanNext]_planVars /\ [MergeNext]_mergeVars
         /\ [ReleaseInstallNext]_releaseInstallVars /\ [ServerSettingsNext]_settingsVars
         /\ [SavesNext]_saveVars /\ [PacksNext]_packVars /\ [ImportNext]_importVars
         /\ [StartupNext]_startupVars
  BY DEF StoresNext, OthersStand, storeParts
<1> QED
  BY <1>1, <1>2, PTL DEF StoresSpec, Spec, SnapshotsSpec, ModListSpec, PlanSpec, MergeSpec,
                   ReleaseInstallSpec, ServerSettingsSpec, SavesSpec, PacksSpec, ImportSpec,
                   StartupSpec

\* Whichever store is used, its files, its requests and what they remember have their types.
THEOREM StoresTypeCorrect == StoresSpec => []StoresTypes
<1>1. StoresInit => part \in Parts
  BY DEF StoresInit
<1>2. part \in Parts /\ [StoresNext]_<<part, storeParts>> => (part \in Parts)'
  BY DEF StoresNext
<1>3. StoresSpec => [](part \in Parts)
  BY <1>1, <1>2, PTL DEF StoresSpec
<1>4. /\ part \in Parts
      /\ TypeOK /\ SnapshotsTypeOK /\ OneJob /\ ModListTypeOK /\ PlanTypeOK /\ MergeTypeOK
      /\ ReleaseTypeOK /\ ServerSettingsTypeOK /\ SavesTypeOK /\ PacksTypeOK /\ ImportTypeOK
      /\ StartupTypeOK
      => StoresTypes
  BY DEF StoresTypes, Parts
<1> QED
  BY <1>3, <1>4, StoresParts, CheckpointsType, SnapshotsTypeCorrect, OneJobAtATime,
     ModListTypeCorrect, PlansTypeCorrect, MergeTypeCorrect, InstallTypeCorrect,
     SettingsTypeCorrect, SavesTypeCorrect, PacksTypeCorrect, ImportTypeCorrect,
     StartupTypeCorrect, PTL
=============================================================================
