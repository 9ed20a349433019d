------------------------------ MODULE MCStores ------------------------------
(***************************************************************************)
(* Checkpoints, map snapshots, the active mods, the planner of the mod     *)
(* portal, the mod packs and their merge, the program files, the server    *)
(* settings, the saves, the import of profiles and the startup settings of *)
(* the mods are stores of their own.                                       *)
(* One run checks all of them: its first state chooses the one that moves, *)
(* the others stay at one of their first states.                           *)
(***************************************************************************)
EXTENDS Checkpoints, MapSnapshots, ModList, ModPlan, ModPackMerge, ReleaseInstall, ServerSettings,
        Saves, ModPacks, ProfileImport, StartupSettings, TLC

CONSTANTS p1, p2, v1, v2, nobody, one

V(n) == <<n, 0, 0, 0>>
Need(kind, name, cmp, n) == [kind |-> kind, name |-> name, op |-> cmp, version |-> V(n)]
None0 == [n \in {} |-> 0]

\* Two archives of one mod and one of another.
TwoMods == [f \in {"a1", "a2", "b1"} |-> IF f = "b1" THEN "b" ELSE "a"]
Uploads == {BaseOnly, With(BaseOnly, "a", FALSE)}

\* "root" is asked for; it needs "a" and "b", which need each other in some
\* versions, or mods that are there already.
RootNeeds ==
    { {Need("required", "a", "", 0), Need("required", "b", ">=", 1)},
      {Need("required", "a", "", 0), Need("optional", "b", "", 0)},
      {Need("required", "base", ">=", 1), Need("optional", "a", "", 0),
       Need("incompatible", "b", "", 0)},
      {Need("required", "a", "", 0), Need("optional", "b", ">=", 3)},
      {Need("required", "b", "", 0), Need("required", "quality", ">=", 1)} }
SecondNeeds ==
    { {}, {Need("required", "b", "<", 2)},
      {Need("optional", "b", "", 0), Need("incompatible", "quality", "", 0)} }
ThirdNeeds == { {}, {Need("required", "a", "<=", 1)}, {Need("required", "quality", "", 0)} }

OnPortal ==
    { "root" :> (V(1) :> r) @@ "a" :> (V(1) :> {} @@ V(2) :> a2) @@ "b" :> (V(1) :> b1 @@ V(2) :> b2) :
        r \in RootNeeds, a2 \in SecondNeeds, b1 \in {{}, {Need("required", "root", ">=", 1)}},
        b2 \in ThirdNeeds }
PlainPortal == "root" :> (V(1) :> {})
AllPortals == OnPortal \cup {PlainPortal}
GameData == "quality" :> [version |-> V(1), dependencies |-> {}]
OnShelf(n, on) == n :> [version |-> V(1), enabled |-> on]
AllShelves == {None0, OnShelf("a", FALSE), OnShelf("b", TRUE), OnShelf("quality", TRUE)}
FirstVersion == V(1)

\* Mod directories and packs that overlap, pin, depend on and exclude each other.
Mod(n, file, needs) == [version |-> V(n), line |-> V(2), file |-> file, dependencies |-> needs]
Entry(on, n) == [enabled |-> on, pin |-> V(n)]
Dir(contents, entries) == [mods |-> contents, entries |-> entries]
Enabling(S) == [n \in {"base"} \cup S |-> Entry(TRUE, 0)]
ModA(n) == "a" :> Mod(n, "a.zip", {})
ModB(n, file, needs) == "b" :> Mod(n, file, needs)

ActiveDirs == {
    Dir(None0, NoEntries),
    Dir(None0, Enabling({"quality"})),
    Dir(None0, "base" :> Entry(TRUE, 0) @@ "b" :> Entry(TRUE, 2)),
    Dir(ModA(1), NoEntries),
    Dir(ModA(1), Enabling({"a"})),
    Dir(ModA(2), "base" :> Entry(TRUE, 0) @@ "a" :> Entry(FALSE, 0)),
    Dir(ModA(2), "base" :> Entry(TRUE, 0) @@ "a" :> Entry(TRUE, 2)),
    Dir("a" :> Mod(1, "b.zip", {Need("incompatible", "b", "", 0)}), Enabling({"a"})) }

PackDirs == {
    Dir(ModB(1, "b.zip", {}), NoEntries),
    Dir(ModB(2, "b2.zip", {Need("required", "a", ">=", 1)}), Enabling({"b"})),
    Dir(ModB(1, "b2.zip", {}), "base" :> Entry(TRUE, 0) @@ "b" :> Entry(FALSE, 0)),
    Dir(ModA(2) @@ ModB(1, "b2.zip", {Need("required", "a", "", 0), Need("optional", "quality", "<=", 1)}),
        "base" :> Entry(TRUE, 0) @@ "a" :> Entry(TRUE, 0) @@ "b" :> Entry(TRUE, 1)),
    Dir(ModB(1, "b2.zip", {Need("required", "quality", "", 0)}), NoEntries),
    Dir("b" :> [Mod(1, "b2.zip", {}) EXCEPT !.line = V(1)], NoEntries),
    Dir("quality" :> Mod(2, "quality.zip", {}), NoEntries),
    Dir(ModB(1, "b2.zip", {Need("required", "c", "", 0)}) @@ "c" :> Mod(1, "c.zip", {}), Enabling({"b"})) }

DataDir == "quality" :> [version |-> V(2), dependencies |-> {Need("required", "base", ">=", 1)}]
Factorios == {V(2), NilVersion}

\* A release with an entry more than the other; the metadata are read from two entries.
ReleaseEntries == v1 :> {"bin", "data", "path"} @@ v2 :> {"bin", "data", "path", "doc"}

\* One profile is there; two are imported, under free names, one that is taken, or one twice.
KnownAtFirst == "i1" :> "n1"
Selections == {<<"n2">>, <<"n2", "n3">>, <<"n2", "n1">>, <<"n3", "n3">>}

\* Two mods with a setting each; one of them excludes a value, in one of the releases.
DefinedBy == "speed" :> "m" @@ "size" :> "s"
Excluded == "one" :> {"high"} @@ "two" :> {}

----------------------------------------------------------------------------

VARIABLE part   \* the module whose steps are taken

storeParts == <<vars, snapVars, modVars, planVars, mergeVars, releaseInstallVars, settingsVars,
                saveVars, packVars, importVars, startupVars>>
Parts == {"checkpoints", "snapshots", "list", "plan", "merge", "release", "settings", "saves",
          "packs", "import", "startup"}

\* The modules that stand still have one first state each.
ListStands  == list = NoList
PlanStands  == portal = PlainPortal /\ mods = None0 /\ selected = {} /\ defaults = FALSE
MergeStands == activeSet = Dir(None0, NoEntries) /\ pack = Dir(ModB(1, "b.zip", {}), NoEntries)
               /\ game = V(2)
SavesStand  == saveFiles = [n \in {FirstSave} |-> FirstWhole]
PacksStand  == live = Content(Missing, PackArchives, {}) /\ packs = None0
ImportStands == points = None0

StoresInit ==
    /\ part \in Parts
    /\ part # "list" => ListStands
    /\ part # "plan" => PlanStands
    /\ part # "merge" => MergeStands
    /\ part # "saves" => SavesStand
    /\ part # "packs" => PacksStand
    /\ part # "import" => ImportStands
    /\ Init /\ SnapshotsInit /\ ModListInit /\ PlanInit /\ MergeInit
    /\ ReleaseInstallInit /\ ServerSettingsInit /\ SavesInit /\ PacksInit
    /\ ImportInit /\ StartupInit
    /\ list # NoList => list["base"]
    /\ enabledMods = OptionMods /\ surrounding = "one"

OthersStand ==
    /\ part # "checkpoints" => UNCHANGED vars
    /\ part # "snapshots" => UNCHANGED snapVars
    /\ part # "list" => UNCHANGED modVars
    /\ part # "plan" => UNCHANGED planVars
    /\ part # "merge" => UNCHANGED mergeVars
    /\ part # "release" => UNCHANGED releaseInstallVars
    /\ part # "settings" => UNCHANGED settingsVars
    /\ part # "saves" => UNCHANGED saveVars
    /\ part # "packs" => UNCHANGED packVars
    /\ part # "import" => UNCHANGED importVars
    /\ part # "startup" => UNCHANGED startupVars

StoresNext ==
    /\ \/ part = "checkpoints" /\ Next
       \/ part = "snapshots" /\ SnapshotsNext
       \/ part = "list" /\ ModListNext
       \/ part = "plan" /\ PlanNext
       \/ part = "merge" /\ MergeNext
       \/ part = "release" /\ ReleaseInstallNext
       \/ part = "settings" /\ ServerSettingsNext
       \/ part = "saves" /\ SavesNext
       \/ part = "packs" /\ PacksNext
       \/ part = "import" /\ ImportNext
       \/ part = "startup" /\ StartupNext
    /\ OthersStand /\ UNCHANGED part

StoresSpec == StoresInit /\ [][StoresNext]_<<part, storeParts>>

StoresTypes ==
    CASE part = "checkpoints" -> TypeOK
      [] part = "snapshots"   -> SnapshotsTypeOK /\ OneJob
      [] part = "list"        -> ModListTypeOK
      [] part = "plan"        -> PlanTypeOK
      [] part = "merge"       -> MergeTypeOK
      [] part = "release"     -> ReleaseTypeOK
      [] part = "settings"    -> ServerSettingsTypeOK
      [] part = "saves"       -> SavesTypeOK
      [] part = "packs"       -> PacksTypeOK
      [] part = "import"      -> ImportTypeOK
      [] part = "startup"     -> StartupTypeOK

\* A bound: two steps of the checkpoints fail, the death of the manager among them, and
\* only while there is time left for a checkpoint that no step of fails.
FewDisruptions == faults + crashes = 0 \/ (faults + crashes <= 2 /\ now < MaxTime)

\* The same two model values are the Admins, the PackUsers and the Editors.
Symmetry == Permutations(Admins)
=============================================================================
