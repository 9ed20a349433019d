---------------------------- MODULE ModPackMerge ----------------------------
(***************************************************************************)
(* Adding a mod pack to the active profile (factorio/mod_pack_merge.go).   *)
(* A preview shows what would be added and what is in the way; the merge   *)
(* names the preview's revision, plans again and activates the combined    *)
(* directory.  Both hold the exclusive gate and the lifecycle mutex, so    *)
(* each is one step, and anything may change between the two.  The         *)
(* revision is a digest of everything the plan depends on; it is the thing *)
(* itself here.                                                            *)
(***************************************************************************)
EXTENDS Versions, FiniteSets

CONSTANTS
    ActiveSets,     \* mod directories the profile may have
    PackSets,       \* mod directories the pack may have
    Games,          \* versions of Factorio that may be installed
    DataMods,       \* the mods below data/: name -> version, dependencies
    NoEntries,      \* a directory without mod-list.json
    MaxEdits        \* bound

Expanding == {"space-age", "quality", "elevated-rails"}     \* spaceAgeFeatureMods

ASSUME MergeConstants == DOMAIN DataMods \subseteq Expanding /\ MaxEdits \in Nat

\* A directory has `mods`, name -> [version, line, file, dependencies], and
\* `entries`, name -> [enabled, pin], where NilVersion is no pin.
VARIABLES
    activeSet, pack, game,
    reviewed,       \* the revision and additions the last preview showed, or none
    merged,         \* the active directory is what a merge left
    edits           \* counter

mergeVars == <<activeSet, pack, game, reviewed, merged, edits>>

NotReviewed == [revision |-> <<>>, additions |-> {}]
Unpinned(enabled) == [enabled |-> enabled, pin |-> NilVersion]
MergeBuiltIns == {"base", "core"} \cup Expanding

----------------------------------------------------------------------------
(* readMergeModSet and planModPackMerge                                    *)

\* Without a list the game enables everything.
EntriesOf(set) ==
    IF set.entries # NoEntries THEN set.entries
    ELSE [n \in {"base"} \cup DOMAIN set.mods |-> Unpinned(TRUE)]

\* No archive has the name of a mod below data/, and a pin is that of its archive.
Readable(set) ==
    /\ DOMAIN set.mods \cap MergeBuiltIns = {}
    /\ \A n \in DOMAIN EntriesOf(set) \cap DOMAIN set.mods :
          EntriesOf(set)[n].pin \in {NilVersion, set.mods[n].version}

\* base is enabled unless the list says otherwise, any other mod is not.
StateIn(set, n) == IF n \in DOMAIN EntriesOf(set) THEN EntriesOf(set)[n].enabled ELSE n = "base"
HasState(set, n) == n = "base" \/ n \in DOMAIN EntriesOf(set)

FilesIn(set) == {set.mods[n].file : n \in DOMAIN set.mods}
Kept == DOMAIN activeSet.mods \cap DOMAIN pack.mods
NameTaken == {n \in DOMAIN pack.mods \ DOMAIN activeSet.mods : pack.mods[n].file \in FilesIn(activeSet)}
Additions == DOMAIN pack.mods \ (DOMAIN activeSet.mods \cup NameTaken)

\* The directory as it would be.
Combined == [n \in DOMAIN activeSet.mods \cup Additions |->
                IF n \in DOMAIN activeSet.mods THEN activeSet.mods[n] ELSE pack.mods[n]]
CombinedState(n) ==
    CASE n = "core" -> TRUE
      [] n # "core" /\ n \in Additions /\ ~HasState(activeSet, n) -> StateIn(pack, n)
      [] OTHER -> StateIn(activeSet, n)
Expansions == {n \in Expanding : CombinedState(n)}

\* The version of a mod that can be depended on: those of data/ count while
\* they are enabled.
HasVersion(n) ==
    n \in {"base", "core"} \cup DOMAIN Combined \cup (Expansions \cap DOMAIN DataMods)
VersionOf(n) ==
    CASE n \in {"base", "core"} -> game
      [] n \in Expansions \cap DOMAIN DataMods -> DataMods[n].version
      [] OTHER -> Combined[n].version
DependenciesOf(n) ==
    IF n \in DOMAIN Combined THEN Combined[n].dependencies ELSE DataMods[n].dependencies

Meets(d) == HasVersion(d.name) /\ CombinedState(d.name) /\ Matches(VersionOf(d.name), d)
\* Mutant of Clashes: a mod that is there but disabled meets a requirement.
ClashesInstalled(d) ==
    CASE d.kind = "incompatible" -> Meets(d)
      [] OTHER -> IF HasVersion(d.name) THEN ~Matches(VersionOf(d.name), d)
                                        ELSE d.kind = "required"
Clashes(d) ==
    CASE d.kind = "incompatible" -> Meets(d)
      [] d.kind = "required"     -> ~Meets(d)
      [] OTHER -> HasVersion(d.name) /\ CombinedState(d.name) /\ ~Meets(d)

Conflicting ==
    {n \in Kept : activeSet.mods[n].version # pack.mods[n].version}
    \cup NameTaken
    \cup (IF game = NilVersion \/ ~CombinedState("base") THEN {"base"} ELSE {})
    \cup {n \in DOMAIN Combined : CombinedState(n) /\ ~SameFactorioLine(game, Combined[n].line)}
    \cup (Expansions \ DOMAIN DataMods)
    \cup {n \in DOMAIN EntriesOf(activeSet) \ MergeBuiltIns :
            HasVersion(n) /\ EntriesOf(activeSet)[n].pin \notin {NilVersion, VersionOf(n)}}
    \cup {n \in DOMAIN Combined \cup (Expansions \cap DOMAIN DataMods) :
            CombinedState(n) /\ \E d \in DependenciesOf(n) : Clashes(d)}

Revision == <<game, activeSet, pack>>

\* mergedModList: an addition without an entry gets the pack's, pin included.
MergedEntries ==
    LET new == {n \in Additions : ~HasState(activeSet, n)}
    IN [n \in DOMAIN EntriesOf(activeSet) \cup new |->
          IF n \notin new THEN EntriesOf(activeSet)[n]
          ELSE IF n \in DOMAIN EntriesOf(pack) THEN EntriesOf(pack)[n] ELSE Unpinned(FALSE)]
MergedSet == [mods |-> Combined, entries |-> MergedEntries]

----------------------------------------------------------------------------

MergeInit ==
    /\ activeSet \in ActiveSets /\ pack \in PackSets /\ game \in Games
    /\ reviewed = NotReviewed /\ merged = FALSE /\ edits = 0

\* The mod pages, a switch of the profile, the editor of the pack, an installation.
Edit == edits < MaxEdits /\ edits' = edits + 1 /\ UNCHANGED reviewed

EditActive ==
    /\ Edit /\ activeSet' \in ActiveSets \ {activeSet} /\ merged' = FALSE
    /\ UNCHANGED <<pack, game>>
EditPack == Edit /\ pack' \in PackSets \ {pack} /\ UNCHANGED <<activeSet, game, merged>>
InstallGame ==
    /\ Edit /\ game' \in Games \ {game} /\ merged' = FALSE
    /\ UNCHANGED <<activeSet, pack>>

PreviewModPackMerge ==
    /\ Readable(activeSet) /\ Readable(pack)
    /\ reviewed' = [revision |-> Revision, additions |-> Additions]
    /\ UNCHANGED <<activeSet, pack, game, merged, edits>>

\* Mutant of MergeModPack: the revision is not compared.
MergeAnyRevision ==
    /\ reviewed # NotReviewed /\ Readable(activeSet) /\ Readable(pack)
    /\ Conflicting = {} /\ Additions # {}
    /\ Readable(MergedSet)
    /\ activeSet' = MergedSet /\ merged' = TRUE
    /\ UNCHANGED <<pack, game, reviewed, edits>>

\* MergeModPack: a stale revision, a conflict or a pack without anything new
\* changes nothing, and so does a failure, after which the old directory is back
\* (DirectorySwap).
MergeModPack ==
    /\ reviewed # NotReviewed /\ Readable(activeSet) /\ Readable(pack)
    /\ reviewed.revision = Revision /\ Conflicting = {} /\ Additions # {}
    /\ Readable(MergedSet)
    /\ activeSet' = MergedSet /\ merged' = TRUE
    /\ UNCHANGED <<pack, game, reviewed, edits>>

MergeNext == EditActive \/ EditPack \/ InstallGame \/ PreviewModPackMerge \/ MergeModPack

MergeSpec == MergeInit /\ [][MergeNext]_mergeVars

----------------------------------------------------------------------------
(* Properties                                                              *)

EnabledIn(set, n) == n \in DOMAIN set.entries /\ set.entries[n].enabled
Runs(n) == \/ n \in {"base", "core"}
           \/ n \in DOMAIN activeSet.mods \cup DOMAIN DataMods /\ EnabledIn(activeSet, n)
RunningVersion(n) ==
    IF n \in {"base", "core"} THEN game
    ELSE IF n \in DOMAIN activeSet.mods THEN activeSet.mods[n].version ELSE DataMods[n].version

\* base keeps its entry where every profile has one.
ListsBase(set) == "base" \in DOMAIN EntriesOf(set)
MergeTypeOK ==
    /\ (\A set \in ActiveSets : ListsBase(set)) => ListsBase(activeSet)
    /\ pack \in PackSets /\ game \in Games
    /\ reviewed.additions \subseteq UNION {DOMAIN p.mods : p \in PackSets}
    /\ merged \in BOOLEAN /\ edits \in 0..MaxEdits

\* What a merge writes, files and list, loads together: the checks were made on
\* a plan, and the list is put together from the raw entries of two lists
\* (mod_pack_merge.go:129, 284).
MergedLoads ==
    merged => \A n \in DOMAIN activeSet.mods : EnabledIn(activeSet, n) =>
        /\ SameFactorioLine(game, activeSet.mods[n].line)
        /\ activeSet.entries[n].pin \in {NilVersion, activeSet.mods[n].version}
        /\ \A d \in activeSet.mods[n].dependencies :
            /\ d.kind = "required" => Runs(d.name) /\ Matches(RunningVersion(d.name), d)
            /\ d.kind = "incompatible" => ~(Runs(d.name) /\ Matches(RunningVersion(d.name), d))

\* A merge does what was reviewed and nothing else: it adds the mods that the
\* preview named and keeps every archive, state and pin of the profile, however
\* much changed since and changed back (README.md:238, mod_pack_merge.go:97).
MergeAsReviewed ==
    [][merged' /\ activeSet # activeSet' =>
        /\ DOMAIN activeSet'.mods = DOMAIN activeSet.mods \cup reviewed.additions
        /\ \A n \in DOMAIN activeSet.mods : activeSet'.mods[n] = activeSet.mods[n]
        /\ activeSet.entries # NoEntries =>
              \A n \in DOMAIN activeSet.entries : activeSet'.entries[n] = activeSet.entries[n]]_mergeVars

\* A merge that is applied is the reviewed one, and loads (mod_pack_merge.go:97, 129).
MergeSound == MergeAsReviewed /\ []MergedLoads
=============================================================================
