------------------------------- MODULE ModPacks -------------------------------
(***************************************************************************)
(* The directory of mod packs (factorio/mod_modpack.go, the handlers of    *)
(* api/mod_modpack_handler.go and api/mod_modpack_contents_handler.go).    *)
(* Requests share the read side of the gate and take no other lock: each   *)
(* begins with a walk over all packs, in which it gives a directory        *)
(* without mod-list.json one, and works with what the walk found.  A new   *)
(* pack is staged beside the others, and whoever walks takes the staging   *)
(* directory for a pack.                                                   *)
(***************************************************************************)
EXTENDS Naturals, FiniteSets

CONSTANTS
    PackNames,      \* names of packs
    PackUsers,      \* requests that may be under way together
    PackArchives,   \* archives of mods
    MaxPackRequests, MaxLists, MaxPackFaults, MaxPackCrashes   \* bounds

ASSUME PackConstants ==
    /\ PackNames # {} /\ PackNames \cap PackUsers = {}
    /\ "list" \notin PackArchives    \* mod-list.json is no archive
    /\ {MaxPackRequests, MaxLists, MaxPackFaults, MaxPackCrashes} \subseteq Nat

VARIABLES
    packs,          \* the directories below FactorioModPackDir, staging ones by their user
    live,           \* the active mods: mod-list.json and the archives
    errand,         \* what each request has read and does next
    made,           \* history: what was asked of each pack
    disturbed,      \* history: directories that two requests, or a failure, left their mark on
    lists,          \* the last list that was made up
    packRequests, packFaults, packCrashes   \* counters

packCounters == <<packRequests, packFaults, packCrashes>>
packVars == <<packs, live, errand, made, disturbed, lists, packCounters>>

\* A mod-list.json: none, opened for writing and not yet written, the one NewMods writes
\* where there is none, the others.
Missing == 0
Cut == 1
BaseList == 2
Lists == 3..3 + MaxLists
ListFile == "list"
Places == PackNames \cup PackUsers
Content(l, whole, cut) == [list |-> l, zips |-> whole, cut |-> cut]
NoContent == Content(Missing, {}, {})
Contents0 == [list : {Missing, Cut, BaseList} \cup Lists,
              zips : SUBSET PackArchives, cut : SUBSET PackArchives]
Held(d) == IF d \in DOMAIN packs THEN packs[d] ELSE NoContent
Keep(d, c) == packs' = [x \in DOMAIN packs \cup {d} |-> IF x = d THEN c ELSE packs[x]]
Lose(f, d) == [x \in DOMAIN f \ {d} |-> f[x]]
Mark(S) == disturbed' = disturbed \cup S

\* `todo` and `loaded`: the walk; `bare`: the directory it is in, and there is no list;
\* `listed`: the one whose list it has; `view`: the list read; `left`: entries still to be
\* copied, `open` the one that is; `staged`: it has a staging directory, which goes with it.
NoErrand == [kind |-> "list", step |-> "none", pack |-> CHOOSE p \in PackNames : TRUE,
             todo |-> {}, bare |-> {}, listed |-> {}, loaded |-> {},
             left |-> {}, open |-> {}, view |-> Missing, staged |-> FALSE]
Kinds == {"list", "create", "delete", "clear", "empty", "toggle", "finish"}
PackSteps == {"none", "walk", "stage", "copy", "validate", "rename", "cleanup", "remove", "write"}

\* What is left of the walk.
Unread(u) == errand[u].todo \cup errand[u].bare \cup errand[u].listed

PacksTypeOK ==
    /\ DOMAIN packs \subseteq Places /\ \A d \in DOMAIN packs : packs[d] \in Contents0
    /\ live.list \in {Missing} \cup Lists /\ live.zips \subseteq PackArchives
    /\ \A u \in PackUsers :
          /\ errand[u].kind \in Kinds /\ errand[u].step \in PackSteps
          /\ Unread(u) \cup errand[u].loaded \subseteq Places
          /\ errand[u].open \subseteq errand[u].left /\ errand[u].staged \in BOOLEAN
    /\ DOMAIN made \subseteq PackNames /\ disturbed \subseteq Places

PacksInit ==
    /\ live \in [list : {Missing, 3}, zips : {PackArchives}, cut : {{}}]
    /\ packs \in {[p \in S |-> Content(3, {}, {})] : S \in {{}, {NoErrand.pack}}}
    /\ made = packs /\ disturbed = {} /\ lists = 3
    /\ errand = [u \in PackUsers |-> NoErrand]
    /\ packRequests = 0 /\ packFaults = 0 /\ packCrashes = 0

Succeeds == UNCHANGED packCounters
PackFault ==
    /\ packFaults < MaxPackFaults /\ packFaults' = packFaults + 1
    /\ UNCHANGED <<packRequests, packCrashes>>
On(u, step) == errand[u].step = step
To(u, e) == errand' = [errand EXCEPT ![u] = e]
Step1(u, step) == To(u, [errand[u] EXCEPT !.step = step])
Respond(u) == To(u, NoErrand)
Quiet == UNCHANGED <<live, lists>>
NoPack == UNCHANGED <<packs, made, disturbed>> /\ Quiet

----------------------------------------------------------------------------
(* reload: the walk                                                        *)

BeginPackRequest(u, kind, p) ==
    /\ On(u, "none") /\ packRequests < MaxPackRequests
    /\ u \notin DOMAIN packs
    /\ To(u, [NoErrand EXCEPT !.kind = kind, !.step = "walk", !.pack = p, !.todo = DOMAIN packs])
    /\ packRequests' = packRequests + 1 /\ UNCHANGED <<packFaults, packCrashes>> /\ NoPack

\* newModSimpleList reads the list of the next directory, or finds none.
ReadPackList(u, d) ==
    /\ On(u, "walk") /\ d \in errand[u].todo /\ errand[u].bare \cup errand[u].listed = {}
    /\ Succeeds /\ NoPack
    /\ IF d \notin DOMAIN packs \/ Held(d).list = Cut THEN Step1(u, "cleanup")
       ELSE IF packs[d].list = Missing
            THEN To(u, [errand[u] EXCEPT !.todo = @ \ {d}, !.bare = {d}])
            ELSE To(u, [errand[u] EXCEPT !.todo = @ \ {d}, !.listed = {d},
                            !.view = IF d = errand[u].pack THEN packs[d].list ELSE @])

\* writeFileAtomically makes the directory again when it is gone, and takes the place of
\* a list that came meanwhile.
CreatePackList(u, d) ==
    /\ On(u, "walk") /\ d \in errand[u].bare /\ Succeeds /\ Quiet
    /\ Keep(d, [Held(d) EXCEPT !.list = BaseList])
    /\ To(u, [errand[u] EXCEPT !.bare = {}, !.listed = {d},
                  !.view = IF d = errand[u].pack THEN BaseList ELSE @])
    /\ Mark(IF d \notin DOMAIN packs \/ Held(d).list # Missing THEN {d} ELSE {})
    /\ UNCHANGED made

\* newModInfoList opens the archives: one that is being copied ends the request.
ReadPackArchives(u, d) ==
    /\ On(u, "walk") /\ d \in errand[u].listed /\ Succeeds /\ NoPack
    /\ IF d \in DOMAIN packs /\ Held(d).cut = {}
       THEN To(u, [errand[u] EXCEPT !.listed = {}, !.loaded = @ \cup {d}])
       ELSE Step1(u, "cleanup")

\* CheckModPackExists on what the walk has found.
PackWalked(u) ==
    LET known == errand[u].pack \in errand[u].loaded
    IN  /\ On(u, "walk") /\ Unread(u) = {} /\ Succeeds /\ NoPack
        /\ CASE errand[u].kind \in {"create", "empty"} ->
                  Step1(u, IF known THEN "cleanup" ELSE "stage")
             [] errand[u].kind \in {"delete", "clear"} ->
                  Step1(u, IF known THEN "remove" ELSE "cleanup")
             [] errand[u].kind = "toggle" -> Step1(u, IF known THEN "write" ELSE "cleanup")
             [] errand[u].kind \in {"list", "finish"} -> Step1(u, "cleanup")

\* The reload at the end of an operation.
Reload(u, kind) ==
    To(u, [errand[u] EXCEPT !.kind = kind, !.step = "walk", !.todo = DOMAIN packs',
               !.loaded = {}])

----------------------------------------------------------------------------
(* CreateModPack and CreateEmptyModPack                                    *)

\* Mutant of Staging: the pack is made under its name.
InPlace(u) == errand[u].pack
Staging(u) == u
LiveFiles == live.zips \cup (IF live.list = Missing THEN {} ELSE {ListFile})

StagePack(u) ==
    /\ On(u, "stage") /\ Quiet /\ UNCHANGED <<made, disturbed>>
    /\ \/ /\ u \notin DOMAIN packs /\ Keep(Staging(u), NoContent) /\ Succeeds
          /\ To(u, IF errand[u].kind = "empty"
                   THEN [errand[u] EXCEPT !.staged = TRUE, !.step = "validate"]
                   ELSE [errand[u] EXCEPT !.staged = TRUE, !.step = "copy", !.left = LiveFiles])
       \/ UNCHANGED packs /\ Step1(u, "cleanup") /\ PackFault

\* copyProfileFile truncates, then writes.
OpenCopy(u, f) ==
    LET c == packs[Staging(u)]
    IN  /\ On(u, "copy") /\ errand[u].open = {} /\ f \in errand[u].left
        /\ Quiet /\ Succeeds /\ UNCHANGED <<made, disturbed>>
        /\ IF f \in LiveFiles
           THEN /\ To(u, [errand[u] EXCEPT !.open = {f}])
                /\ Keep(Staging(u), IF f = ListFile THEN [c EXCEPT !.list = Cut]
                                    ELSE [c EXCEPT !.cut = @ \cup {f}])
           ELSE Step1(u, "cleanup") /\ UNCHANGED packs

\* A list that was replaced meanwhile stays: what is written is no longer linked.
CloseCopy(u, f) ==
    LET c == packs[Staging(u)]
    IN  /\ On(u, "copy") /\ f \in errand[u].open /\ Quiet /\ UNCHANGED <<made, disturbed>>
        /\ \/ /\ To(u, [errand[u] EXCEPT !.open = {}, !.left = @ \ {f}]) /\ Succeeds
              /\ Keep(Staging(u), IF f = ListFile
                                  THEN [c EXCEPT !.list = IF @ = Cut THEN live.list ELSE @]
                                  ELSE [c EXCEPT !.cut = @ \ {f}, !.zips = @ \cup {f}])
           \/ Step1(u, "cleanup") /\ UNCHANGED packs /\ PackFault

Copied(u) ==
    /\ On(u, "copy") /\ errand[u].left = {} /\ Step1(u, "validate") /\ Succeeds /\ NoPack

\* NewMods on the staging directory.
ValidatePack(u) ==
    LET c == packs[Staging(u)]
    IN  /\ On(u, "validate") /\ Step1(u, "rename") /\ Succeeds /\ Quiet
        /\ Keep(Staging(u), [c EXCEPT !.list = IF @ = Missing THEN BaseList ELSE @])
        /\ UNCHANGED <<made, disturbed>>

Intended(u) ==
    IF errand[u].kind = "empty" THEN Content(BaseList, {}, {})
    ELSE Content(IF live.list = Missing THEN BaseList ELSE live.list, live.zips, {})

\* A directory that is not empty is not replaced.
RenamePack(u) ==
    LET p == errand[u].pack
    IN  /\ On(u, "rename") /\ Quiet
        /\ \/ /\ p \notin DOMAIN packs \ {Staging(u)} /\ Succeeds
              /\ packs' = [d \in (DOMAIN packs \ {Staging(u)}) \cup {p} |->
                              IF d = p THEN packs[Staging(u)] ELSE packs[d]]
              /\ made' = [d \in DOMAIN made \cup {p} |-> IF d = p THEN Intended(u) ELSE made[d]]
              /\ disturbed' = (disturbed \ {u, p}) \cup (IF u \in disturbed THEN {p} ELSE {})
              /\ Reload(u, "finish")
           \/ /\ UNCHANGED <<packs, made, disturbed>> /\ Step1(u, "cleanup")
              /\ IF p \in DOMAIN packs THEN Succeeds ELSE PackFault

\* The deferred RemoveAll of the staging directory, whose error nobody sees.
CleanUpPack(u) ==
    /\ On(u, "cleanup") /\ Respond(u) /\ Quiet /\ UNCHANGED made
    /\ \/ ~errand[u].staged /\ UNCHANGED <<packs, disturbed>> /\ Succeeds
       \/ errand[u].staged /\ packs' = Lose(packs, u) /\ disturbed' = disturbed \ {u} /\ Succeeds
       \/ errand[u].staged /\ u \in DOMAIN packs /\ UNCHANGED packs /\ Mark({u}) /\ PackFault

----------------------------------------------------------------------------
(* DeleteModPack, deleting all mods of a pack, toggling a mod of it        *)

Removing(p) == \E u \in PackUsers : On(u, "remove") /\ errand[u].pack = p

RemovePackFile(u) ==
    LET p == errand[u].pack
    IN  /\ On(u, "remove") /\ p \in DOMAIN packs /\ Succeeds /\ Quiet
        /\ \/ packs[p].list # Missing /\ Keep(p, [packs[p] EXCEPT !.list = Missing])
           \/ \E f \in packs[p].zips : Keep(p, [packs[p] EXCEPT !.zips = @ \ {f}])
        /\ made' = Lose(made, p) /\ UNCHANGED <<disturbed, errand>>

RemovePackDirectory(u) ==
    LET p == errand[u].pack
    IN  /\ On(u, "remove") /\ Held(p) = NoContent
        /\ packs' = Lose(packs, p) /\ made' = Lose(made, p) /\ disturbed' = disturbed \ {p}
        /\ Reload(u, IF errand[u].kind = "clear" THEN "empty" ELSE "finish")
        /\ Succeeds /\ Quiet

\* Part of the pack is left; RemoveAll gives up too when files come as it goes.
RemovePackFails(u) ==
    LET p == errand[u].pack
    IN  /\ On(u, "remove") /\ Step1(u, "cleanup") /\ Mark({p}) /\ made' = Lose(made, p)
        /\ IF p \in disturbed \/ Held(p).list = BaseList THEN Succeeds ELSE PackFault
        /\ Quiet /\ UNCHANGED packs

\* The whole list is written back, with what the walk had read.
TogglePackMod(u) ==
    LET p == errand[u].pack
    IN  /\ On(u, "write") /\ lists + 1 \in Lists /\ lists' = lists + 1
        /\ Keep(p, [Held(p) EXCEPT !.list = lists'])
        /\ IF Held(p).list = errand[u].view /\ p \in DOMAIN made /\ ~Removing(p)
           THEN made' = [made EXCEPT ![p].list = lists'] /\ UNCHANGED disturbed
           ELSE UNCHANGED made /\ Mark({p})
        /\ Respond(u) /\ UNCHANGED live /\ Succeeds

----------------------------------------------------------------------------
\* The other requests on the active mods, at any time.
EditLive ==
    /\ lists + 1 \in Lists /\ lists' = lists + 1
    /\ live' \in [list : {lists'}, zips : SUBSET PackArchives, cut : {{}}]
    /\ Mark({u \in PackUsers : errand[u].step \in {"copy", "validate", "rename"}})
    /\ UNCHANGED <<packs, errand, made, packCounters>>

PacksCut ==
    /\ packCrashes < MaxPackCrashes /\ packCrashes' = packCrashes + 1
    /\ errand' = [u \in PackUsers |-> NoErrand]
    /\ Mark({p \in PackNames : Removing(p)} \cup (DOMAIN packs \cap PackUsers))
    /\ made' = [p \in {q \in DOMAIN made : ~Removing(q)} |-> made[p]]
    /\ UNCHANGED <<packs, live, lists, packRequests, packFaults>>

PacksNext ==
    \/ \E u \in PackUsers :
          \/ \E kind \in {"list", "create", "delete", "clear", "toggle"}, p \in PackNames :
                BeginPackRequest(u, kind, p)
          \/ \E d \in Places :
                ReadPackList(u, d) \/ CreatePackList(u, d) \/ ReadPackArchives(u, d)
          \/ PackWalked(u) \/ StagePack(u)
          \/ \E f \in PackArchives \cup {ListFile} : OpenCopy(u, f) \/ CloseCopy(u, f)
          \/ Copied(u) \/ ValidatePack(u) \/ RenamePack(u) \/ CleanUpPack(u)
          \/ RemovePackFile(u) \/ RemovePackDirectory(u) \/ RemovePackFails(u) \/ TogglePackMod(u)
    \/ EditLive \/ PacksCut

PacksSpec == PacksInit /\ [][PacksNext]_packVars

----------------------------------------------------------------------------
\* A pack is what was asked of it, whole, whatever fails or overlaps: only where two
\* requests met in its directory, or its removal was cut short, may it be something else
\* (and even then no archive in it is cut off); and what is left of a staging directory is
\* left by a crash, a failed removal, or a walk that met it (mod_modpack.go:97, :119).
PacksAsMade ==
    /\ \A p \in PackNames \cap DOMAIN packs : packs[p].cut = {} /\ packs[p].list # Cut
    /\ \A p \in PackNames \ disturbed : ~Removing(p) =>
          /\ p \in DOMAIN packs <=> p \in DOMAIN made
          /\ p \in DOMAIN made => packs[p] = made[p]
    /\ \A u \in PackUsers \cap DOMAIN packs : On(u, "none") => u \in disturbed
=============================================================================
