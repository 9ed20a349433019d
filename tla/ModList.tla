------------------------------- MODULE ModList -------------------------------
(***************************************************************************)
(* The active mods directory (factorio/mod_Mods.go, mod_modInfo.go,        *)
(* mod_modSimple.go, mods.go, lockfile/lockfile.go).  What is installed    *)
(* is kept twice, as archives and as the entries of mod-list.json.  A      *)
(* request reads both without a lock, waits for the lifecycle mutex and    *)
(* then works from what it read: the list is written back whole.           *)
(* An archive has the name the game loads it by, so it is of one mod.      *)
(***************************************************************************)
EXTENDS Naturals, FiniteSets

CONSTANTS
    Admins,         \* the requests that may be under way together
    ModFiles,       \* archives
    ModOf,          \* the mod an archive is of
    ModLists,       \* lists that may be uploaded
    NoFile, NoAdmin, NoList,
    MaxRequests, MaxModFaults    \* bounds

Mods == {ModOf[f] : f \in ModFiles}
Entries == UNION {[S -> BOOLEAN] : S \in SUBSET (Mods \cup {"base"})}

ASSUME ModListConstants ==
    /\ IsFiniteSet(ModFiles) /\ ModLists \subseteq Entries
    /\ NoFile \notin ModFiles /\ NoAdmin \notin Admins /\ NoList \notin Entries
    /\ MaxRequests \in Nat /\ MaxModFaults \in Nat

VARIABLES
    zips,           \* the archives in the directory
    list,           \* mod-list.json: for each entry whether it is enabled; or NoList
    lifecycle,      \* who holds serverLifecycleMutex
    locked,         \* the path that is locked for writing, or NoFile
    task,           \* what each request has read and does next
    spoiled,        \* a request was overtaken, or stopped half-way
    requests, modFaults     \* counters

modCounters == <<requests, modFaults>>
modVars == <<zips, list, lifecycle, locked, task, spoiled, modCounters>>

BaseOnly == [n \in {"base"} |-> TRUE]
With(entries, n, enabled) ==
    [m \in DOMAIN entries \cup {n} |-> IF m = n THEN enabled ELSE entries[m]]
Without(entries, n) == [m \in DOMAIN entries \ {n} |-> entries[m]]
Of(m, files) == {f \in files : ModOf[f] = m}
HasArchive(m) == Of(m, zips) # {}

\* `files` are still to be placed, `view` and `infos` were read, `walk` is left
\* of the directory that is being read, `open` is the archive read just now and
\* `old` the archives that are to give way.
NoTask == [op |-> "none", step |-> "idle", mod |-> "base", files |-> {}, view |-> BaseOnly,
         infos |-> {}, walk |-> {}, open |-> NoFile, old |-> {}]

Doing(c, op, step) == task[c].op = op /\ task[c].step = step
Working(c, step) == task[c].step = step /\ lifecycle = c
Step(c, step) == task' = [task EXCEPT ![c].step = step]
Finish(c) ==
    /\ task' = [task EXCEPT ![c] = NoTask]
    /\ lifecycle' = IF lifecycle = c THEN NoAdmin ELSE lifecycle
Spoil(condition) == spoiled' = (spoiled \/ condition)
Counters == UNCHANGED modCounters

\* A directory without a list, or one that is in order.
ModListInit ==
    /\ zips \in {s \in SUBSET ModFiles : \A m \in Mods : Cardinality(Of(m, s)) <= 1}
    /\ list \in [{"base"} \cup {m \in Mods : HasArchive(m)} -> BOOLEAN]
         \cup (IF zips = {} THEN {NoList} ELSE {})
    /\ lifecycle = NoAdmin /\ locked = NoFile
    /\ task = [c \in Admins |-> NoTask]
    /\ spoiled = FALSE /\ requests = 0 /\ modFaults = 0

----------------------------------------------------------------------------
(* A request and what it reads                                             *)

\* A plan has one archive for each of its mods, two of them here.
Plans == {fs \in SUBSET ModFiles :
            Cardinality(fs) = 2 /\ Cardinality({ModOf[f] : f \in fs}) = 2}

\* Toggle and delete name a mod, downloads and uploads an archive, and the plan
\* of the mod portal several; "configuration" is an uploaded list.
Requests ==
    {[op |-> o, mod |-> m, files |-> {}] : o \in {"toggle", "delete"}, m \in Mods}
    \cup {[op |-> "place", mod |-> ModOf[f], files |-> {f}] : f \in ModFiles}
    \cup {[op |-> "install", mod |-> "base", files |-> fs] : fs \in Plans}
    \cup {[op |-> o, mod |-> "base", files |-> {}] : o \in {"deleteAll", "configuration"}}

Begin(c, r) ==
    /\ task[c].step = "idle" /\ requests < MaxRequests
    /\ requests' = requests + 1
    /\ task' = [task EXCEPT ![c] = [NoTask EXCEPT !.op = r.op, !.mod = r.mod, !.files = r.files,
                                       !.step = IF r.op = "deleteAll" THEN "admit" ELSE "list"]]
    /\ UNCHANGED <<zips, list, lifecycle, locked, spoiled, modFaults>>

ReadList(c) ==
    /\ task[c].step = "list"
    /\ task' = IF list = NoList THEN [task EXCEPT ![c].step = "create"]
               ELSE [task EXCEPT ![c].step = "directory", ![c].view = list]
    /\ UNCHANGED <<zips, list, lifecycle, locked, spoiled>> /\ Counters

\* There was no list: one is written, whatever there is by now.
CreateList(c) ==
    /\ task[c].step = "create"
    /\ list' = BaseOnly
    /\ task' = [task EXCEPT ![c].step = "directory", ![c].view = BaseOnly]
    /\ Spoil(list # NoList)
    /\ UNCHANGED <<zips, lifecycle, locked>> /\ Counters

ReadDirectory(c) ==
    /\ task[c].step = "directory"
    /\ task' = [task EXCEPT ![c].step = "walk", ![c].walk = zips]
    /\ UNCHANGED <<zips, list, lifecycle, locked, spoiled>> /\ Counters

\* RLock.  An archive that is locked for writing is left out; one that is gone
\* by now fails the request.
OpenArchive(c, f) ==
    /\ task[c].step = "walk" /\ task[c].open = NoFile /\ f \in task[c].walk
    /\ IF f \notin zips THEN Finish(c)
       ELSE /\ task' = [task EXCEPT ![c].walk = @ \ {f}, ![c].open = IF locked = f THEN NoFile ELSE f]
            /\ UNCHANGED lifecycle
    /\ UNCHANGED <<zips, list, locked, spoiled>> /\ Counters

CloseArchive(c) ==
    /\ task[c].open # NoFile
    /\ task' = [task EXCEPT ![c].infos = @ \cup {task[c].open}, ![c].open = NoFile]
    /\ UNCHANGED <<zips, list, lifecycle, locked, spoiled>> /\ Counters

\* A listing is answered, and toggling a mod that has no entry is refused; any
\* other request goes on to the lock.
ReadDone(c) ==
    /\ task[c].step = "walk" /\ task[c].walk = {} /\ task[c].open = NoFile
    /\ IF task[c].op = "toggle" /\ task[c].mod \notin DOMAIN task[c].view
       THEN Finish(c) ELSE Step(c, "admit") /\ UNCHANGED lifecycle
    /\ UNCHANGED <<zips, list, locked, spoiled>> /\ Counters

----------------------------------------------------------------------------
(* lockActiveModMutation: the lock, and the test whether the server is up  *)

FirstStep(op) ==
    CASE op \in {"toggle", "configuration"} -> "write" [] op = "delete" -> "find"
      [] op \in {"place", "install"} -> "stage"        [] op = "deleteAll" -> "clear"

Overtaken(c) == task[c].view # list \/ task[c].infos # zips

Admit(c) ==
    /\ task[c].step \in {"admit", "enable"} /\ lifecycle = NoAdmin
    /\ lifecycle' = c
    /\ Step(c, IF task[c].step = "enable" THEN "write" ELSE FirstStep(task[c].op))
    /\ Spoil(task[c].op # "deleteAll" /\ Overtaken(c))
    /\ UNCHANGED <<zips, list, locked>> /\ Counters

ServerActive(c) ==
    /\ task[c].step \in {"admit", "enable"} /\ lifecycle = NoAdmin
    /\ Finish(c)
    /\ UNCHANGED <<zips, list, locked, spoiled>> /\ Counters

\* LockW waits for the readers of that path.
Lockable(f) == locked = NoFile /\ \A c \in Admins : task[c].open # f

----------------------------------------------------------------------------
(* Toggling and enabling                                                   *)

Toggle(c) ==
    /\ Working(c, "write") /\ task[c].op = "toggle"
    /\ list' = With(task[c].view, task[c].mod, ~task[c].view[task[c].mod])
    /\ Finish(c)
    /\ UNCHANGED <<zips, locked, spoiled>> /\ Counters

\* InstallModPlan enables the mod it has just placed and goes on to the next,
\* with the list it read at first and its own changes to it.
EnableInstalled(c) ==
    /\ Working(c, "write") /\ task[c].op = "install"
    /\ list' = With(task[c].view, task[c].mod, TRUE)
    /\ IF task[c].files = {} THEN Finish(c)
       ELSE /\ task' = [task EXCEPT ![c].view = list', ![c].step = "admit"]
            /\ lifecycle' = NoAdmin
    /\ UNCHANGED <<zips, locked, spoiled>> /\ Counters

SaveModConfiguration(c, uploaded) ==
    /\ Working(c, "write") /\ task[c].op = "configuration"
    /\ list' = uploaded
    /\ Spoil(DOMAIN uploaded \ {"base"} # {m \in Mods \ {"base"} : HasArchive(m)})
    /\ Finish(c)
    /\ UNCHANGED <<zips, locked>> /\ Counters

----------------------------------------------------------------------------
(* Deleting                                                                *)

\* The first archive of the mod that the request has read; the walk sorts them.
LockDeleted(c, f) ==
    /\ Working(c, "find") /\ f \in Of(task[c].mod, task[c].infos) /\ Lockable(f)
    /\ locked' = f /\ Step(c, "remove")
    /\ UNCHANGED <<zips, list, lifecycle, spoiled>> /\ Counters

NothingToDelete(c) ==
    /\ Working(c, "find") /\ Of(task[c].mod, task[c].infos) = {}
    /\ Finish(c)
    /\ UNCHANGED <<zips, list, locked, spoiled>> /\ Counters

RemoveArchive(c) ==
    /\ Working(c, "remove")
    /\ zips' = zips \ {locked} /\ locked' = NoFile
    /\ IF locked \in zips THEN Step(c, "unlist") /\ UNCHANGED lifecycle ELSE Finish(c)
    /\ UNCHANGED <<list, spoiled>> /\ Counters

RemoveEntry(c) ==
    /\ Working(c, "unlist")
    /\ list' = Without(task[c].view, task[c].mod)
    /\ Finish(c)
    /\ UNCHANGED <<zips, locked, spoiled>> /\ Counters

\* replaceActiveModsWithEmptyDirectory, whose steps DirectorySwap models.
ClearDirectory(c) ==
    /\ Working(c, "clear")
    /\ zips' = {} /\ list' = NoList /\ Step(c, "fill")
    /\ UNCHANGED <<lifecycle, locked, spoiled>> /\ Counters

FillDirectory(c) ==
    /\ Working(c, "fill")
    /\ list' = BaseOnly /\ Finish(c)
    /\ UNCHANGED <<zips, locked, spoiled>> /\ Counters

----------------------------------------------------------------------------
(* createModWithLimit                                                      *)

\* Mutants of Stage: the older archives stay, or go before the new one is there.
StageBesideOld(c, f) ==
    /\ Working(c, "stage") /\ f \in task[c].files /\ Lockable(f)
    /\ locked' = f
    /\ task' = [task EXCEPT ![c].step = "activate", ![c].mod = ModOf[f], ![c].files = @ \ {f}]
    /\ UNCHANGED <<zips, list, lifecycle, spoiled>> /\ Counters
StageAfterOld(c, f) ==
    /\ Working(c, "stage") /\ f \in task[c].files /\ Lockable(f)
    /\ locked' = f
    /\ zips' = zips \ Of(ModOf[f], task[c].infos)
    /\ task' = [task EXCEPT ![c].step = "activate", ![c].mod = ModOf[f], ![c].files = @ \ {f}]
    /\ UNCHANGED <<list, lifecycle, spoiled>> /\ Counters

\* The archive is staged and checked; the older ones are those it has read of.
Stage(c, f) ==
    /\ Working(c, "stage") /\ f \in task[c].files /\ Lockable(f)
    /\ locked' = f
    /\ task' = [task EXCEPT ![c].step = "activate", ![c].mod = ModOf[f], ![c].files = @ \ {f},
                            ![c].old = Of(ModOf[f], task[c].infos) \ {f}]
    /\ UNCHANGED <<zips, list, lifecycle, spoiled>> /\ Counters

\* replaceFileWithRollback, and the list of archives is read again.
Activate(c) ==
    /\ Working(c, "activate")
    /\ zips' = zips \cup {locked} /\ locked' = NoFile
    /\ task' = [task EXCEPT ![c].step = "entry", ![c].infos = zips']
    /\ UNCHANGED <<list, lifecycle, spoiled>> /\ Counters

\* A mod without an entry gets one, enabled.
AddEntry(c) ==
    /\ Working(c, "entry")
    /\ IF task[c].mod \in DOMAIN task[c].view
       THEN Step(c, "old") /\ UNCHANGED list
       ELSE /\ list' = With(task[c].view, task[c].mod, TRUE)
            /\ task' = [task EXCEPT ![c].step = "old", ![c].view = list']
    /\ UNCHANGED <<zips, lifecycle, locked, spoiled>> /\ Counters

LockOld(c, f) ==
    /\ Working(c, "old") /\ f \in task[c].old /\ Lockable(f)
    /\ locked' = f
    /\ task' = [task EXCEPT ![c].step = "removeOld", ![c].old = @ \ {f}]
    /\ UNCHANGED <<zips, list, lifecycle, spoiled>> /\ Counters

RemoveOld(c) ==
    /\ Working(c, "removeOld")
    /\ zips' = zips \ {locked} /\ locked' = NoFile /\ Step(c, "old")
    /\ UNCHANGED <<list, lifecycle, spoiled>> /\ Counters

\* The lock is given back; a plan takes it again to enable the mod.
Placed(c) ==
    /\ Working(c, "old") /\ task[c].old = {}
    /\ IF task[c].op = "place" THEN Finish(c)
       ELSE /\ task' = [task EXCEPT ![c].step = "enable", ![c].infos = zips]
            /\ lifecycle' = NoAdmin
    /\ UNCHANGED <<zips, list, locked, spoiled>> /\ Counters

----------------------------------------------------------------------------
(* Failures                                                                *)

HalfDone(c) == task[c].step \in {"entry", "old", "removeOld", "unlist", "fill"}

\* Any step under the lock may fail, and the request ends there.
StepFails(c) ==
    /\ lifecycle = c /\ modFaults < MaxModFaults
    /\ modFaults' = modFaults + 1
    /\ locked' = NoFile /\ Finish(c) /\ Spoil(HalfDone(c))
    /\ UNCHANGED <<zips, list, requests>>

ManagerStops ==
    /\ modFaults < MaxModFaults
    /\ modFaults' = modFaults + 1
    /\ task' = [c \in Admins |-> NoTask] /\ lifecycle' = NoAdmin /\ locked' = NoFile
    /\ Spoil(\E c \in Admins : HalfDone(c))
    /\ UNCHANGED <<zips, list, requests>>

----------------------------------------------------------------------------

Reading(c) ==
    \/ ReadList(c) \/ CreateList(c) \/ ReadDirectory(c)
    \/ \E f \in ModFiles : OpenArchive(c, f)
    \/ CloseArchive(c) \/ ReadDone(c)

Changing(c) ==
    \/ Toggle(c) \/ EnableInstalled(c) \/ \E l \in ModLists : SaveModConfiguration(c, l)
    \/ NothingToDelete(c) \/ RemoveArchive(c) \/ RemoveEntry(c)
    \/ ClearDirectory(c) \/ FillDirectory(c)
    \/ \E f \in ModFiles : LockDeleted(c, f) \/ Stage(c, f) \/ LockOld(c, f)
    \/ Activate(c) \/ AddEntry(c) \/ RemoveOld(c) \/ Placed(c)

ModListNext ==
    \/ \E c \in Admins :
        \/ \E r \in Requests : Begin(c, r)
        \/ Reading(c) \/ Admit(c) \/ ServerActive(c) \/ Changing(c) \/ StepFails(c)
    \/ ManagerStops

ModListSpec == ModListInit /\ [][ModListNext]_modVars

----------------------------------------------------------------------------
(* Properties                                                              *)

ModListTypeOK ==
    /\ zips \subseteq ModFiles /\ list \in Entries \cup {NoList}
    /\ lifecycle \in Admins \cup {NoAdmin} /\ locked \in ModFiles \cup {NoFile}
    /\ \A c \in Admins :
        /\ task[c].mod \in Mods \cup {"base"} /\ task[c].view \in Entries
        /\ task[c].files \cup task[c].infos \cup task[c].walk \cup task[c].old \subseteq ModFiles
        /\ task[c].open \in ModFiles \cup {NoFile}
    /\ spoiled \in BOOLEAN
    /\ requests \in 0..MaxRequests /\ modFaults \in 0..MaxModFaults

\* A failed, stopped or overtaken download never erases the working copy: the
\* last archive of a mod goes only when a deletion asked for it
\* (mod_Mods.go:130, 150).
ArchivesKept ==
    [][\A m \in Mods : HasArchive(m) /\ ~HasArchive(m)' =>
          \E c \in Admins : \/ Doing(c, "delete", "remove") /\ task[c].mod = m
                           \/ Doing(c, "deleteAll", "clear")]_modVars

\* Every mod has one archive and one entry or neither, whenever nothing is under
\* way; requests that were overtaken between what they read and the lock, or
\* that stopped half-way, are all that breaks it (mod_modSimple.go:151).
ListAgrees ==
    (~spoiled /\ \A c \in Admins : task[c].step = "idle") =>
        /\ {m \in Mods \ {"base"} : HasArchive(m)} = IF list = NoList THEN {} ELSE DOMAIN list \ {"base"}
        /\ \A m \in Mods : Cardinality(Of(m, zips)) <= 1

\* A request that was not overtaken leaves the entries of all other mods as they
\* are (mod_modSimple.go:150).
OthersKept ==
    [][\A c \in Admins : lifecycle = c /\ ~spoiled' /\ list # list'
            /\ task[c].op \in {"toggle", "delete", "place", "install"} =>
        \A m \in (Mods \cup {"base"}) \ {task[c].mod} :
            /\ m \in DOMAIN list <=> m \in DOMAIN list'
            /\ m \in DOMAIN list => list[m] = list'[m]]_modVars

\* A request takes away what it was asked to and nothing else, and leaves a list that says
\* what is there (mod_modSimple.go:150).
OnlyAsked == ArchivesKept /\ OthersKept /\ []ListAgrees
=============================================================================
