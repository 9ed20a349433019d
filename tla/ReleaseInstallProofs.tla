------------------------ MODULE ReleaseInstallProofs ------------------------
(***************************************************************************)
(* Proofs about ReleaseInstall for any releases, top-level entries and any *)
(* number of installations, failures and crashes.                          *)
(***************************************************************************)
EXTENDS ReleaseInstall, TLAPS

-----------------------------------------------------------------------------
(* Directories of program files.                                           *)

\* The program files of a release are a directory whose entries are all of it ...
LEMMA TreesAre ==
    ASSUME NEW v \in GameReleases
    PROVE  /\ Tree(v) \in Trees /\ DOMAIN Tree(v) = TopLevel[v]
           /\ \A e \in TopLevel[v] : Tree(v)[e] = v
<1>1. TopLevel[v] \in SUBSET Names
  BY DEF Names
<1>2. Tree(v) \in [TopLevel[v] -> GameReleases]
  BY DEF Tree
<1> QED
  BY <1>1, <1>2 DEF Trees, Tree

\* ... and there are no others.
LEMMA DirectoriesAre ==
    ASSUME NEW f \in Trees
    PROVE  /\ DOMAIN f \subseteq Names /\ f \in [DOMAIN f -> GameReleases]
           /\ \A g \in Trees : DOMAIN g = DOMAIN f /\ (\A e \in DOMAIN f : f[e] = g[e]) => f = g
<1>1. \A g \in Trees : \E S \in SUBSET Names : g \in [S -> GameReleases]
  BY DEF Trees
<1>2. \A g \in Trees : g = [e \in DOMAIN g |-> g[e]]
  BY <1>1
<1> QED
  BY <1>1, <1>2

LEMMA EmptyIs == /\ Empty \in Trees /\ DOMAIN Empty = {}
                 /\ \A f \in Trees : DOMAIN f = {} => f = Empty
<1>1. Empty \in [{} -> GameReleases] /\ DOMAIN Empty = {}
  BY DEF Empty
<1>2. Empty \in Trees
  BY <1>1 DEF Trees
<1> QED
  BY <1>1, <1>2, DirectoriesAre

\* An entry moved in, an entry moved out, and a part that is left of a removed directory.
LEMMA IntoIs ==
    ASSUME NEW f \in Trees, NEW e \in Names, NEW v \in GameReleases
    PROVE  /\ Into(f, e, v) \in Trees /\ DOMAIN Into(f, e, v) = DOMAIN f \cup {e}
           /\ Into(f, e, v)[e] = v
           /\ \A x \in DOMAIN f \ {e} : Into(f, e, v)[x] = f[x]
<1>1. Into(f, e, v) \in [DOMAIN f \cup {e} -> GameReleases]
  BY DirectoriesAre DEF Into
<1>2. DOMAIN f \cup {e} \in SUBSET Names
  BY DirectoriesAre
<1> QED
  BY <1>1, <1>2 DEF Trees, Into

LEMMA OutOfIs ==
    ASSUME NEW f \in Trees, NEW e \in Names
    PROVE  /\ OutOf(f, e) \in Trees /\ DOMAIN OutOf(f, e) = DOMAIN f \ {e}
           /\ \A x \in DOMAIN f \ {e} : OutOf(f, e)[x] = f[x]
<1>1. OutOf(f, e) \in [DOMAIN f \ {e} -> GameReleases]
  BY DirectoriesAre DEF OutOf
<1>2. DOMAIN f \ {e} \in SUBSET Names
  BY DirectoriesAre
<1> QED
  BY <1>1, <1>2 DEF Trees, OutOf

LEMMA PartIs ==
    ASSUME NEW f \in Trees, NEW S \in SUBSET DOMAIN f
    PROVE  [e \in S |-> f[e]] \in Trees
<1>1. [e \in S |-> f[e]] \in [S -> GameReleases]
  BY DirectoriesAre
<1>2. S \in SUBSET Names
  BY DirectoriesAre
<1> QED
  BY <1>1, <1>2 DEF Trees

\* One entry is moved from f to g.
Moves(f, g, e, f1, g1) ==
    /\ f1 \in Trees /\ DOMAIN f1 = DOMAIN f \ {e} /\ \A x \in DOMAIN f1 : f1[x] = f[x]
    /\ g1 \in Trees /\ DOMAIN g1 = DOMAIN g \cup {e} /\ g1[e] = f[e]
    /\ \A x \in DOMAIN g \ {e} : g1[x] = g[x]

LEMMA MoveIs ==
    ASSUME NEW f \in Trees, NEW g \in Trees, NEW e \in DOMAIN f
    PROVE  Moves(f, g, e, OutOf(f, e), Into(g, e, f[e]))
<1>1. e \in Names /\ f[e] \in GameReleases
  BY DirectoriesAre
<1> DEFINE f1 == OutOf(f, e)  g1 == Into(g, e, f[e])
<1>2. f1 \in Trees /\ DOMAIN f1 = DOMAIN f \ {e} /\ \A x \in DOMAIN f \ {e} : f1[x] = f[x]
  BY <1>1, OutOfIs
<1>3. /\ g1 \in Trees /\ DOMAIN g1 = DOMAIN g \cup {e} /\ g1[e] = f[e]
      /\ \A x \in DOMAIN g \ {e} : g1[x] = g[x]
  BY <1>1, IntoIs
<1> HIDE DEF f1, g1
<1>4. Moves(f, g, e, f1, g1)
  BY <1>2, <1>3 DEF Moves
<1> QED
  BY <1>4 DEF f1, g1

\* The release of a directory: a release has entries, so no two have the same ones.
LEMMA ReleaseIs ==
    /\ \A v \in GameReleases : ReleaseOf(Tree(v)) = v
    /\ \A f \in Trees : \/ ReleaseOf(f) = "mixed" /\ \A v \in GameReleases : f # Tree(v)
                        \/ \E v \in GameReleases : f = Tree(v) /\ ReleaseOf(f) = v
<1>1. \A v, w \in GameReleases : Tree(v) = Tree(w) => v = w
  <2> SUFFICES ASSUME NEW v \in GameReleases, NEW w \in GameReleases, Tree(v) = Tree(w)
               PROVE  v = w
    OBVIOUS
  <2>1. PICK e \in Metadata : TRUE
    BY InstallConstants
  <2>2. e \in TopLevel[v] /\ e \in TopLevel[w]
    BY InstallConstants
  <2> QED
    BY <2>2, TreesAre
<1> QED
  BY <1>1 DEF ReleaseOf

LEMMA VersionsAre ==
    ASSUME NEW f \in Trees, Metadata \subseteq DOMAIN f
    PROVE  VersionsOf(f) \in [Metadata -> GameReleases] /\ \A m \in Metadata : VersionsOf(f)[m] = f[m]
BY DirectoriesAre DEF VersionsOf

-----------------------------------------------------------------------------
(* The invariant.                                                          *)

Old == install.before.program
OldStays(f, e) == e \in DOMAIN f /\ f[e] = Old[e]      \* f holds the old entry e
InstallFailed(k) == install.before.faults + k <= installFaults

States == [program : Trees, runtime : GameReleases \cup {Unreadable}, kept : BOOLEAN,
           faults : Nat, crashes : Nat]
Installations == [step : InstallSteps, version : GameReleases, placed : SUBSET Names,
                  old : SUBSET Names, persisting : BOOLEAN, stuck : BOOLEAN, stale : BOOLEAN,
                  before : States]
InstallTypes ==
    /\ ReleaseTypeOK
    /\ installFaults \in Nat /\ installCrashes \in Nat /\ install \in Installations

\* Between installations: no mixture without its backup, and every entry of the old release
\* is there; the server names the files that are there.
InstallAtRest ==
    /\ asideKept \/ \E u \in GameReleases : program = Tree(u)
    /\ (\E u \in GameReleases : program = Tree(u))
         \/ \A e \in DOMAIN Old : OldStays(program, e) \/ OldStays(aside, e)
    /\ AtStep("idle") /\ ~install.stale =>
          \A m \in Metadata : m \in DOMAIN program => loaded[m] = program[m]

Forward == {"stage", "backup", "place", "refresh", "persist", "discard"}

\* During an installation: what it began with, and how many of its steps have failed.
Progress ==
    /\ ~install.before.kept /\ install.before.crashes = installCrashes
    /\ ~install.stale
    /\ \E u \in GameReleases : Old = Tree(u)
    /\ IF install.step \in Forward THEN installFaults = install.before.faults /\ ~install.stuck
                                   ELSE InstallFailed(1)
    /\ install.step \in Forward \ {"discard"} => ~install.persisting
    /\ install.stuck => InstallFailed(2) /\ install.step \in {"unplace", "restore", "metadata", "reload"}
    /\ install.step \notin {"metadata", "reload"} => asideKept
    /\ install.step \in {"metadata", "reload"} /\ asideKept => InstallFailed(2)
    /\ install.stuck => asideKept

\* Where the old entries are ...
OldEntries ==
    /\ \A e \in DOMAIN Old : OldStays(program, e) \/ OldStays(aside, e)
    /\ \A e \in DOMAIN program :
          program[e] = install.version \/ (e \in DOMAIN Old /\ OldStays(program, e))
    /\ install.step \in {"backup", "restore"} => \A e \in install.old : OldStays(aside, e)
    /\ install.step \in {"place", "refresh", "persist", "discard", "unplace"} =>
          DOMAIN Old = install.old /\ \A e \in DOMAIN Old : OldStays(aside, e)
    /\ install.step = "stage" => aside = Empty
    /\ install.step = "backup" => staging = Tree(install.version)
    /\ install.step \in {"stage", "clean"} => program = Old
    /\ install.step \in {"metadata", "reload"} /\ ~install.stuck => program = Old
    /\ install.step = "backup" \/ (install.step = "restore" /\ ~install.stuck) =>
          /\ DOMAIN program \cap install.old = {} /\ DOMAIN program \cup install.old = DOMAIN Old
          /\ \A e \in DOMAIN program : OldStays(program, e)
    /\ install.step \in {"stage", "backup"} => install.placed = {}
    /\ install.step = "stage" => install.old = {}
    /\ install.step \in {"backup", "restore", "unplace"} => install.old \subseteq DOMAIN Old

\* ... and the new ones.
NewEntries ==
    /\ install.step = "place" =>
          /\ DOMAIN program = install.placed
          /\ DOMAIN program \cup DOMAIN staging = TopLevel[install.version]
          /\ \A e \in DOMAIN program : program[e] = install.version
          /\ \A e \in DOMAIN staging : staging[e] = install.version
    /\ install.step \in {"refresh", "persist", "discard"} =>
          program = Tree(install.version) /\ DOMAIN program = install.placed
    /\ install.step = "unplace" =>
          /\ install.placed \subseteq DOMAIN program
          /\ ~install.stuck => DOMAIN program = install.placed

Recorded ==
    /\ install.step = "discard" => runtimeState = install.version
    /\ install.step # "discard" /\ ~install.persisting => runtimeState = install.before.runtime
    /\ install.step # "reload" => runtimeState \in {install.before.runtime, install.version}
    /\ install.step = "reload" => \/ runtimeState = install.before.runtime
                                  \/ /\ InstallFailed(2) /\ (asideKept => InstallFailed(3))
                                     /\ runtimeState \in {install.version, Unreadable}
    /\ install.step \in {"persist", "discard"} => loaded = VersionsOf(program)

InstallInv ==
    /\ InstallTypes
    /\ IF Ended THEN InstallAtRest ELSE Progress /\ OldEntries /\ NewEntries /\ Recorded

\* The types, one by one.
LEMMA StateIs ==
    ASSUME InstallInv
    PROVE  /\ program \in Trees /\ aside \in Trees /\ staging \in Trees /\ Old \in Trees
           /\ install.version \in GameReleases /\ install.placed \subseteq Names
           /\ install.old \subseteq Names /\ asideKept \in BOOLEAN /\ install.stuck \in BOOLEAN
           /\ installFaults \in Nat /\ installCrashes \in Nat
           /\ install.before.faults \in Nat /\ install.before.kept \in BOOLEAN
           /\ loaded \in [Metadata -> GameReleases]
           /\ runtimeState \in GameReleases \cup {Unreadable}
BY DEF InstallInv, InstallTypes, ReleaseTypeOK, Installations, States, Old

LEMMA InstallationIs == ASSUME InstallInv PROVE install \in Installations
BY DEF InstallInv, InstallTypes

\* A step is a step, or no step, of what an installation promises.
Promised == [Promise!ReleaseStep]_<<Promise!releaseVars, Seen.faults, Seen.crashes>>

LEMMA SeenAside ==
    ASSUME ~Ended, ~Ended', install'.before = install.before
    PROVE  Promised
BY DEF Promised, Promise!releaseVars, Seen

\* How an installation may end: with the release v, with an error, or with the manager.
EndsAs(v, n, engine, runtime) ==
    \/ /\ installCrashes' = installCrashes /\ n = 0
       /\ engine = v /\ runtimeState' = v /\ ~asideKept'
    \/ /\ installCrashes' = installCrashes /\ n > 0
       /\ \/ engine = ReleaseOf(Old) /\ runtimeState' = runtime /\ ~asideKept'
          \/ engine = v /\ runtimeState' = v /\ asideKept'
          \/ n > 1 /\ engine = ReleaseOf(Old) /\ ~asideKept'
          \/ n > 1 /\ runtimeState' = runtime /\ asideKept'
          \/ n > 2 /\ asideKept'
    \/ /\ installCrashes' = installCrashes + 1
       /\ engine = "mixed" => asideKept'
       /\ engine # ReleaseOf(Old) => asideKept' \/ runtimeState' = v
       /\ n = 0 => runtimeState' = runtime \/ (engine = v /\ runtimeState' = v)

LEMMA EndPromised ==
    ASSUME ~Ended, Ended', install'.before = install.before, ~install.before.kept,
           install.before.faults \in Nat, install.before.crashes = installCrashes,
           installCrashes \in Nat,
           NEW n \in Nat, installFaults' = install.before.faults + n,
           NEW v \in GameReleases, asideKept' \in BOOLEAN, install.before.kept \in BOOLEAN,
           ReleaseOf(program') \in {ReleaseOf(Old), v, "mixed"},
           runtimeState' \in {install.before.runtime, v, Unreadable},
           EndsAs(v, n, ReleaseOf(program'), install.before.runtime)
    PROVE  Promised
<1> DEFINE P == ReleaseOf(program')  E == ReleaseOf(Old)  R == install.before.runtime
           o == <<P, runtimeState', asideKept'>>
<1>1. /\ Seen = install.before /\ Seen'.program = program' /\ Seen'.runtime = runtimeState'
      /\ Seen'.kept = asideKept' /\ Seen'.faults = installFaults'
      /\ Seen'.crashes = installCrashes'
  BY DEF Seen, Now
<1>2. o[1] = P /\ o[2] = runtimeState' /\ o[3] = asideKept'
  OBVIOUS
<1>3. o \in {E, v, "mixed"} \X {R, v, Unreadable} \X BOOLEAN
  OBVIOUS
<1>4. o \in Promise!Outcomes(v)
  BY <1>1, <1>3 DEF Promise!Outcomes, Promise!Mixed, Promise!Broken, Unreadable, Old
<1>5. \A S : o \in S => Promise!Ends(S)
  BY <1>1, <1>2 DEF Promise!Ends
<1>6. Seen'.faults - Seen.faults = n /\ Seen'.faults \in Nat /\ Seen'.faults >= Seen.faults
  BY <1>1
<1> HIDE DEF o
<1>7. \/ o \in Promise!Installed(v) /\ n = 0 /\ installCrashes' = installCrashes
      \/ o \in Promise!NotInstalled(v, n) /\ installCrashes' = installCrashes
      \/ o \in Promise!Cut(v, n) /\ installCrashes' = installCrashes + 1
  <2>1. /\ o = <<P, runtimeState', asideKept'>> /\ Seen.kept = FALSE
        /\ (~asideKept' => asideKept' = FALSE) /\ (asideKept' => asideKept' = TRUE)
    BY <1>1 DEF o
  <2>5. /\ (P = E /\ runtimeState' = R /\ ~asideKept') => o = Promise!releaseVars
        /\ (P = v /\ runtimeState' = v /\ asideKept') => o = <<v, v, TRUE>>
        /\ (P = v /\ runtimeState' = v /\ ~asideKept') => o = <<v, v, FALSE>>
    BY <1>1, <2>1 DEF Promise!releaseVars, Old
  <2>2. CASE installCrashes' = installCrashes /\ n = 0
    <3>1. P = v /\ runtimeState' = v /\ ~asideKept'
      BY <2>2 DEF EndsAs
    <3>2. o = <<v, v, FALSE>>
      BY <2>5, <3>1
    <3>3. ~Seen.kept
      BY <2>1
    <3>4. o \in Promise!Installed(v)
      BY <1>4, <3>2, <3>3 DEF Promise!Installed
    <3> QED
      BY <2>2, <3>4
  <2>3. CASE installCrashes' = installCrashes /\ n > 0
    <3>1. \/ P = E /\ runtimeState' = R /\ ~asideKept'
          \/ P = v /\ runtimeState' = v /\ asideKept'
          \/ n > 1 /\ P = E /\ ~asideKept'
          \/ n > 1 /\ runtimeState' = R /\ asideKept'
          \/ n > 2 /\ asideKept'
      BY <2>3 DEF EndsAs
    <3>2. \/ o = Promise!releaseVars \/ o = <<v, v, TRUE>>
          \/ n > 1 /\ o[1] = ReleaseOf(Seen.program) /\ ~o[3]
          \/ n > 1 /\ o[2] = Seen.runtime /\ o[3]
          \/ n > 2 /\ o[3]
      BY <1>1, <1>2, <2>5, <3>1 DEF Old
    <3>3. ~Seen.kept
      BY <2>1
    <3>4. o \in Promise!NotInstalled(v, n)
      BY <1>4, <2>3, <3>2, <3>3 DEF Promise!NotInstalled
    <3> QED
      BY <2>3, <3>4
  <2>4. CASE installCrashes' = installCrashes + 1
    BY <1>1, <1>2, <1>4, <2>4 DEF EndsAs, Promise!Cut, Promise!Mixed, Old
  <2> QED
    BY <2>2, <2>3, <2>4 DEF EndsAs
<1>8. CASE <<Promise!releaseVars, Seen.faults, Seen.crashes>>'
             = <<Promise!releaseVars, Seen.faults, Seen.crashes>>
  BY <1>8 DEF Promised
<1>9. CASE <<Promise!releaseVars, Seen.faults, Seen.crashes>>'
             # <<Promise!releaseVars, Seen.faults, Seen.crashes>>
  BY <1>1, <1>5, <1>6, <1>7, <1>9 DEF Promised, Promise!ReleaseStep
<1> QED
  BY <1>8, <1>9

\* The program files are those of the old release, of the new one, or a mixture.
LEMMA ReleaseHere ==
    ASSUME InstallInv, ~Ended
    PROVE  /\ ReleaseOf(program) \in {ReleaseOf(Old), install.version, "mixed"}
           /\ ReleaseOf(Old) # "mixed"
           /\ \A f \in Trees : f = Old => ReleaseOf(f) = ReleaseOf(Old)
<1>1. PICK w \in GameReleases : Old = Tree(w)
  BY DEF InstallInv, Progress
<1>2. ReleaseOf(Old) = w /\ \A e \in DOMAIN Old : Old[e] = w
  BY <1>1, TreesAre, ReleaseIs
<1>3. program \in Trees /\ install.version \in GameReleases
  BY StateIs
<1>4. \A e \in DOMAIN program : program[e] \in {install.version, w}
  <2>1. \A e \in DOMAIN program :
           program[e] = install.version \/ (e \in DOMAIN Old /\ OldStays(program, e))
    <3>1. OldEntries
      BY Zenon DEF InstallInv
    <3> QED
      BY <3>1 DEF OldEntries
  <2> QED
    BY <1>2, <2>1 DEF OldStays
<1>5. CASE \E u \in GameReleases : program = Tree(u) /\ ReleaseOf(program) = u
  <2>1. PICK u \in GameReleases : program = Tree(u) /\ ReleaseOf(program) = u
    BY <1>5
  <2>2. PICK e \in Metadata : TRUE
    BY InstallConstants
  <2>3. e \in DOMAIN program /\ program[e] = u
    BY <2>1, TreesAre, InstallConstants
  <2> QED
    BY <1>2, <1>4, <2>1, <2>3, InstallConstants
<1> QED
  BY <1>2, <1>3, <1>5, ReleaseIs, InstallConstants

-----------------------------------------------------------------------------
(* One lemma per action: what it changes, and what follows.                *)

USE DEF InstallTypes, InstallAtRest, Progress, OldEntries, NewEntries, Recorded, Forward,
        Ended, OldStays, InstallFailed, Old, AtStep, ReleaseTypeOK, Installations, States,
        InstallSteps, Unreadable

LEMMA BeginInstallKeeps ==
    ASSUME InstallInv, NEW v \in GameReleases, BeginInstall(v)
    PROVE  InstallInv' /\ Promised
<1> USE InstallationIs
<1>1. /\ install.step = "idle" /\ ~asideKept /\ asideKept' /\ install'.step = "stage"
      /\ install'.version = v /\ install'.placed = {} /\ install'.old = {}
      /\ install'.persisting = FALSE /\ install'.stuck = FALSE /\ install'.stale = FALSE
      /\ install'.before = Now /\ Old' = program
      /\ install'.before.runtime = runtimeState /\ install'.before.kept = FALSE
      /\ install'.before.faults = installFaults
      /\ install'.before.crashes = installCrashes /\ UNCHANGED <<runtimeState, loaded>>
      /\ UNCHANGED <<program, aside, staging, installFaults, installCrashes>>
  BY DEF BeginInstall, Now, Metadata0, Old, InstallInv
<1>2. install' \in Installations
  BY <1>1 DEF BeginInstall, Now, Metadata0, Old, InstallInv
<1> USE StateIs, EmptyIs DEF InstallInv, Moves
<1>3. InstallTypes'
  BY <1>1, <1>2
<1>4. ~Ended' => Progress'
  BY <1>1
<1>5. ~Ended' => OldEntries'
  BY <1>1
<1>6. ~Ended' => NewEntries' /\ Recorded'
  BY <1>1
<1>7. Ended' => InstallAtRest'
  BY <1>1
<1>8. Promised
  BY <1>1 DEF Promised, Seen, Now, Promise!releaseVars
<1> QED
  BY <1>3, <1>4, <1>5, <1>6, <1>7, <1>8

LEMMA StageReleaseKeeps ==
    ASSUME InstallInv, StageRelease
    PROVE  InstallInv' /\ Promised
<1> USE InstallationIs
<1>1. /\ install.step = "stage" /\ install'.version = install.version
      /\ install'.placed = install.placed /\ install'.old = install.old
      /\ install'.persisting = install.persisting /\ install'.stuck = install.stuck
      /\ install'.stale = install.stale /\ install'.before = install.before
      /\ \/ staging' = Tree(install.version) /\ install'.step = "backup" /\ UNCHANGED <<installFaults, installCrashes>>
         \/ UNCHANGED staging /\ install'.step = "clean" /\ installFaults' = installFaults + 1 /\ UNCHANGED installCrashes
      /\ UNCHANGED <<runtimeState, loaded>> /\ UNCHANGED <<program, aside, asideKept>>
  BY DEF StageRelease, GoTo, Works, Fails, Metadata0, boundVars
<1>2. install' \in Installations
  BY <1>1 DEF StageRelease, GoTo, Works, Fails, Metadata0, boundVars
<1> USE StateIs, EmptyIs DEF InstallInv, Moves
<1>3. InstallTypes'
  BY <1>1, <1>2, TreesAre
<1>4. ~Ended' => Progress'
  BY <1>1
<1>5. ~Ended' => OldEntries'
  BY <1>1
<1>6. ~Ended' => NewEntries' /\ Recorded'
  BY <1>1
<1>7. Ended' => InstallAtRest'
  BY <1>1
<1>8. Promised
  BY <1>1, SeenAside
<1> QED
  BY <1>3, <1>4, <1>5, <1>6, <1>7, <1>8

LEMMA BackUpEntryKeeps ==
    ASSUME InstallInv, NEW e \in Names, BackUpEntry(e)
    PROVE  InstallInv' /\ Promised
<1> USE InstallationIs
<1>1. /\ install.step = "backup" /\ e \in DOMAIN program
      /\ install'.version = install.version /\ install'.placed = install.placed
      /\ install'.persisting = install.persisting /\ install'.stuck = install.stuck
      /\ install'.stale = install.stale /\ install'.before = install.before
      /\ \/ /\ Moves(program, aside, e, program', aside')
            /\ install'.old = install.old \cup {e} /\ install'.step = install.step
            /\ UNCHANGED <<installFaults, installCrashes>>
         \/ /\ UNCHANGED <<program, aside>> /\ install'.old = install.old
            /\ install'.step = "restore" /\ installFaults' = installFaults + 1 /\ UNCHANGED installCrashes
      /\ UNCHANGED <<runtimeState, loaded>> /\ UNCHANGED <<staging, asideKept>>
  BY StateIs, MoveIs DEF BackUpEntry, GoTo, Works, Fails, Metadata0, boundVars
<1>2. install' \in Installations
  BY <1>1 DEF BackUpEntry, GoTo, Works, Fails, Metadata0, boundVars
<1> USE StateIs, EmptyIs DEF InstallInv, Moves
<1>3. InstallTypes'
  BY <1>1, <1>2
<1>4. ~Ended' => Progress'
  BY <1>1
<1>5. ~Ended' => OldEntries'
  BY <1>1
<1>6. ~Ended' => NewEntries' /\ Recorded'
  BY <1>1
<1>7. Ended' => InstallAtRest'
  BY <1>1
<1>8. Promised
  BY <1>1, SeenAside
<1> QED
  BY <1>3, <1>4, <1>5, <1>6, <1>7, <1>8

LEMMA AllBackedUpKeeps ==
    ASSUME InstallInv, AllBackedUp
    PROVE  InstallInv' /\ Promised
<1> USE InstallationIs
<1>1. /\ install.step = "backup" /\ program = Empty /\ install'.step = "place"
      /\ install'.version = install.version /\ install'.placed = install.placed
      /\ install'.old = install.old /\ install'.persisting = install.persisting
      /\ install'.stuck = install.stuck /\ install'.stale = install.stale
      /\ install'.before = install.before /\ UNCHANGED <<runtimeState, loaded>>
      /\ UNCHANGED <<program, aside, staging, asideKept>>
      /\ UNCHANGED <<installFaults, installCrashes>>
  BY DEF AllBackedUp, GoTo, Works, Metadata0, boundVars, diskVars
<1>2. install' \in Installations
  BY <1>1 DEF AllBackedUp, GoTo, Works, Metadata0, boundVars, diskVars
<1> USE StateIs, EmptyIs DEF InstallInv, Moves
<1>3. InstallTypes'
  BY <1>1, <1>2
<1>4. ~Ended' => Progress'
  BY <1>1
<1>5. ~Ended' => OldEntries'
  <2>1. DOMAIN program = {} /\ DOMAIN program' = {}
    BY <1>1
  <2>2. DOMAIN Old = install.old
    BY <1>1, <2>1
  <2>3. \A e \in DOMAIN Old : OldStays(aside, e)
    BY <1>1, <2>2
  <2> QED
    BY <1>1, <2>1, <2>2, <2>3
<1>6. ~Ended' => NewEntries' /\ Recorded'
  BY <1>1, TreesAre
<1>7. Ended' => InstallAtRest'
  BY <1>1
<1>8. Promised
  BY <1>1, SeenAside
<1> QED
  BY <1>3, <1>4, <1>5, <1>6, <1>7, <1>8

LEMMA PlaceEntryKeeps ==
    ASSUME InstallInv, NEW e \in Names, PlaceEntry(e)
    PROVE  InstallInv' /\ Promised
<1> USE InstallationIs
<1>1. /\ install.step = "place" /\ e \in DOMAIN staging
      /\ install'.version = install.version /\ install'.old = install.old
      /\ install'.persisting = install.persisting /\ install'.stuck = install.stuck
      /\ install'.stale = install.stale /\ install'.before = install.before
      /\ \/ /\ Moves(staging, program, e, staging', program')
            /\ install'.placed = install.placed \cup {e} /\ install'.step = install.step
            /\ UNCHANGED <<installFaults, installCrashes>>
         \/ /\ UNCHANGED <<program, staging>> /\ install'.placed = install.placed
            /\ install'.step = "unplace" /\ installFaults' = installFaults + 1 /\ UNCHANGED installCrashes
      /\ UNCHANGED <<runtimeState, loaded>> /\ UNCHANGED <<aside, asideKept>>
  BY StateIs, MoveIs DEF PlaceEntry, GoTo, Works, Fails, Metadata0, boundVars
<1>2. install' \in Installations
  BY <1>1 DEF PlaceEntry, GoTo, Works, Fails, Metadata0, boundVars
<1> USE StateIs, EmptyIs DEF InstallInv, Moves
<1>3. InstallTypes'
  BY <1>1, <1>2
<1>4. ~Ended' => Progress'
  BY <1>1
<1>5. ~Ended' => OldEntries'
  BY <1>1
<1>6. ~Ended' => NewEntries' /\ Recorded'
  <2>1. CASE Moves(staging, program, e, staging', program')
    <3>1. install'.step = "place"
      BY <1>1, <2>1
    <3>2. /\ DOMAIN program' = install'.placed /\ e \in DOMAIN staging
          /\ DOMAIN program' \cup DOMAIN staging' = TopLevel[install.version]
      BY <1>1, <2>1
    <3>3. /\ \A x \in DOMAIN program' : program'[x] = install.version
          /\ \A x \in DOMAIN staging' : staging'[x] = install.version
      BY <1>1, <2>1
    <3> QED
      BY <1>1, <3>1, <3>2, <3>3
  <2>2. CASE install'.step = "unplace" /\ UNCHANGED program
    BY <1>1, <2>2
  <2> QED
    BY <1>1, <2>1, <2>2
<1>7. Ended' => InstallAtRest'
  BY <1>1
<1>8. Promised
  BY <1>1, SeenAside
<1> QED
  BY <1>3, <1>4, <1>5, <1>6, <1>7, <1>8

LEMMA AllPlacedKeeps ==
    ASSUME InstallInv, AllPlaced
    PROVE  InstallInv' /\ Promised
<1> USE InstallationIs
<1>1. /\ install.step = "place" /\ staging = Empty /\ install'.step = "refresh"
      /\ install'.version = install.version /\ install'.placed = install.placed
      /\ install'.old = install.old /\ install'.persisting = install.persisting
      /\ install'.stuck = install.stuck /\ install'.stale = install.stale
      /\ install'.before = install.before /\ UNCHANGED <<runtimeState, loaded>>
      /\ UNCHANGED <<program, aside, staging, asideKept>>
      /\ UNCHANGED <<installFaults, installCrashes>>
  BY DEF AllPlaced, GoTo, Works, Metadata0, boundVars, diskVars
<1>2. install' \in Installations
  BY <1>1 DEF AllPlaced, GoTo, Works, Metadata0, boundVars, diskVars
<1> USE StateIs, EmptyIs DEF InstallInv, Moves
<1>3. InstallTypes'
  BY <1>1, <1>2
<1>4. ~Ended' => Progress'
  BY <1>1
<1>5. ~Ended' => OldEntries'
  BY <1>1
<1>6. ~Ended' => NewEntries' /\ Recorded'
  BY <1>1, TreesAre, DirectoriesAre
<1>7. Ended' => InstallAtRest'
  BY <1>1
<1>8. Promised
  BY <1>1, SeenAside
<1> QED
  BY <1>3, <1>4, <1>5, <1>6, <1>7, <1>8

LEMMA RefreshKeeps ==
    ASSUME InstallInv, Refresh
    PROVE  InstallInv' /\ Promised
<1> USE InstallationIs
<1>1. /\ install.step = "refresh" /\ install'.version = install.version
      /\ install'.placed = install.placed /\ install'.old = install.old
      /\ install'.persisting = install.persisting /\ install'.stuck = install.stuck
      /\ install'.stale = install.stale /\ install'.before = install.before
      /\ \/ loaded' = VersionsOf(program) /\ install'.step = "persist" /\ UNCHANGED <<installFaults, installCrashes>>
         \/ UNCHANGED loaded /\ install'.step = "unplace" /\ installFaults' = installFaults + 1 /\ UNCHANGED installCrashes
      /\ UNCHANGED <<program, aside, staging, asideKept, runtimeState>>
  BY DEF Refresh, GoTo, Works, Fails, diskVars, boundVars
<1>2. install' \in Installations
  BY <1>1 DEF Refresh, GoTo, Works, Fails, diskVars, boundVars
<1> USE StateIs, EmptyIs DEF InstallInv, Moves
<1>3. InstallTypes'
  BY <1>1, <1>2, TreesAre, VersionsAre, InstallConstants
<1>4. ~Ended' => Progress'
  BY <1>1
<1>5. ~Ended' => OldEntries'
  BY <1>1
<1>6. ~Ended' => NewEntries' /\ Recorded'
  BY <1>1 DEF VersionsOf
<1>7. Ended' => InstallAtRest'
  BY <1>1
<1>8. Promised
  BY <1>1, SeenAside
<1> QED
  BY <1>3, <1>4, <1>5, <1>6, <1>7, <1>8

LEMMA PersistKeeps ==
    ASSUME InstallInv, Persist
    PROVE  InstallInv' /\ Promised
<1> USE InstallationIs
<1>1. /\ install.step = "persist" /\ install'.persisting = TRUE
      /\ install'.version = install.version /\ install'.placed = install.placed
      /\ install'.old = install.old /\ install'.stuck = install.stuck
      /\ install'.stale = install.stale /\ install'.before = install.before
      /\ \/ runtimeState' = install.version /\ install'.step = "discard" /\ UNCHANGED <<installFaults, installCrashes>>
         \/ /\ runtimeState' \in {runtimeState, install.version} /\ install'.step = "unplace"
            /\ installFaults' = installFaults + 1 /\ UNCHANGED installCrashes
      /\ UNCHANGED <<program, aside, staging, asideKept, loaded>>
  BY DEF Persist, Works, Fails, diskVars, boundVars
<1>2. install' \in Installations
  BY <1>1 DEF Persist, Works, Fails, diskVars, boundVars
<1> USE StateIs, EmptyIs DEF InstallInv, Moves
<1>3. InstallTypes'
  BY <1>1, <1>2
<1>4. ~Ended' => Progress'
  BY <1>1
<1>5. ~Ended' => OldEntries'
  BY <1>1
<1>6. ~Ended' => NewEntries' /\ Recorded'
  BY <1>1 DEF VersionsOf
<1>7. Ended' => InstallAtRest'
  BY <1>1
<1>8. Promised
  BY <1>1, SeenAside
<1> QED
  BY <1>3, <1>4, <1>5, <1>6, <1>7, <1>8

LEMMA DiscardKeeps ==
    ASSUME InstallInv, Discard
    PROVE  InstallInv' /\ Promised
<1> USE InstallationIs
<1>1. /\ install.step = "discard" /\ install'.step = "idle"
      /\ install'.version = install.version /\ install'.placed = install.placed
      /\ install'.old = install.old /\ install'.persisting = install.persisting
      /\ install'.stuck = install.stuck /\ install'.stale = install.stale
      /\ install'.before = install.before
      /\ \/ aside' = Empty /\ asideKept' = FALSE /\ UNCHANGED <<installFaults, installCrashes>>
         \/ /\ \E left \in SUBSET DOMAIN aside : aside' = [e \in left |-> aside[e]]
            /\ UNCHANGED asideKept /\ installFaults' = installFaults + 1 /\ UNCHANGED installCrashes
      /\ UNCHANGED <<runtimeState, loaded>> /\ UNCHANGED <<program, staging>>
  BY DEF Discard, GoTo, Works, Fails, Metadata0, boundVars
<1>2. install' \in Installations
  BY <1>1 DEF Discard, GoTo, Works, Fails, Metadata0, boundVars
<1> USE StateIs, EmptyIs DEF InstallInv, Moves
<1>3. InstallTypes'
  <2>3. asideKept
    BY <1>1
  <2> HIDE DEF InstallInv
  <2>1. aside' \in Trees /\ asideKept' \in BOOLEAN /\ (aside' # Empty => asideKept')
    <3>1. CASE aside' = Empty /\ asideKept' = FALSE
      BY <3>1, EmptyIs
    <3>2. CASE /\ \E left \in SUBSET DOMAIN aside : aside' = [e \in left |-> aside[e]]
               /\ UNCHANGED asideKept
      <4>1. aside' \in Trees
        BY <3>2, PartIs, StateIs
      <4> QED
        BY <2>3, <3>2, <4>1, StateIs
    <3> QED
      BY <1>1, <3>1, <3>2
  <2> QED
    BY <1>1, <1>2, <2>1, StateIs, EmptyIs
<1>4. ~Ended' => Progress'
  BY <1>1
<1>5. ~Ended' => OldEntries'
  BY <1>1
<1>6. ~Ended' => NewEntries' /\ Recorded'
  BY <1>1
<1>7. Ended' => InstallAtRest'
  BY <1>1 DEF VersionsOf
<1>8. Promised
  <2> DEFINE n == installFaults' - install.before.faults
  <2>1. ReleaseOf(program') = install.version /\ runtimeState' = install.version
    BY <1>1, ReleaseIs
  <2>2. asideKept' => installFaults' = install.before.faults + 1
    BY <1>1
  <2>7. /\ ~install.before.kept /\ install.before.faults = installFaults
        /\ install.before.crashes = installCrashes /\ asideKept
        /\ ~Ended /\ runtimeState = install.version
    BY <1>1
  <2> HIDE DEF InstallInv
  <2>3. /\ ~install.before.kept /\ install.before.faults \in Nat /\ installFaults' \in Nat
        /\ n \in Nat /\ ~Ended
        /\ installFaults' = install.before.faults + (n)
        /\ install.before.crashes = installCrashes /\ installCrashes \in Nat
        /\ \/ asideKept' /\ n = 1
           \/ asideKept' = FALSE /\ n = 0
    <3>1. \/ asideKept' = FALSE /\ installFaults' = installFaults
          \/ asideKept' /\ installFaults' = installFaults + 1
      BY <1>1, <2>7
    <3>2. /\ n \in Nat /\ installFaults' \in Nat
          /\ installFaults' = install.before.faults + (n)
          /\ \/ asideKept' /\ n = 1
             \/ asideKept' = FALSE /\ n = 0
      BY <2>7, <3>1, StateIs
    <3> QED
      BY <1>1, <2>7, <3>2, StateIs
  <2> HIDE DEF n
  <2>4. EndsAs(install.version, n, ReleaseOf(program'), install.before.runtime)
    BY <1>1, <2>1, <2>2, <2>3 DEF EndsAs
  <2>5. /\ ReleaseOf(program') \in {ReleaseOf(Old), install.version, "mixed"}
        /\ runtimeState' \in {install.before.runtime, install.version, Unreadable}
    BY <1>1, <2>1, <2>2
  <2>6. Ended' /\ asideKept' \in BOOLEAN /\ install.before.kept \in BOOLEAN
    BY <1>1, <1>3
  <2> QED
    BY <1>1, <2>3, <2>4, <2>5, <2>6, EndPromised
<1> QED
  BY <1>3, <1>4, <1>5, <1>6, <1>7, <1>8

LEMMA UnplaceEntryKeeps ==
    ASSUME InstallInv, NEW e \in Names, UnplaceEntry(e)
    PROVE  InstallInv' /\ Promised
<1> USE InstallationIs
<1>0. Moves(program, staging, e, OutOf(program, e), Into(staging, e, program[e]))
  <2>1. e \in DOMAIN program
    BY DEF UnplaceEntry, InstallInv, NewEntries
  <2> QED
    BY <2>1, StateIs, MoveIs
<1>1. /\ install.step = "unplace" /\ e \in install.placed
      /\ install'.placed = install.placed \ {e} /\ install'.step = install.step
      /\ install'.version = install.version /\ install'.old = install.old
      /\ install'.persisting = install.persisting /\ install'.stale = install.stale
      /\ install'.before = install.before
      /\ \/ /\ Moves(program, staging, e, program', staging')
            /\ install'.stuck = install.stuck /\ UNCHANGED <<installFaults, installCrashes>>
         \/ /\ UNCHANGED <<program, staging>> /\ install'.stuck = TRUE /\ installFaults' = installFaults + 1 /\ UNCHANGED installCrashes
      /\ UNCHANGED <<runtimeState, loaded>> /\ UNCHANGED <<aside, asideKept>>
  BY <1>0 DEF UnplaceEntry, Works, Fails, Metadata0, boundVars
<1>2. install' \in Installations
  BY <1>1 DEF UnplaceEntry, Works, Fails, Metadata0, boundVars
<1> USE StateIs, EmptyIs DEF InstallInv, Moves
<1>3. InstallTypes'
  BY <1>1, <1>2
<1>4. ~Ended' => Progress'
  BY <1>1
<1>5. ~Ended' => OldEntries'
  BY <1>1
<1>6. ~Ended' => NewEntries' /\ Recorded'
  BY <1>1
<1>7. Ended' => InstallAtRest'
  BY <1>1
<1>8. Promised
  BY <1>1, SeenAside
<1> QED
  BY <1>3, <1>4, <1>5, <1>6, <1>7, <1>8

LEMMA AllUnplacedKeeps ==
    ASSUME InstallInv, AllUnplaced
    PROVE  InstallInv' /\ Promised
<1> USE InstallationIs
<1>1. /\ install.step = "unplace" /\ install.placed = {} /\ install'.step = "restore"
      /\ install'.version = install.version /\ install'.placed = install.placed
      /\ install'.old = install.old /\ install'.persisting = install.persisting
      /\ install'.stuck = install.stuck /\ install'.stale = install.stale
      /\ install'.before = install.before /\ UNCHANGED <<runtimeState, loaded>>
      /\ UNCHANGED <<program, aside, staging, asideKept>>
      /\ UNCHANGED <<installFaults, installCrashes>>
  BY DEF AllUnplaced, GoTo, Works, Metadata0, boundVars, diskVars
<1>2. install' \in Installations
  BY <1>1 DEF AllUnplaced, GoTo, Works, Metadata0, boundVars, diskVars
<1> USE StateIs, EmptyIs DEF InstallInv, Moves
<1>3. InstallTypes'
  BY <1>1, <1>2
<1>4. ~Ended' => Progress'
  BY <1>1
<1>5. ~Ended' => OldEntries'
  BY <1>1
<1>6. ~Ended' => NewEntries' /\ Recorded'
  BY <1>1
<1>7. Ended' => InstallAtRest'
  BY <1>1
<1>8. Promised
  BY <1>1, SeenAside
<1> QED
  BY <1>3, <1>4, <1>5, <1>6, <1>7, <1>8

LEMMA RestoreEntryKeeps ==
    ASSUME InstallInv, NEW e \in Names, RestoreEntry(e)
    PROVE  InstallInv' /\ Promised
<1> USE InstallationIs
<1>0. Moves(aside, program, e, OutOf(aside, e), Into(program, e, aside[e]))
  <2>1. e \in DOMAIN aside
    BY DEF RestoreEntry, InstallInv, OldEntries
  <2> QED
    BY <2>1, StateIs, MoveIs
<1>1. /\ install.step = "restore" /\ e \in install.old
      /\ install'.old = install.old \ {e} /\ install'.step = install.step
      /\ install'.version = install.version /\ install'.placed = install.placed
      /\ install'.persisting = install.persisting /\ install'.stale = install.stale
      /\ install'.before = install.before
      /\ \/ /\ Moves(aside, program, e, aside', program')
            /\ install'.stuck = install.stuck /\ UNCHANGED <<installFaults, installCrashes>>
         \/ /\ UNCHANGED <<program, aside>> /\ install'.stuck = TRUE /\ UNCHANGED installCrashes
            /\ \/ e \in DOMAIN program /\ UNCHANGED installFaults
               \/ installFaults' = installFaults + 1
      /\ UNCHANGED <<runtimeState, loaded>> /\ UNCHANGED <<staging, asideKept>>
  BY <1>0 DEF RestoreEntry, Works, Fails, Metadata0, boundVars
<1>2. install' \in Installations
  BY <1>1 DEF RestoreEntry, Works, Fails, Metadata0, boundVars
<1> USE StateIs, EmptyIs DEF InstallInv, Moves
<1>3. InstallTypes'
  BY <1>1, <1>2
<1>4. ~Ended' => Progress'
  BY <1>1
<1>5. ~Ended' => OldEntries'
  BY <1>1
<1>6. ~Ended' => NewEntries' /\ Recorded'
  BY <1>1
<1>7. Ended' => InstallAtRest'
  BY <1>1
<1>8. Promised
  BY <1>1, SeenAside
<1> QED
  BY <1>3, <1>4, <1>5, <1>6, <1>7, <1>8

LEMMA AllRestoredKeeps ==
    ASSUME InstallInv, AllRestored
    PROVE  InstallInv' /\ Promised
<1> USE InstallationIs
<1>1. /\ install.step = "restore" /\ install.old = {}
      /\ install'.step = IF install.stuck THEN "metadata" ELSE "clean"
      /\ install'.version = install.version /\ install'.placed = install.placed
      /\ install'.old = install.old /\ install'.persisting = install.persisting
      /\ install'.stuck = install.stuck /\ install'.stale = install.stale
      /\ install'.before = install.before /\ UNCHANGED <<runtimeState, loaded>>
      /\ UNCHANGED <<program, aside, staging, asideKept>>
      /\ UNCHANGED <<installFaults, installCrashes>>
  BY DEF AllRestored, GoTo, Works, Metadata0, boundVars, diskVars
<1>2. install' \in Installations
  BY <1>1 DEF AllRestored, GoTo, Works, Metadata0, boundVars, diskVars
<1> USE StateIs, EmptyIs DEF InstallInv, Moves
<1>3. InstallTypes'
  BY <1>1, <1>2
<1>4. ~Ended' => Progress'
  BY <1>1
<1>5. ~Ended' => OldEntries'
  BY <1>1, DirectoriesAre
<1>6. ~Ended' => NewEntries' /\ Recorded'
  BY <1>1
<1>7. Ended' => InstallAtRest'
  BY <1>1
<1>8. Promised
  BY <1>1, SeenAside
<1> QED
  BY <1>3, <1>4, <1>5, <1>6, <1>7, <1>8

LEMMA CleanKeeps ==
    ASSUME InstallInv, Clean
    PROVE  InstallInv' /\ Promised
<1> USE InstallationIs
<1>1. /\ install.step = "clean" /\ install'.step = "metadata"
      /\ install'.version = install.version /\ install'.placed = install.placed
      /\ install'.old = install.old /\ install'.persisting = install.persisting
      /\ install'.stuck = install.stuck /\ install'.stale = install.stale
      /\ install'.before = install.before /\ aside' = Empty /\ staging' = Empty
      /\ \/ asideKept' = FALSE /\ UNCHANGED <<installFaults, installCrashes>>
         \/ UNCHANGED asideKept /\ installFaults' = installFaults + 1 /\ UNCHANGED installCrashes
      /\ UNCHANGED <<runtimeState, loaded>> /\ UNCHANGED <<program>>
  BY DEF Clean, GoTo, Works, Fails, Metadata0, boundVars
<1>2. install' \in Installations
  BY <1>1 DEF Clean, GoTo, Works, Fails, Metadata0, boundVars
<1> USE StateIs, EmptyIs DEF InstallInv, Moves
<1>3. InstallTypes'
  <2> HIDE DEF InstallInv
  <2>1. aside' = Empty /\ staging' = Empty /\ asideKept' \in BOOLEAN
    BY <1>1, StateIs
  <2> QED
    BY <1>1, <1>2, <2>1, StateIs, EmptyIs
<1>4. ~Ended' => Progress'
  <2>1. /\ install.before.faults + 1 <= installFaults /\ ~install.stuck
        /\ ~install.before.kept /\ install.before.crashes = installCrashes
        /\ ~install.stale /\ \E u \in GameReleases : Old = Tree(u)
    BY <1>1
  <2> HIDE DEF InstallInv
  <2>2. /\ asideKept' => install.before.faults + 2 <= installFaults'
        /\ install.before.faults + 1 <= installFaults'
    BY <1>1, <2>1
  <2> QED
    BY <1>1, <2>1, <2>2
<1>5. ~Ended' => OldEntries'
  BY <1>1
<1>6. ~Ended' => NewEntries' /\ Recorded'
  BY <1>1
<1>7. Ended' => InstallAtRest'
  BY <1>1
<1>8. Promised
  BY <1>1, SeenAside
<1> QED
  BY <1>3, <1>4, <1>5, <1>6, <1>7, <1>8

LEMMA RestoreMetadataKeeps ==
    ASSUME InstallInv, RestoreMetadata
    PROVE  InstallInv' /\ Promised
<1> USE InstallationIs
<1>1. /\ install.step = "metadata" /\ install'.step = "reload"
      /\ install'.version = install.version /\ install'.placed = install.placed
      /\ install'.old = install.old /\ install'.persisting = install.persisting
      /\ install'.stuck = install.stuck /\ install'.stale = install.stale
      /\ install'.before = install.before /\ staging' = Empty
      /\ \/ install.persisting /\ runtimeState' = install.before.runtime /\ UNCHANGED <<installFaults, installCrashes>>
         \/ ~install.persisting /\ UNCHANGED runtimeState /\ UNCHANGED <<installFaults, installCrashes>>
         \/ /\ install.persisting /\ runtimeState' \in {runtimeState, Unreadable}
            /\ installFaults' = installFaults + 1 /\ UNCHANGED installCrashes
      /\ UNCHANGED <<program, aside, asideKept, loaded>>
  BY DEF RestoreMetadata, GoTo, Works, Fails, boundVars
<1>2. install' \in Installations
  BY <1>1 DEF RestoreMetadata, GoTo, Works, Fails, boundVars
<1> USE StateIs, EmptyIs DEF InstallInv, Moves
<1>3. InstallTypes'
  BY <1>1, <1>2
<1>4. ~Ended' => Progress'
  BY <1>1
<1>5. ~Ended' => OldEntries'
  BY <1>1
<1>6. ~Ended' => NewEntries' /\ Recorded'
  BY <1>1
<1>7. Ended' => InstallAtRest'
  BY <1>1
<1>8. Promised
  BY <1>1, SeenAside
<1> QED
  BY <1>3, <1>4, <1>5, <1>6, <1>7, <1>8

LEMMA ReloadMetadataKeeps ==
    ASSUME InstallInv, ReloadMetadata
    PROVE  InstallInv' /\ Promised
<1> USE InstallationIs
<1>1. /\ install.step = "reload" /\ install'.step = "idle"
      /\ install'.version = install.version /\ install'.placed = install.placed
      /\ install'.old = install.old /\ install'.persisting = install.persisting
      /\ install'.stuck = install.stuck /\ install'.before = install.before
      /\ \/ /\ Metadata \subseteq DOMAIN program /\ loaded' = VersionsOf(program)
            /\ install'.stale = install.stale /\ UNCHANGED <<installFaults, installCrashes>>
         \/ /\ install'.stale = TRUE /\ UNCHANGED <<loaded, installCrashes>>
            /\ installFaults' \in {installFaults, installFaults + 1}
      /\ UNCHANGED <<program, aside, staging, asideKept, runtimeState>>
  BY DEF ReloadMetadata, GoTo, Works, Fails, diskVars, boundVars
<1>2. install' \in Installations
  BY <1>1 DEF ReloadMetadata, GoTo, Works, Fails, diskVars, boundVars
<1> USE StateIs, EmptyIs DEF InstallInv, Moves
<1>3. InstallTypes'
  BY <1>1, <1>2, VersionsAre
<1>4. ~Ended' => Progress'
  BY <1>1
<1>5. ~Ended' => OldEntries'
  BY <1>1
<1>6. ~Ended' => NewEntries' /\ Recorded'
  BY <1>1
<1>7. Ended' => InstallAtRest'
  BY <1>1 DEF VersionsOf
<1>8. Promised
  <2> DEFINE n == installFaults' - install.before.faults
  <2>1. ReleaseOf(program') \in {ReleaseOf(Old), install.version, "mixed"}
    BY <1>1, ReleaseHere
  <2>2. ~install.stuck => ReleaseOf(program') = ReleaseOf(Old)
    BY <1>1
  <2>3. /\ ~install.before.kept /\ install.before.faults \in Nat /\ installFaults' \in Nat
        /\ n \in Nat /\ n > 0 /\ installFaults' = install.before.faults + (n)
        /\ install.before.crashes = installCrashes /\ installCrashes \in Nat
        /\ asideKept => n > 1
        /\ runtimeState # install.before.runtime => n > 1 /\ (asideKept => n > 2)
    BY <1>1
  <2> HIDE DEF n
  <2>4. EndsAs(install.version, n, ReleaseOf(program'), install.before.runtime)
    BY <1>1, <2>1, <2>2, <2>3 DEF EndsAs
  <2>5. /\ ReleaseOf(program') \in {ReleaseOf(Old), install.version, "mixed"}
        /\ runtimeState' \in {install.before.runtime, install.version, Unreadable}
    BY <1>1, <2>1, <2>2
  <2>6. Ended' /\ asideKept' \in BOOLEAN /\ install.before.kept \in BOOLEAN
    BY <1>1, <1>3
  <2> QED
    BY <1>1, <2>3, <2>4, <2>5, <2>6, EndPromised
<1> QED
  BY <1>3, <1>4, <1>5, <1>6, <1>7, <1>8

LEMMA InstallCutKeeps ==
    ASSUME InstallInv, InstallCut
    PROVE  InstallInv' /\ Promised
<1> USE InstallationIs
<1>1. /\ ~Ended /\ install'.step = "down" /\ install'.version = install.version
      /\ install'.placed = install.placed /\ install'.old = install.old
      /\ install'.persisting = install.persisting /\ install'.stuck = install.stuck
      /\ install'.stale = install.stale /\ install'.before = install.before
      /\ staging' = Empty /\ installCrashes' = installCrashes + 1
      /\ UNCHANGED <<installFaults, program, asideKept, loaded>>
      /\ \/ UNCHANGED <<aside, runtimeState>>
         \/ /\ install.step = "discard" /\ UNCHANGED runtimeState
            /\ \E left \in SUBSET DOMAIN aside : aside' = [e \in left |-> aside[e]]
         \/ /\ install.step = "metadata" /\ install.persisting /\ runtimeState' = Unreadable
            /\ UNCHANGED aside
  BY DEF InstallCut, Ended, GoTo, AtStep
<1>2. install' \in Installations
  BY <1>1 DEF InstallCut, Ended, GoTo, AtStep
<1> USE StateIs, EmptyIs DEF InstallInv, Moves
<1>3. InstallTypes'
  BY <1>1, <1>2, PartIs
<1>4. ~Ended' => Progress'
  BY <1>1
<1>5. ~Ended' => OldEntries'
  BY <1>1
<1>6. ~Ended' => NewEntries' /\ Recorded'
  BY <1>1
<1>7. Ended' => InstallAtRest'
  BY <1>1
<1>8. Promised
  <2> DEFINE n == installFaults' - install.before.faults
  <2>1. ReleaseOf(program') \in {ReleaseOf(Old), install.version, "mixed"} /\ ReleaseOf(Old) # "mixed"
    BY <1>1, ReleaseHere
  <2>2. ~asideKept => ReleaseOf(program') = ReleaseOf(Old)
    BY <1>1
  <2>8. /\ ~install.before.kept /\ install.before.crashes = installCrashes /\ ~Ended
        /\ \/ installFaults = install.before.faults /\ install.step \in Forward
           \/ InstallFailed(1)
    BY <1>1
  <2>3. /\ ~install.before.kept /\ install.before.faults \in Nat /\ installFaults' \in Nat
        /\ n \in Nat /\ installFaults' = install.before.faults + (n)
        /\ install.before.crashes = installCrashes /\ installCrashes \in Nat
        /\ n = 0 => install.step \in Forward
    <3> HIDE DEF InstallInv
    <3> QED
      BY <1>1, <2>8
  <2>7. n = 0 => \/ runtimeState' = install.before.runtime
                 \/ ReleaseOf(program') = install.version /\ runtimeState' = install.version
    BY <1>1, <2>3, ReleaseIs
  <2> HIDE DEF n
  <2>4. EndsAs(install.version, n, ReleaseOf(program'), install.before.runtime)
    BY <1>1, <2>1, <2>2, <2>3, <2>7 DEF EndsAs
  <2>5. /\ ReleaseOf(program') \in {ReleaseOf(Old), install.version, "mixed"}
        /\ runtimeState' \in {install.before.runtime, install.version, Unreadable}
    BY <1>1, <2>1, <2>2
  <2>6. Ended' /\ asideKept' \in BOOLEAN /\ install.before.kept \in BOOLEAN
    BY <1>1, <1>3
  <2> QED
    BY <1>1, <2>3, <2>4, <2>5, <2>6, EndPromised
<1> QED
  BY <1>3, <1>4, <1>5, <1>6, <1>7, <1>8

LEMMA StartManagerKeeps ==
    ASSUME InstallInv, StartManager
    PROVE  InstallInv' /\ Promised
<1> USE InstallationIs
<1>1. /\ install.step = "down" /\ Metadata \subseteq DOMAIN program
      /\ loaded' = VersionsOf(program) /\ install'.step = "idle"
      /\ install'.stale = FALSE /\ install'.version = install.version
      /\ install'.placed = install.placed /\ install'.old = install.old
      /\ install'.persisting = install.persisting /\ install'.stuck = install.stuck
      /\ install'.before = install.before
      /\ UNCHANGED <<program, aside, staging, asideKept, runtimeState>>
      /\ UNCHANGED <<installFaults, installCrashes>>
  BY DEF StartManager, Works, diskVars, boundVars
<1>2. install' \in Installations
  BY <1>1 DEF StartManager, Works, diskVars, boundVars
<1> USE StateIs, EmptyIs DEF InstallInv, Moves
<1>3. InstallTypes'
  BY <1>1, <1>2, VersionsAre
<1>4. ~Ended' => Progress'
  BY <1>1
<1>5. ~Ended' => OldEntries'
  BY <1>1
<1>6. ~Ended' => NewEntries' /\ Recorded'
  BY <1>1
<1>7. Ended' => InstallAtRest'
  BY <1>1 DEF VersionsOf
<1>8. Promised
  BY <1>1 DEF Promised, Seen, Now, Promise!releaseVars
<1> QED
  BY <1>3, <1>4, <1>5, <1>6, <1>7, <1>8

-----------------------------------------------------------------------------
(* The theorems.                                                           *)

LEMMA InstallBegins == ReleaseInstallInit => InstallInv /\ Promise!ReleaseInit
<1> SUFFICES ASSUME ReleaseInstallInit
             PROVE  InstallInv /\ Promise!ReleaseInit
  OBVIOUS
<1>1. Tree(FirstRelease) \in Trees /\ FirstRelease \in GameReleases
  BY InstallConstants, TreesAre
<1>2. /\ program = Tree(FirstRelease) /\ aside = Empty /\ staging = Empty
      /\ asideKept = FALSE /\ runtimeState = FirstRelease /\ loaded = VersionsOf(program)
      /\ installFaults = 0 /\ installCrashes = 0
      /\ install = [step |-> "idle", version |-> FirstRelease, placed |-> {}, old |-> {},
                    persisting |-> FALSE, stuck |-> FALSE, stale |-> FALSE, before |-> Now]
  BY DEF ReleaseInstallInit
<1>3. Now \in States
  BY <1>1, <1>2 DEF Now
<1>4. install \in Installations
  BY <1>1, <1>2, <1>3
<1>5. loaded \in [Metadata -> GameReleases] /\ \A m \in Metadata : loaded[m] = program[m]
  BY <1>1, <1>2, InstallConstants, TreesAre, VersionsAre
<1>6. InstallTypes
  BY <1>1, <1>2, <1>4, <1>5, EmptyIs
<1>7. InstallAtRest /\ Ended
  BY <1>1, <1>2, <1>5
<1>8. Promise!ReleaseInit
  <2>1. /\ ReleaseOf(Seen.program) = FirstRelease /\ Seen.runtime = FirstRelease
        /\ Seen.kept = FALSE /\ Seen.faults = 0 /\ Seen.crashes = 0
    BY <1>1, <1>2, ReleaseIs DEF Seen, Now
  <2> QED
    BY <1>1, <2>1 DEF Promise!ReleaseInit
<1> QED
  BY <1>6, <1>7, <1>8 DEF InstallInv

LEMMA InstallationStep ==
    InstallInv /\ [ReleaseInstallNext]_releaseInstallVars => InstallInv' /\ Promised
<1> SUFFICES ASSUME InstallInv, [ReleaseInstallNext]_releaseInstallVars
             PROVE  InstallInv' /\ Promised
  OBVIOUS
<1>1. CASE UNCHANGED releaseInstallVars
  <2>1. UNCHANGED <<program, aside, staging, asideKept, runtimeState, loaded, install,
                    installFaults, installCrashes>>
    BY <1>1 DEF releaseInstallVars, diskVars, boundVars
  <2>2. InstallInv'
    BY <2>1 DEF InstallInv, VersionsOf
  <2>3. Promised
    BY <2>1 DEF Promised, Promise!releaseVars, Seen, Now
  <2> QED
    BY <2>2, <2>3
<1>2. CASE ReleaseInstallNext
  <2>1. ASSUME NEW e \in Names,
               BackUpEntry(e) \/ PlaceEntry(e) \/ UnplaceEntry(e) \/ RestoreEntry(e)
        PROVE  InstallInv' /\ Promised
    BY <2>1, BackUpEntryKeeps, PlaceEntryKeeps, UnplaceEntryKeeps, RestoreEntryKeeps
  <2>2. ASSUME NEW v \in GameReleases, BeginInstall(v)
        PROVE  InstallInv' /\ Promised
    BY <2>2, BeginInstallKeeps
  <2> QED
    BY <1>2, <2>1, <2>2, StageReleaseKeeps, AllBackedUpKeeps, AllPlacedKeeps, RefreshKeeps,
       PersistKeeps, DiscardKeeps, AllUnplacedKeeps, AllRestoredKeeps, CleanKeeps,
       RestoreMetadataKeeps, ReloadMetadataKeeps, InstallCutKeeps, StartManagerKeeps
       DEF ReleaseInstallNext
<1> QED
  BY <1>1, <1>2

LEMMA AlwaysInstallInv == ReleaseInstallSpec => []InstallInv
BY InstallBegins, InstallationStep, PTL DEF ReleaseInstallSpec

\* The state of an installation has its type.
THEOREM InstallTypeCorrect == ReleaseInstallSpec => []ReleaseTypeOK
<1>1. InstallInv => ReleaseTypeOK
  BY DEF InstallInv
<1> QED
  BY <1>1, AlwaysInstallInv, PTL

\* Whichever renames, writes and removals fail, those of the recovery too, and whenever the
\* manager dies: until the new release is in place every entry of the old one is in the
\* program directory or in the backup (release_files.go:66).
THEOREM OldReleaseIsKept == ReleaseInstallSpec => []OldReleaseKept
<1>1. InstallInv => OldReleaseKept
  <2> SUFFICES ASSUME InstallInv
               PROVE  OldReleaseKept
    OBVIOUS
  <2>1. CASE Ended /\ \E u \in GameReleases : program = Tree(u)
    <3>1. ReleaseOf(program) # "mixed"
      BY <2>1, ReleaseIs, InstallConstants
    <3> QED
      BY <2>1, <3>1 DEF InstallInv, OldReleaseKept
  <2>2. CASE ~(Ended /\ \E u \in GameReleases : program = Tree(u))
    BY <2>2 DEF InstallInv, OldReleaseKept
  <2> QED
    BY <2>1, <2>2
<1> QED
  BY <1>1, AlwaysInstallInv, PTL

\* An installation does what ReleasePromise lets it do: after one failed step the program
\* files are those of one release and runtime-state.json names it, and files of two
\* releases have their backup beside them (release_install.go:138).
THEOREM ReleaseIsKept == ReleaseInstallSpec => KeepsRelease
<1>1. ReleaseInstallInit => Promise!ReleaseInit
  BY InstallBegins
<1>2. InstallInv /\ [ReleaseInstallNext]_releaseInstallVars
        => [Promise!ReleaseStep]_<<Promise!releaseVars, Seen.faults, Seen.crashes>>
  BY InstallationStep DEF Promised
<1> QED
  BY <1>1, <1>2, AlwaysInstallInv, PTL DEF ReleaseInstallSpec, KeepsRelease, Promise!ReleaseSpec
=============================================================================
