------------------------------- MODULE ModPlan -------------------------------
(***************************************************************************)
(* The planner of the mod portal (factorio/mod_dependencies.go,            *)
(* mod_dependency_plan.go): which mods, at which versions, an installation *)
(* needs.  The planner is recursive and never takes a choice back: it      *)
(* gathers constraints per mod, chooses again when one is added and goes   *)
(* on into the dependencies of what it chose.  A frame of `calls` is one   *)
(* processNode under way; the order in which a mod lists its dependencies  *)
(* is left open.                                                           *)
(***************************************************************************)
EXTENDS Versions, Sequences, FiniteSets

CONSTANTS
    Portals,        \* for each name the compatible releases and their dependencies
    BuiltIn,        \* the mods below data/, likewise with one version each
    Shelves,        \* what may be installed at first: name -> version, enabled
    Root,           \* the mod that is asked for
    RootVersion,
    Choices,        \* the sets of optional mods a user may select
    MaximumItems    \* maximumModInstallPlanItems

\* A dependency as it is parsed; a recommended mod is an optional one to the planner.
IsDependency(d) == DOMAIN d = {"kind", "name", "op", "version"}

ASSUME PlanConstants ==
    /\ RootVersion \in Version \ {NilVersion}
    /\ Root \notin {"base", "core"}
    /\ MaximumItems \in Nat \ {0}
    /\ \A p \in Portals : IsFiniteSet(DOMAIN p) /\ \A n \in DOMAIN p :
          /\ DOMAIN p[n] \subseteq Version /\ IsFiniteSet(DOMAIN p[n])
          /\ \A v \in DOMAIN p[n] :
                IsFiniteSet(p[n][v]) /\ \A d \in p[n][v] : IsDependency(d)
    /\ IsFiniteSet(DOMAIN BuiltIn)
    /\ \A n \in DOMAIN BuiltIn :
          /\ BuiltIn[n].version \in Version /\ IsFiniteSet(BuiltIn[n].dependencies)
          /\ \A d \in BuiltIn[n].dependencies : IsDependency(d)

VARIABLES
    portal, mods,   \* the portal; the installed mods
    selected,       \* the optional mods of the request
    defaults,       \* UseOptionalDefaults: select every optional mod of a first plan
    stage,          \* where the request is
    calls,          \* processNode calls under way, the innermost last
    plan,           \* the planner's tables
    fallback,       \* the first plan, once it is kept in case the second fails
    left            \* what InstallModPlan still has to install

planVars == <<portal, mods, selected, defaults, stage, calls, plan, fallback, left>>

NoNames == [n \in {} |-> 0]
Set(f, n, value) == [m \in DOMAIN f \cup {n} |-> IF m = n THEN value ELSE f[m]]
Drop(f, n) == [m \in DOMAIN f \ {n} |-> f[m]]

Ignored == {"base", "core"}
RootDependency == [kind |-> "required", name |-> Root, op |-> "==", version |-> RootVersion]

Known(n) == n \in DOMAIN BuiltIn \/ n \in DOMAIN portal
Releases(n) == IF n \in DOMAIN BuiltIn THEN {BuiltIn[n].version} ELSE DOMAIN portal[n]
Dependencies(n, v) == IF n \in DOMAIN BuiltIn THEN BuiltIn[n].dependencies ELSE portal[n][v]
Enabled(n) == n \in DOMAIN mods /\ mods[n].enabled

\* The planner's tables: the chosen mods and their versions, the constraints
\* gathered for each, the optional mods met (and whether they are selected),
\* the releases whose dependencies were read, and the incompatibilities found.
EmptyPlan == [nodes |-> NoNames, constraints |-> NoNames, optional |-> NoNames,
              processed |-> {}, incompatible |-> {}]
FirstCall == <<[name |-> Root, version |-> NilVersion, todo |-> {RootDependency}, offered |-> ""]>>

PlanInit ==
    /\ portal \in Portals /\ mods \in Shelves
    /\ selected \in Choices /\ defaults \in BOOLEAN
    /\ stage = "planning" /\ calls = FirstCall /\ plan = EmptyPlan
    /\ fallback = {} /\ left = {}

----------------------------------------------------------------------------
(* The planner                                                             *)

Top == calls[Len(calls)]
Below == SubSeq(calls, 1, Len(calls) - 1)
\* The innermost call has dealt with a dependency.
Past(d) == Append(Below, [Top EXCEPT !.todo = @ \ {d}])

\* The next dependency of the mod in work.
Due(d) == stage = "planning" /\ Len(calls) > 0 /\ d \in Top.todo

Planning == UNCHANGED <<portal, mods, selected, defaults, stage, fallback, left>>
Passed(d) == calls' = Past(d) /\ UNCHANGED plan /\ Planning

\* An error.  Optional mods that cannot be resolved together leave the first
\* plan in force.
Refuse ==
    /\ calls' = <<>>
    /\ \/ fallback = {} /\ stage' = "refused" /\ UNCHANGED plan
       \/ stage' = "planned" /\ plan' \in fallback
    /\ UNCHANGED <<portal, mods, selected, defaults, fallback, left>>

Preferred(n) == IF n # Root /\ n \in DOMAIN mods THEN mods[n].version ELSE NilVersion

GatheredLast(d) == {d}  \* mutant of Gathered: the last constraint counts
Gathered(d) ==
    {d} \cup (IF d.name \in DOMAIN plan.constraints THEN plan.constraints[d.name] ELSE {})

\* The constraints leave a release, and the plan stays below its limit.
Resolvable(d) ==
    /\ d.name \in DOMAIN plan.nodes \/ Cardinality(DOMAIN plan.nodes) < MaximumItems
    /\ Known(d.name) /\ ReleasesFor(Releases(d.name), Gathered(d)) # {}

\* The release that is chosen.
Choose(d) == ChooseRelease(Releases(d.name), Gathered(d), Preferred(d.name))

\* Its dependencies are next, unless they were read before.
AheadAgain(n, v) == Dependencies(n, v)  \* mutant of Ahead: they are read again
Ahead(n, v) == IF <<n, v>> \in plan.processed THEN {} ELSE Dependencies(n, v)

Enter(d, rest, offered) ==
    LET n == d.name
        v == Choose(d)
    IN /\ plan' = [plan EXCEPT !.nodes = Set(@, n, v), !.constraints = Set(@, n, Gathered(d)),
                               !.optional = Drop(@, n), !.processed = @ \cup {<<n, v>>}]
       /\ calls' = Append(rest, [name |-> n, version |-> v, offered |-> offered, todo |-> Ahead(n, v)])
       /\ Planning

SkipBase(d) ==
    /\ Due(d) /\ d.kind # "incompatible" /\ d.name \in Ignored
    /\ Passed(d)

ResolveRequired(d) ==
    /\ Due(d) /\ d.kind = "required" /\ d.name \notin Ignored
    /\ IF Resolvable(d) THEN Enter(d, Past(d), "") ELSE Refuse

NoteIncompatible(d) ==
    /\ Due(d) /\ d.kind = "incompatible"
    /\ calls' = Past(d)
    /\ plan' = [plan EXCEPT !.incompatible = @ \cup {<<Top.name, d>>}]
    /\ Planning

\* describeOptional finds a release.
OnOffer(d) == Known(d.name) /\ ReleasesFor(Releases(d.name), {d}) # {}

\* An optional mod that the plan holds already is left as it is.
OptionalPresent(d) ==
    /\ Due(d) /\ d.kind = "optional" /\ d.name \in DOMAIN plan.nodes
    /\ Passed(d)

\* One that nobody selected is offered; without a release there is a warning.
OfferOptional(d) ==
    /\ Due(d) /\ d.kind = "optional" /\ d.name \notin Ignored \cup DOMAIN plan.nodes
    /\ d.name \notin selected
    /\ calls' = Past(d)
    /\ plan' = IF OnOffer(d) /\ d.name \notin DOMAIN plan.optional
               THEN [plan EXCEPT !.optional = Set(@, d.name, FALSE)] ELSE plan
    /\ Planning

\* One that was selected is required from here on.
ResolveSelected(d) ==
    /\ Due(d) /\ d.kind = "optional" /\ d.name \notin Ignored \cup DOMAIN plan.nodes
    /\ d.name \in selected
    /\ LET wanted == [d EXCEPT !.kind = "required"]
       IN IF OnOffer(d) /\ Resolvable(wanted) THEN Enter(wanted, Past(d), d.name) ELSE Refuse

\* processNode returns; a selected mod is now listed among the optional ones.
ReturnFromNode ==
    /\ stage = "planning" /\ Len(calls) > 1 /\ Top.todo = {}
    /\ calls' = Below
    /\ plan' = IF Top.offered = "" THEN plan
               ELSE [plan EXCEPT !.optional = Set(@, Top.offered, TRUE)]
    /\ Planning

Planned == stage = "planning" /\ Len(calls) = 1 /\ Top.todo = {}

\* The end of build: the plan, or with optional defaults a second build with
\* every optional mod of the first selected.
EndPlan ==
    /\ Planned /\ (~defaults \/ fallback # {})
    /\ stage' = "planned" /\ calls' = <<>>
    /\ UNCHANGED <<portal, mods, selected, defaults, plan, fallback, left>>

PlanWithDefaults ==
    /\ Planned /\ defaults /\ fallback = {}
    /\ fallback' = {plan} /\ selected' = selected \cup DOMAIN plan.optional
    /\ calls' = FirstCall /\ plan' = EmptyPlan
    /\ UNCHANGED <<portal, mods, defaults, stage, left>>

----------------------------------------------------------------------------
(* InstallModPlan                                                          *)

\* The user submits what the review shows, and it is planned once more.
SubmitReviewed ==
    /\ stage = "planned" /\ defaults
    /\ selected' = {n \in DOMAIN plan.optional : plan.optional[n]}
    /\ defaults' = FALSE /\ fallback' = {}
    /\ stage' = "planning" /\ calls' = FirstCall /\ plan' = EmptyPlan
    /\ UNCHANGED <<portal, mods, left>>

ConflictsInPlan ==  \* mutant of Conflicts: what is installed is not asked
    {c \in plan.incompatible : c[2].name \in DOMAIN plan.nodes}
\* addConflictIfActive: whatever version of the other mod it is.
Conflicts == {c \in plan.incompatible : Enabled(c[2].name) \/ c[2].name \in DOMAIN plan.nodes}

InstallModPlan ==
    /\ stage = "planned" /\ ~defaults
    /\ IF Conflicts # {} THEN stage' = "refused" /\ UNCHANGED left
                         ELSE stage' = "installing" /\ left' = DOMAIN plan.nodes
    /\ UNCHANGED <<portal, mods, selected, defaults, calls, plan, fallback>>

\* One mod after the other, in an order the model leaves open: the archive when
\* that version is not there, then its entry in the mod list.  DownloadMod
\* replaces the archives of older versions.
InstallItem(n) ==
    /\ stage = "installing" /\ n \in left
    /\ left' = left \ {n}
    /\ mods' = Set(mods, n, [version |-> plan.nodes[n], enabled |-> TRUE])
    /\ UNCHANGED <<portal, selected, defaults, stage, calls, plan, fallback>>

\* A download or a write fails, or the server was started; a mod that was
\* downloaded keeps the state of its entry, new ones are enabled.
InstallItemFails(n) ==
    /\ stage = "installing" /\ n \in left
    /\ stage' = "failed"
    /\ mods' \in {mods, Set(mods, n, [version |-> plan.nodes[n],
                                       enabled |-> n \in DOMAIN mods => mods[n].enabled])}
    /\ UNCHANGED <<portal, selected, defaults, calls, plan, fallback, left>>

EndInstall ==
    /\ stage = "installing" /\ left = {}
    /\ stage' = "installed"
    /\ UNCHANGED <<portal, mods, selected, defaults, calls, plan, fallback, left>>

----------------------------------------------------------------------------

Consider(d) ==
    \/ SkipBase(d) \/ ResolveRequired(d) \/ NoteIncompatible(d)
    \/ OptionalPresent(d) \/ OfferOptional(d) \/ ResolveSelected(d)

PlanNext ==
    \/ Len(calls) > 0 /\ \E d \in Top.todo : Consider(d)
    \/ ReturnFromNode \/ EndPlan \/ PlanWithDefaults
    \/ SubmitReviewed \/ InstallModPlan \/ EndInstall
    \/ \E n \in left : InstallItem(n) \/ InstallItemFails(n)

PlanSpec == PlanInit /\ [][PlanNext]_planVars

----------------------------------------------------------------------------
(* Properties                                                              *)

Required(n, v) == {d \in Dependencies(n, v) : d.kind = "required" /\ d.name \notin Ignored}

PlanTypeOK ==
    /\ portal \in Portals /\ selected \subseteq (UNION Choices) \cup DOMAIN portal \cup DOMAIN BuiltIn
    /\ defaults \in BOOLEAN
    /\ stage \in {"planning", "planned", "refused", "installing", "installed", "failed"}
    /\ \A n \in DOMAIN plan.nodes : Known(n) /\ plan.nodes[n] \in Releases(n)
    /\ left \subseteq DOMAIN plan.nodes

\* The planner never goes back to a choice, yet its plan holds the mod that was
\* asked for and meets every requirement of every mod in it, at the version it
\* ends with (mod_dependencies.go:231).
PlanSound ==
    stage \in {"planned", "installing", "installed"} =>
        /\ Root \in DOMAIN plan.nodes /\ plan.nodes[Root] = RootVersion
        /\ \A n \in DOMAIN plan.nodes : \A d \in Required(n, plan.nodes[n]) :
              d.name \in DOMAIN plan.nodes /\ Matches(plan.nodes[d.name], d)

\* What an installation leaves works together: every mod of the plan is enabled
\* at its version, so are its requirements, and nothing that is enabled is
\* incompatible with it (mod_dependency_plan.go:78).
InstalledWorks ==
    stage = "installed" =>
        \A n \in DOMAIN plan.nodes :
            /\ Enabled(n) /\ mods[n].version = plan.nodes[n]
            /\ \A d \in Dependencies(n, mods[n].version) :
                 /\ d.kind = "required" /\ d.name \notin Ignored =>
                      Enabled(d.name) /\ Matches(mods[d.name].version, d)
                 /\ d.kind = "incompatible" => ~Enabled(d.name)

\* A plan is sound and what it installs works (mod_dependencies.go:231,
\* mod_dependency_plan.go:78).
PlanWorks == PlanSound /\ InstalledWorks

\* The releases there are, those whose dependencies were not read yet, and the
\* dependencies that the calls still have to deal with.
AllReleases == UNION {{n} \X Releases(n) : n \in DOMAIN BuiltIn \cup DOMAIN portal}
UnreadReleases == AllReleases \ plan.processed
Awaiting(cs) == UNION {{i} \X cs[i].todo : i \in 1..Len(cs)}

\* How far a request is from its end: the builds and the installation that are
\* still to come, what the present one has not read or installed yet, and the
\* calls under way with what they have to deal with.
StagesLeft ==
    CASE stage = "planning" /\ defaults /\ fallback = {} -> 6
      [] stage = "planning" /\ defaults /\ fallback # {} -> 5
      [] stage = "planned" /\ defaults -> 4
      [] stage = "planning" /\ ~defaults -> 3
      [] stage = "planned" /\ ~defaults -> 2
      [] stage = "installing" -> 1
      [] stage \notin {"planning", "planned", "installing"} -> 0
ItemsLeft ==
    CASE stage = "planning" -> Cardinality(UnreadReleases)
      [] stage = "installing" -> Cardinality(left)
      [] stage \notin {"planning", "installing"} -> 0
CallsLeft == IF stage = "planning" THEN 2 * Cardinality(Awaiting(calls)) + Len(calls) ELSE 0

\* The distance is counted in naturals.
DistanceNat == StagesLeft \in Nat /\ ItemsLeft \in Nat /\ CallsLeft \in Nat

\* A step that brings a request nearer to its end.
Nearer ==
    \/ StagesLeft' < StagesLeft
    \/ StagesLeft' = StagesLeft /\ ItemsLeft' < ItemsLeft
    \/ StagesLeft' = StagesLeft /\ ItemsLeft' = ItemsLeft /\ CallsLeft' < CallsLeft

\* Whatever mods require each other, planning and installing come to an end: every step
\* brings the request nearer to it, since a release is gone into once (mod_dependencies.go:252).
PlanEnds == []DistanceNat /\ [][Nearer]_planVars
=============================================================================
