------------------------------ MODULE Versions ------------------------------
(***************************************************************************)
(* Version numbers and version constraints (factorio/version.go and        *)
(* factorio/mod_dependency_versions.go).  A version is a 4-tuple; the      *)
(* parts a text leaves out are 0.                                          *)
(***************************************************************************)
EXTENDS Naturals

Version == [1..4 -> Nat]
NilVersion == [i \in 1..4 |-> 0]

\* The first part that differs decides.
Less(v, b) == \E i \in 1..4 : v[i] < b[i] /\ \A j \in 1..4 : j < i => v[j] = b[j]
Greater(v, b) == v # b /\ ~Less(v, b)

Compatible(v, b, op) ==
    CASE op = "==" -> v = b
      [] op = "!=" -> v # b
      [] op = ">"  -> Greater(v, b)
      [] op = "<"  -> Less(v, b)
      [] op = ">=" -> v = b \/ Greater(v, b)
      [] op = "<=" -> v = b \/ Less(v, b)

\* The same major and minor number; 1.0 also takes what was made for 0.18.
SameFactorioLine(v, required) ==
    \/ v[1] = required[1] /\ v[2] = required[2]
    \/ v[1] = 1 /\ v[2] = 0 /\ required[1] = 0 /\ required[2] = 18

\* A dependency without an operator, or on no version in particular, takes any.
Matches(v, dependency) ==
    \/ dependency.op = "" \/ dependency.version = NilVersion
    \/ Compatible(v, dependency.version, dependency.op)
MatchesAll(v, constraints) == \A d \in constraints : Matches(v, d)

\* choosePortalRelease: the preferred release if it will do, otherwise the
\* newest one; no release when the set is empty.
ReleasesFor(releases, constraints) == {v \in releases : MatchesAll(v, constraints)}
ChooseRelease(releases, constraints, preferred) ==
    LET candidates == ReleasesFor(releases, constraints)
    IN IF preferred \in candidates THEN preferred
       ELSE CHOOSE v \in candidates : \A w \in candidates : ~Greater(w, v)
=============================================================================
