--------------------------- MODULE ReleasePromise ---------------------------
(***************************************************************************)
(* What an installation of a Factorio release promises (installRelease):   *)
(* whatever single step fails, the program files are those of one release  *)
(* and runtime-state.json names it; and a program directory that holds two *)
(* releases has the backup beside it that refuses the next installation.   *)
(* An outcome: the program files, runtime-state.json, a backup is left.    *)
(***************************************************************************)
EXTENDS Integers

CONSTANTS Versions     \* exact Factorio releases

VARIABLES
    engine,        \* the release of the program files, or Mixed
    runtime,       \* the release runtime-state.json names, or Broken
    unresolved,    \* a backup of the old release is left
    faults, crashes \* how many steps have failed, how often the manager has died

releaseVars == <<engine, runtime, unresolved>>

Mixed == "mixed"   \* program files of two releases, or not all of one
Broken == "broken" \* a file that cannot be decoded
Outcomes(v) == {engine, v, Mixed} \X {runtime, v, Broken} \X BOOLEAN

Installed(v) == {o \in Outcomes(v) : ~unresolved /\ o = <<v, v, FALSE>>}

\* The installation of v ends with an error, after n of its steps failed.
NotInstalled(v, n) ==
    {o \in Outcomes(v) :
        \/ (unresolved \/ n > 0) /\ o = releaseVars
        \/ ~unresolved /\ n > 0 /\ o = <<v, v, TRUE>> \* the backup cannot be removed
        \/ ~unresolved /\ n > 1                       \* a step of the recovery fails too
           /\ \/ o[1] = engine /\ ~o[3]
              \/ o[2] = runtime /\ o[3]
        \/ ~unresolved /\ n > 2 /\ o[3]}

\* The manager dies during the installation, n steps of which had failed.
Cut(v, n) ==
    {o \in Outcomes(v) :
        \/ o = releaseVars
        \/ /\ ~unresolved
           /\ o[1] = Mixed => o[3]
           /\ o[1] # engine => o[3] \/ o[2] = v
           /\ n = 0 => o[2] = runtime \/ (o[1] = v /\ o[2] = v)}

Ends(outcomes) ==
    \E o \in outcomes : engine' = o[1] /\ runtime' = o[2] /\ unresolved' = o[3]

ReleaseInit ==
    engine \in Versions /\ runtime = engine /\ ~unresolved /\ faults = 0 /\ crashes = 0
ReleaseStep ==
    /\ <<releaseVars, faults, crashes>>' # <<releaseVars, faults, crashes>>
    /\ faults' \in Nat /\ faults' >= faults
    /\ \E v \in Versions :
        LET n == faults' - faults
        IN  \/ n = 0 /\ Ends(Installed(v)) /\ UNCHANGED crashes
            \/ Ends(NotInstalled(v, n)) /\ UNCHANGED crashes
            \/ Ends(Cut(v, n)) /\ crashes' = crashes + 1
ReleaseSpec == ReleaseInit /\ [][ReleaseStep]_<<releaseVars, faults, crashes>>
=============================================================================
