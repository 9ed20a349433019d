------------------------ MODULE DirectorySwapProofs ------------------------
(***************************************************************************)
(* Proofs about DirectorySwap for any directories, names and contents, and *)
(* any renames that fail.                                                  *)
(***************************************************************************)
EXTENDS DirectorySwap, TLAPS

\* The inductive invariant: where the old and the new entries are in each phase, and
\* that the lists a rollback works through name what is really there to be undone.
Whole(d) == ~preserveRecovery[d]

Where(d) ==
    CASE phase[d] = "none" ->
            /\ staging[d] = {} /\ backup[d] = {}
            /\ backedUp[d] = {} /\ activated[d] = {}
      [] phase[d] = "staged" ->
            /\ Whole(d) /\ destination[d] = previous[d] /\ staging[d] = replacement[d]
            /\ backup[d] = {} /\ backedUp[d] = {} /\ activated[d] = {}
      [] phase[d] = "backingUp" ->
            /\ Whole(d) /\ destination[d] \cup backup[d] = previous[d]
            /\ destination[d] \cap backup[d] = {}
            /\ backedUp[d] = backup[d] /\ activated[d] = {} /\ staging[d] = replacement[d]
      [] phase[d] = "placing" ->
            /\ Whole(d) /\ destination[d] \cup staging[d] = replacement[d]
            /\ destination[d] \cap staging[d] = {}
            /\ activated[d] = destination[d]
            /\ backup[d] = previous[d] /\ backedUp[d] = previous[d]
      [] phase[d] = "active" ->
            /\ Whole(d) /\ destination[d] = replacement[d] /\ activated[d] = replacement[d]
            /\ backup[d] = previous[d] /\ backedUp[d] = previous[d]
      [] phase[d] = "committed" -> destination[d] = replacement[d]
      [] phase[d] = "unplacing" ->
            /\ Whole(d) => activated[d] = destination[d]
            /\ backup[d] = previous[d] /\ backedUp[d] = previous[d]
      [] phase[d] = "restoring" ->
            /\ previous[d] \subseteq destination[d] \cup backup[d]
            /\ backedUp[d] \subseteq backup[d] /\ backup[d] \subseteq previous[d]
            /\ Whole(d) => destination[d] \subseteq previous[d] /\ backedUp[d] = backup[d]
      [] phase[d] = "rolledBack" ->
            /\ previous[d] \subseteq destination[d] \cup backup[d]
            /\ Whole(d) => destination[d] = previous[d]

NoDuplicates(d) ==
    /\ Distinct(destination[d]) /\ Distinct(staging[d]) /\ Distinct(backup[d])
    /\ Distinct(previous[d]) /\ Distinct(replacement[d])

SwapInv == TypeOK /\ \A d \in Directories : Where(d) /\ NoDuplicates(d)

-----------------------------------------------------------------------------
(* Renames and sets of entries.                                            *)

LEMMA PutKeepsType ==
    ASSUME NEW S \in SUBSET File, NEW f \in File
    PROVE  Put(S, f) \in SUBSET File
BY DEF Put

\* A rename leaves one entry of each name.
LEMMA PutDistinct ==
    ASSUME NEW S \in SUBSET File, NEW f \in File, Distinct(S)
    PROVE  Distinct(Put(S, f))
BY DEF Put, Distinct, SameName

\* Among entries of different names it replaces nothing.
LEMMA PutInside ==
    ASSUME NEW R \in SUBSET File, Distinct(R), NEW S \in SUBSET R, NEW f \in R
    PROVE  Put(S, f) = S \cup {f}
BY DEF Put, Distinct, SameName

\* Elsewhere it replaces at most an entry that is not in R.
LEMMA PutBeside ==
    ASSUME NEW R \in SUBSET File, Distinct(R), NEW S \in SUBSET File, NEW f \in R
    PROVE  (S \cap R) \cup {f} \subseteq Put(S, f)
BY DEF Put, Distinct, SameName

LEMMA SubsetDistinct ==
    ASSUME NEW S \in SUBSET File, Distinct(S), NEW T \in SUBSET S
    PROVE  Distinct(T)
BY DEF Distinct

LEMMA LeftoverKeepsType ==
    ASSUME NEW S \in SUBSET File PROVE Leftover(S) \in SUBSET File
<1> SUFFICES ASSUME NEW f \in S PROVE [f EXCEPT !.leftover = TRUE] \in File
  BY DEF Leftover
<1> QED
  BY DEF File

\* A leftover has a name of its own.
LEMMA LeftoverDistinct ==
    ASSUME NEW S \in SUBSET File, Distinct(S), NEW T \in SUBSET File
    PROVE  Distinct(S \cup Leftover(T))
<1>1. \A g \in Leftover(T) : g.leftover
  BY DEF Leftover, File
<1> QED
  BY <1>1 DEF Distinct, SameName

-----------------------------------------------------------------------------
(* The steps keep the types, and touch one directory.                      *)

LEMMA SwapTypeStep == ASSUME TypeOK, [SwapNext]_swapVars PROVE TypeOK'
<1> USE PutKeepsType, LeftoverKeepsType DEF TypeOK, EntrySets
<1>1. CASE Abandon
  BY <1>1 DEF Abandon, NoEntries, history, Phases
<1>4. CASE \E new \in Setups : Edit(new)
  BY <1>4 DEF Edit, Setups, history
<1>2. ASSUME NEW d \in Directories, SwapStep(d) PROVE TypeOK'
  <2>1. ASSUME NEW from, NEW to \in Phases, Turns(d, from, to) PROVE TypeOK'
    BY <2>1 DEF Turns, Goes, entries, history
  <2>2. ASSUME NEW new \in SUBSET File, Prepare(d, new) PROVE TypeOK'
    BY <2>2 DEF Prepare, Goes, Phases, Undoable
  <2>3. CASE \/ Activate(d) \/ Rollback(d) \/ Commit(d)
             \/ BackedUp(d) \/ Placed(d) \/ Unplaced(d) \/ Restored(d)
             \/ BackUpFails(d) \/ PlaceFails(d)
    BY <2>1, <2>3 DEF Activate, Rollback, Commit, BackedUp, Placed, Unplaced, Restored,
                      BackUpFails, PlaceFails, Phases, Undoable
  <2>4. ASSUME NEW f \in destination[d], BackUp(d, f) PROVE TypeOK'
    BY <2>4 DEF BackUp, Keeps, Take, Give, Note, history
  <2>5. ASSUME NEW f \in staging[d], Place(d, f) PROVE TypeOK'
    BY <2>5 DEF Place, Keeps, Take, Give, Note, history
  <2>6. ASSUME NEW f \in activated[d], Unplace(d, f) PROVE TypeOK'
    BY <2>6 DEF Unplace, Keeps, Take, Give, history
  <2>7. ASSUME NEW f \in activated[d], UnplaceFails(d, f) PROVE TypeOK'
    BY <2>7 DEF UnplaceFails, Keeps, Take, Failed, history
  <2>8. ASSUME NEW f \in backedUp[d], Restore(d, f) PROVE TypeOK'
    BY <2>8 DEF Restore, Keeps, Take, Give, history
  <2>9. ASSUME NEW f \in backedUp[d], RestoreFails(d, f) PROVE TypeOK'
    BY <2>9 DEF RestoreFails, Keeps, Take, Failed, history
  <2>10. ASSUME NEW left \in SUBSET backup[d], Cleanup(d, left) PROVE TypeOK'
    BY <2>10 DEF Cleanup, history, Phases
  <2> QED
    BY <1>2, <2>2, <2>3, <2>4, <2>5, <2>6, <2>7, <2>8, <2>9, <2>10 DEF SwapStep, Advance, Stumble
<1>3. CASE UNCHANGED swapVars
  BY <1>3 DEF swapVars
<1> QED
  BY <1>1, <1>2, <1>3, <1>4 DEF SwapNext

Same(e) == /\ destination'[e] = destination[e] /\ staging'[e] = staging[e]
           /\ backup'[e] = backup[e] /\ backedUp'[e] = backedUp[e]
           /\ activated'[e] = activated[e] /\ preserveRecovery'[e] = preserveRecovery[e]
           /\ phase'[e] = phase[e]
           /\ previous'[e] = previous[e] /\ replacement'[e] = replacement[e]

LEMMA SwapsAreLocal ==
    ASSUME TypeOK, NEW d \in Directories, SwapStep(d), NEW e \in Directories, e # d
    PROVE  Same(e)
<1> USE DEF TypeOK, EntrySets, Same
<1>1. CASE \E new \in SUBSET File : Prepare(d, new)
  BY <1>1 DEF Prepare, Goes
<1>2. ASSUME NEW from, NEW to, Turns(d, from, to) PROVE Same(e)
  BY <1>2 DEF Turns, Goes, entries, history
<1>3. CASE Activate(d) \/ Rollback(d) \/ Commit(d)
  BY <1>2, <1>3 DEF Activate, Rollback, Commit
<1>4. CASE Advance(d)
  BY <1>2, <1>4 DEF Advance, BackUp, Place, Unplace, Restore, BackedUp, Placed, Unplaced,
                    Restored, Keeps, Take, Give, Note, history
<1>5. CASE Stumble(d)
  BY <1>2, <1>5 DEF Stumble, BackUpFails, PlaceFails, UnplaceFails, RestoreFails, Keeps,
                    Take, Failed, history
<1>6. CASE \E left \in SUBSET backup[d] : Cleanup(d, left)
  BY <1>6 DEF Cleanup, history
<1> QED
  BY <1>1, <1>3, <1>4, <1>5, <1>6 DEF SwapStep

-----------------------------------------------------------------------------
(* The steps of one directory keep the invariant of that directory.        *)

Here(d) == Where(d)' /\ NoDuplicates(d)'

LEMMA TurnsKeepInv ==
    ASSUME SwapInv, NEW d \in Directories,
           \/ Activate(d) \/ Rollback(d) \/ Commit(d)
           \/ BackedUp(d) \/ Placed(d) \/ Unplaced(d) \/ Restored(d)
           \/ BackUpFails(d) \/ PlaceFails(d)
    PROVE  Here(d)
<1> USE DEF SwapInv, TypeOK, EntrySets, Here, Where, Whole, NoDuplicates, Turns, Goes, entries,
            history
<1>1. CASE Activate(d)
  BY <1>1 DEF Activate
<1>2. CASE Rollback(d)
  BY <1>2 DEF Rollback
<1>3. CASE Commit(d)
  BY <1>3 DEF Commit
<1>4. CASE BackedUp(d)
  BY <1>4 DEF BackedUp
<1>5. CASE Placed(d)
  BY <1>5 DEF Placed
<1>6. CASE Unplaced(d)
  BY <1>6 DEF Unplaced
<1>7. CASE Restored(d)
  BY <1>7 DEF Restored
<1>8. CASE BackUpFails(d)
  BY <1>8 DEF BackUpFails
<1>9. CASE PlaceFails(d)
  BY <1>9 DEF PlaceFails
<1> QED
  BY <1>1, <1>2, <1>3, <1>4, <1>5, <1>6, <1>7, <1>8, <1>9

LEMMA PrepareKeepsInv ==
    ASSUME SwapInv, NEW d \in Directories,
           NEW new \in SUBSET File, Distinct(new), Prepare(d, new)
    PROVE  Here(d)
BY DEF SwapInv, TypeOK, EntrySets, Here, Where, Whole, NoDuplicates, Prepare, Goes

LEMMA BackUpKeepsInv ==
    ASSUME SwapInv, NEW d \in Directories, NEW f \in destination[d], BackUp(d, f)
    PROVE  Here(d)
<1> USE DEF SwapInv, TypeOK, EntrySets
<1>1. /\ phase[d] = "backingUp" /\ phase'[d] = "backingUp"
      /\ destination'[d] = destination[d] \ {f} /\ staging'[d] = staging[d]
      /\ backup'[d] = Put(backup[d], f) /\ backedUp'[d] = backedUp[d] \cup {f}
      /\ activated'[d] = activated[d] /\ preserveRecovery'[d] = preserveRecovery[d]
      /\ previous'[d] = previous[d] /\ replacement'[d] = replacement[d]
  BY DEF BackUp, Keeps, Take, Give, Note, history
<1>2. /\ previous[d] \in SUBSET File /\ Distinct(previous[d])
      /\ backup[d] \in SUBSET previous[d] /\ f \in previous[d]
  BY <1>1 DEF Where, NoDuplicates
<1>3. Put(backup[d], f) = backup[d] \cup {f}
  BY <1>2, PutInside
<1>4. Distinct(destination[d] \ {f}) /\ Distinct(backup[d] \cup {f})
  <2>1. destination[d] \ {f} \in SUBSET previous[d]
    BY <1>1 DEF Where
  <2>2. backup[d] \cup {f} \in SUBSET previous[d]
    BY <1>2
  <2> QED
    BY <1>2, <2>1, <2>2, SubsetDistinct
<1>5. /\ (destination[d] \ {f}) \cup (backup[d] \cup {f}) = previous[d]
      /\ (destination[d] \ {f}) \cap (backup[d] \cup {f}) = {}
      /\ backedUp[d] = backup[d] /\ activated[d] = {} /\ staging[d] = replacement[d]
      /\ Whole(d)
  BY <1>1 DEF Where
<1>6. Where(d)'
  BY <1>1, <1>3, <1>5 DEF Where, Whole
<1>7. NoDuplicates(d)'
  BY <1>1, <1>3, <1>4 DEF NoDuplicates
<1> QED
  BY <1>6, <1>7 DEF Here

LEMMA PlaceKeepsInv ==
    ASSUME SwapInv, NEW d \in Directories, NEW f \in staging[d], Place(d, f)
    PROVE  Here(d)
<1> USE DEF SwapInv, TypeOK, EntrySets
<1>1. /\ phase[d] = "placing" /\ phase'[d] = "placing"
      /\ destination'[d] = Put(destination[d], f) /\ staging'[d] = staging[d] \ {f}
      /\ backup'[d] = backup[d] /\ backedUp'[d] = backedUp[d]
      /\ activated'[d] = activated[d] \cup {f} /\ preserveRecovery'[d] = preserveRecovery[d]
      /\ previous'[d] = previous[d] /\ replacement'[d] = replacement[d]
  BY DEF Place, Keeps, Take, Give, Note, history
<1>2. /\ replacement[d] \in SUBSET File /\ Distinct(replacement[d])
      /\ destination[d] \in SUBSET replacement[d] /\ f \in replacement[d]
  BY <1>1 DEF Where, NoDuplicates
<1>3. Put(destination[d], f) = destination[d] \cup {f}
  BY <1>2, PutInside
<1>4. Distinct(staging[d] \ {f}) /\ Distinct(destination[d] \cup {f})
  <2>1. staging[d] \ {f} \in SUBSET replacement[d]
    BY <1>1 DEF Where
  <2>2. destination[d] \cup {f} \in SUBSET replacement[d]
    BY <1>2
  <2> QED
    BY <1>2, <2>1, <2>2, SubsetDistinct
<1>5. /\ (destination[d] \cup {f}) \cup (staging[d] \ {f}) = replacement[d]
      /\ (destination[d] \cup {f}) \cap (staging[d] \ {f}) = {}
      /\ activated[d] = destination[d] /\ Whole(d)
      /\ backup[d] = previous[d] /\ backedUp[d] = previous[d]
  BY <1>1 DEF Where
<1>6. Where(d)'
  BY <1>1, <1>3, <1>5 DEF Where, Whole
<1>7. NoDuplicates(d)'
  BY <1>1, <1>3, <1>4 DEF NoDuplicates
<1> QED
  BY <1>6, <1>7 DEF Here

LEMMA UnplaceKeepsInv ==
    ASSUME SwapInv, NEW d \in Directories, NEW f \in activated[d],
           Unplace(d, f) \/ UnplaceFails(d, f)
    PROVE  Here(d)
<1> USE DEF SwapInv, TypeOK, EntrySets
<1>1. CASE Unplace(d, f)
  <2>1. /\ phase[d] = "unplacing" /\ phase'[d] = "unplacing"
        /\ destination'[d] = destination[d] \ {f} /\ staging'[d] = Put(staging[d], f)
        /\ backup'[d] = backup[d] /\ backedUp'[d] = backedUp[d]
        /\ activated'[d] = activated[d] \ {f} /\ preserveRecovery'[d] = preserveRecovery[d]
        /\ previous'[d] = previous[d] /\ replacement'[d] = replacement[d]
    BY <1>1 DEF Unplace, Keeps, Take, Give, history
  <2>2. Distinct(destination[d] \ {f}) /\ Distinct(Put(staging[d], f))
    BY SubsetDistinct, PutDistinct DEF NoDuplicates
  <2> QED
    BY <2>1, <2>2 DEF Here, Where, Whole, NoDuplicates
<1>2. CASE UnplaceFails(d, f)
  <2>1. /\ phase[d] = "unplacing" /\ phase'[d] = "unplacing"
        /\ destination'[d] = destination[d] /\ staging'[d] = staging[d]
        /\ backup'[d] = backup[d] /\ backedUp'[d] = backedUp[d]
        /\ preserveRecovery'[d] = TRUE
        /\ previous'[d] = previous[d] /\ replacement'[d] = replacement[d]
    BY <1>2 DEF UnplaceFails, Keeps, Take, Failed, history
  <2> QED
    BY <2>1 DEF Here, Where, Whole, NoDuplicates
<1> QED
  BY <1>1, <1>2

\* The rename may replace an entry of the new setup that could not be taken out, never
\* one of the old setup.
LEMMA RestoreKeepsInv ==
    ASSUME SwapInv, NEW d \in Directories, NEW f \in backedUp[d],
           Restore(d, f) \/ RestoreFails(d, f)
    PROVE  Here(d)
<1> USE DEF SwapInv, TypeOK, EntrySets
<1>1. CASE Restore(d, f)
  <2>1. /\ phase[d] = "restoring" /\ phase'[d] = "restoring"
        /\ destination'[d] = Put(destination[d], f) /\ staging'[d] = staging[d]
        /\ backup'[d] = backup[d] \ {f} /\ backedUp'[d] = backedUp[d] \ {f}
        /\ activated'[d] = activated[d] /\ preserveRecovery'[d] = preserveRecovery[d]
        /\ previous'[d] = previous[d] /\ replacement'[d] = replacement[d]
    BY <1>1 DEF Restore, Keeps, Take, Give, history
  <2>2. f \in previous[d] /\ Distinct(previous[d]) /\ previous[d] \in SUBSET File
    BY <2>1 DEF Where, NoDuplicates
  <2>3. (destination[d] \cap previous[d]) \cup {f} \subseteq Put(destination[d], f)
    BY <2>2, PutBeside
  <2>4. Whole(d) => Put(destination[d], f) = destination[d] \cup {f}
    <3>1. Whole(d) => destination[d] \in SUBSET previous[d]
      BY <2>1 DEF Where
    <3> QED
      BY <2>2, <3>1, PutInside
  <2>5. Distinct(backup[d] \ {f}) /\ Distinct(Put(destination[d], f))
    BY SubsetDistinct, PutDistinct DEF NoDuplicates
  <2> QED
    BY <2>1, <2>2, <2>3, <2>4, <2>5 DEF Here, Where, Whole, NoDuplicates
<1>2. CASE RestoreFails(d, f)
  <2>1. /\ phase[d] = "restoring" /\ phase'[d] = "restoring"
        /\ destination'[d] = destination[d] /\ staging'[d] = staging[d]
        /\ backup'[d] = backup[d] /\ backedUp'[d] = backedUp[d] \ {f}
        /\ preserveRecovery'[d] = TRUE
        /\ previous'[d] = previous[d] /\ replacement'[d] = replacement[d]
    BY <1>2 DEF RestoreFails, Keeps, Take, Failed, history
  <2> QED
    BY <2>1 DEF Here, Where, Whole, NoDuplicates
<1> QED
  BY <1>1, <1>2

LEMMA CleanupKeepsInv ==
    ASSUME SwapInv, NEW d \in Directories, NEW left \in SUBSET backup[d], Cleanup(d, left)
    PROVE  Here(d)
<1> USE DEF SwapInv, TypeOK, EntrySets
<1>1. Distinct(destination[d] \cup Leftover(left)) /\ Distinct({})
  BY LeftoverDistinct DEF NoDuplicates, Distinct
<1> QED
  BY <1>1 DEF Here, Where, NoDuplicates, Cleanup, history

LEMMA AbandonKeepsInv ==
    ASSUME SwapInv, NEW d \in Directories, Abandon PROVE Here(d)
<1> USE DEF SwapInv, TypeOK, EntrySets
<1>1. Distinct(destination[d] \cup Leftover(backup[d])) /\ Distinct({})
  BY LeftoverDistinct DEF NoDuplicates, Distinct
<1> QED
  BY <1>1 DEF Here, Where, NoDuplicates, Abandon, NoEntries, history

LEMMA EditKeepsInv ==
    ASSUME SwapInv, NEW d \in Directories, NEW new \in Setups, Edit(new) PROVE Here(d)
<1> USE DEF SwapInv, TypeOK, EntrySets
<1>1. new \in EntrySets /\ Distinct(new[d])
  BY DEF Setups
<1>2. NoDuplicates(d)'
  BY <1>1 DEF NoDuplicates, Edit, history
<1>3. CASE phase[d] = "none"
  BY <1>2, <1>3 DEF Here, Where, Edit, history
<1>4. CASE phase[d] # "none"
  BY <1>2, <1>4 DEF Here, Where, Whole, Edit, history
<1> QED
  BY <1>3, <1>4

-----------------------------------------------------------------------------
LEMMA SwapInvInit == SwapInit => SwapInv
<1> SUFFICES ASSUME NEW initially \in Setups, InitWith(initially) PROVE SwapInv
  BY DEF SwapInit
<1>2. initially \in EntrySets /\ \A d \in Directories : Distinct(initially[d])
  BY DEF Setups
<1>1. Distinct({})
  BY DEF Distinct
<1> QED
  BY <1>1, <1>2 DEF InitWith, NoEntries, SwapInv, TypeOK, EntrySets, Where, NoDuplicates, Phases

LEMMA SwapInvStep == SwapInv /\ [SwapNext]_swapVars => SwapInv'
<1> SUFFICES ASSUME SwapInv, [SwapNext]_swapVars PROVE SwapInv'
  OBVIOUS
<1>1. TypeOK /\ TypeOK'
  BY SwapTypeStep DEF SwapInv
<1> SUFFICES ASSUME NEW e \in Directories PROVE Here(e)
  BY <1>1 DEF SwapInv, Here
<1>2. ASSUME Same(e) PROVE Here(e)
  BY <1>2 DEF Same, SwapInv, Here, Where, Whole, NoDuplicates
<1>3. ASSUME NEW d \in Directories, SwapStep(d) PROVE Here(e)
  <2>1. CASE e # d
    BY <1>1, <1>2, <1>3, <2>1, SwapsAreLocal
  <2>2. CASE e = d
    BY <1>3, <2>2, TurnsKeepInv, PrepareKeepsInv, BackUpKeepsInv, PlaceKeepsInv,
       UnplaceKeepsInv, RestoreKeepsInv, CleanupKeepsInv DEF SwapStep, Advance, Stumble
  <2> QED
    BY <2>1, <2>2
<1>4. CASE UNCHANGED swapVars
  BY <1>2, <1>4 DEF swapVars, Same
<1>5. CASE \E new \in Setups : Edit(new)
  BY <1>5, EditKeepsInv
<1> QED
  BY <1>3, <1>4, <1>5, AbandonKeepsInv DEF SwapNext

\* Where implies both properties.
LEMMA InvImplies == SwapInv => TypeOK /\ NothingLost /\ AllOrNothing
BY DEF SwapInv, NothingLost, AllOrNothing, Undoable, Where, Whole

\* TypeOK: the swaps of any directories keep their types.
THEOREM SwapTypeCorrect == SwapSpec => []TypeOK
<1>1. SwapInv => TypeOK
  BY InvImplies
<1> QED
  BY <1>1, SwapInvInit, SwapInvStep, PTL DEF SwapSpec

\* NothingLost: until a swap is committed no old entry is lost, whatever renames of
\* activate and of the rollback fail.
THEOREM SwapLosesNothing == SwapSpec => []NothingLost
<1>1. SwapInv => NothingLost
  BY InvImplies
<1> QED
  BY <1>1, SwapInvInit, SwapInvStep, PTL DEF SwapSpec

\* AllOrNothing: a swap shows the whole replacement or, unless it says otherwise, the
\* whole of what was there before.
THEOREM SwapAllOrNothing == SwapSpec => []AllOrNothing
<1>1. SwapInv => AllOrNothing
  BY InvImplies
<1> QED
  BY <1>1, SwapInvInit, SwapInvStep, PTL DEF SwapSpec
=============================================================================
