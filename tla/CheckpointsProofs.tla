------------------------- MODULE CheckpointsProofs -------------------------
(***************************************************************************)
(* Proofs about Checkpoints for any profiles, retentions, cooldown, number *)
(* of operations, failures and crashes.                                    *)
(***************************************************************************)
EXTENDS Checkpoints, FiniteSetTheorems, WellFoundedInduction, TLAPS

\* An operation under the gate works for the active profile until its save is copied.
GateKeepsProfile == op.gated /\ op.step \in {"source", "copy"} => active = P

Inv == TypeOK /\ GateKeepsProfile /\ BoundToProfile /\ GapExposed

-----------------------------------------------------------------------------
(* The newest archive.                                                     *)

\* Every set of natural numbers that is not empty has a least element.
LEMMA LeastNatural ==
    ASSUME NEW T \in SUBSET Nat, T # {}
    PROVE  \E m \in T : \A n \in T : m <= n
<1> DEFINE R == {pair \in Nat \X Nat : pair[1] < pair[2]}
<1>1. IsWellFoundedOn(R, Nat)
  BY NatLessThanWellFounded DEF OpToRel
<1>2. PICK m \in T : \A n \in T : <<n, m>> \notin R
  <2> HIDE DEF R
  <2> QED
    BY <1>1, WFMin, Zenon
<1>3. ASSUME NEW n \in T PROVE m <= n
  <2>1. m \in Nat /\ n \in Nat
    OBVIOUS
  <2>2. n < m => <<n, m>> \in R
    BY <2>1
  <2> QED
    BY <1>2, <2>1, <2>2
<1> QED
  BY <1>3

\* Some archive has no newer one, and Newest finds it.
LEMMA NewestIs ==
    ASSUME NEW S \in SUBSET Archive, S # {}
    PROVE  Newest(S) \in S /\ \A b \in S : b.at <= Newest(S).at
<1> DEFINE T == {MaxTime - a.at : a \in S}
<1>1. \A a \in S : a.at \in Times
  BY DEF Archive
<1>2. T \in SUBSET Nat /\ T # {}
  BY <1>1, CheckpointConstants DEF Times
<1>3. PICK m \in T : \A n \in T : m <= n
  <2> HIDE DEF T
  <2> QED
    BY <1>2, LeastNatural
<1>4. PICK a \in S : m = MaxTime - a.at
  BY <1>3
<1>5. ASSUME NEW b \in S PROVE ~(b.at > a.at)
  <2>1. m <= MaxTime - b.at
    BY <1>3
  <2> QED
    BY <1>1, <1>4, <2>1, CheckpointConstants DEF Times
<1>6. Newest(S) \in S /\ Newer(S, Newest(S)) = {}
  BY <1>5 DEF Newest, Newer
<1> QED
  BY <1>1, <1>6 DEF Newer, Times

\* LatestIn is its timestamp.
LEMMA LatestIsTime ==
    ASSUME NEW S \in SUBSET Archive PROVE LatestIn(S) \in Times \cup {Never}
<1>1. S # {} => Newest(S).at \in Times
  BY NewestIs DEF Archive
<1> QED
  BY <1>1 DEF LatestIn

-----------------------------------------------------------------------------
(* Types of what the steps assign.                                         *)

\* The fields of state.json can be set one by one ...
LEMMA StoreFields ==
    ASSUME NEW s \in Store
    PROVE  /\ \A r \in Retentions : [s EXCEPT !.retention = r] \in Store
           /\ \A b \in BOOLEAN : [s EXCEPT !.error = b] \in Store
           /\ \A t \in Times \cup {Never} : /\ [s EXCEPT !.last = t] \in Store
                                         /\ [s EXCEPT !.last = t, !.error = FALSE] \in Store
BY DEF Store

\* ... and so can those of an operation.
LEMMA OperationFields ==
    ASSUME NEW o \in Operation, NEW s \in Steps, NEW S \in SUBSET Archive, NEW b \in BOOLEAN,
           NEW p \in Profiles
    PROVE  /\ [o EXCEPT !.step = s] \in Operation
           /\ [o EXCEPT !.step = s, !.excess = S] \in Operation
           /\ [o EXCEPT !.excess = S, !.complained = b] \in Operation
           /\ [o EXCEPT !.step = s, !.live = b, !.source = p] \in Operation
BY DEF Operation

\* What is changed for one profile.
LEMMA ProfileFields ==
    ASSUME TypeOK, NEW p \in Profiles, NEW s \in Store, NEW S \in SUBSET Archive
    PROVE  /\ [state EXCEPT ![p] = s] \in [Profiles -> Store]
           /\ [archives EXCEPT ![p] = S] \in [Profiles -> SUBSET Archive]
BY DEF TypeOK

\* Nobody's operation has the type of one.
LEMMA RestingType == Resting \in Operation /\ FirstStore \in Store
BY CheckpointConstants DEF Resting, Operation, FirstStore, Store, Steps, Times, Never

LEMMA InitInv == Init => Inv
<1> SUFFICES ASSUME Init PROVE Inv
  OBVIOUS
<1>1. TypeOK
  <2>1. /\ now \in Times /\ faults \in 0..MaxFaults /\ crashes \in 0..MaxCrashes
    BY CheckpointConstants DEF Init, Times
  <2>2. active \in Profiles /\ running \in BOOLEAN /\ strayed \in BOOLEAN
    BY CheckpointConstants DEF Init
  <2>3. /\ saves \in [Profiles -> SUBSET Profiles]
        /\ archives \in [Profiles -> SUBSET Archive]
    BY CheckpointConstants DEF Init
  <2>4. state \in [Profiles -> Store] /\ op \in Operation
    BY RestingType DEF Init
  <2>5. unnoted \subseteq Profiles /\ failed \subseteq Profiles
    BY DEF Init
  <2> QED
    BY <2>1, <2>2, <2>3, <2>4, <2>5 DEF TypeOK
<1>2. GateKeepsProfile
  BY DEF Init, GateKeepsProfile, Resting
<1>3. BoundToProfile /\ GapExposed
  BY DEF Init, BoundToProfile, GapExposed
<1> QED
  BY <1>1, <1>2, <1>3 DEF Inv

-----------------------------------------------------------------------------
(* TypeOK.                                                                 *)

\* What a step of an operation leaves alone keeps its type.
LEMMA CountersType ==
    ASSUME TypeOK, NEW n \in Nat, Sure \/ Fault(n)
    PROVE  faults' \in 0..MaxFaults /\ crashes' \in 0..MaxCrashes
BY CheckpointConstants DEF TypeOK, Sure, Fault, counters

\* The steps of a creation keep the types.
LEMMA CreateType ==
    ASSUME TypeOK,
           \/ \E gated, automated \in BOOLEAN : BeginCreate(gated, automated)
           \/ FindSource \/ FindSourceFails \/ Copy \/ CopyFails \/ Describe \/ DescribeFails
           \/ Note \/ NoteFails
    PROVE  TypeOK'
<1> USE DEF TypeOK, Same, directories, histories, At, Goto, Return, P, SetArchives
<1>0. op.profile \in Profiles /\ op.at \in Times /\ op.store \in Store
      /\ op.automated \in BOOLEAN /\ op.gated \in BOOLEAN /\ op.source \in Profiles
  BY DEF Operation
<1>1. ASSUME NEW gated \in BOOLEAN, NEW automated \in BOOLEAN, BeginCreate(gated, automated)
      PROVE  TypeOK'
  <2>1. state[active] \in Store /\ now \in Times /\ active \in Profiles
    OBVIOUS
  <2>2. op' \in Operation
    BY <1>1, <2>1, RestingType DEF BeginCreate, Operation, Steps
  <2>3. now' \in Times
    <3>1. now < MaxTime /\ now' = now + 1
      BY <1>1 DEF BeginCreate
    <3> QED
      BY <2>1, <3>1, CheckpointConstants DEF Times
  <2> QED
    BY <1>1, <2>2, <2>3, CountersType DEF BeginCreate
<1>2. CASE FindSource
  BY <1>0, <1>2, OperationFields, RestingType, CountersType DEF FindSource, Steps
<1>3. CASE FindSourceFails
  BY <1>0, <1>3, OperationFields, RestingType, CountersType DEF FindSourceFails, Steps
<1>4. CASE Copy
  <2>1. "describe" \in Steps
    BY DEF Steps
  <2>2. op' \in Operation
    BY <1>0, <1>4, <2>1, OperationFields DEF Copy
  <2>3. PICK owner \in IF op.live THEN {op.source} ELSE saves[active] :
           archives' = [archives EXCEPT ![op.profile] = archives[op.profile] \cup
               {[at |-> op.at, automated |-> op.automated, owner |-> owner, noted |-> FALSE]}]
    BY <1>4 DEF Copy
  <2>4. owner \in Profiles
    BY <1>0
  <2>5. [at |-> op.at, automated |-> op.automated, owner |-> owner, noted |-> FALSE] \in Archive
    BY <1>0, <2>4 DEF Archive
  <2>6. archives' \in [Profiles -> SUBSET Archive]
    BY <1>0, <2>3, <2>5, ProfileFields
  <2>7. strayed' \in BOOLEAN
    BY <1>4 DEF Copy
  <2> QED
    BY <1>4, <2>2, <2>6, <2>7, CountersType DEF Copy
<1>5. CASE CopyFails
  BY <1>0, <1>5, OperationFields, RestingType, CountersType DEF CopyFails, Steps
<1>6. CASE Describe
  BY <1>0, <1>6, OperationFields, RestingType, CountersType DEF Describe, Steps
<1>7. CASE DescribeFails
  <2>1. "record" \in Steps
    BY DEF Steps
  <2>2. op' \in Operation
    BY <1>7, <2>1, OperationFields DEF DescribeFails
  <2>3. archives[op.profile] \ Mine \in SUBSET Archive
    BY <1>0
  <2>4. archives' \in [Profiles -> SUBSET Archive]
    BY <1>0, <1>7, <2>3, ProfileFields, Zenon DEF DescribeFails
  <2>5. unnoted' \subseteq Profiles
    BY <1>0, <1>7 DEF DescribeFails
  <2>6. Fault(1) \/ Fault(2)
    BY <1>7 DEF DescribeFails
  <2> QED
    BY <1>7, <2>2, <2>4, <2>5, <2>6, CountersType DEF DescribeFails
<1>8. CASE Note
  <2>1. "retain" \in Steps
    BY DEF Steps
  <2>2. NotedArchives \in SUBSET Archive
    <3>1. \A a \in Archive : [a EXCEPT !.noted = TRUE] \in Archive
      BY DEF Archive
    <3>2. archives[op.profile] \subseteq Archive
      BY <1>0
    <3> QED
      BY <3>1, <3>2 DEF NotedArchives, Mine
  <2>3. Excess(NotedArchives, op.store.retention) \in SUBSET Archive
    BY <2>2 DEF Excess
  <2>4. op' \in Operation
    BY <1>8, <2>1, <2>3, OperationFields DEF Note
  <2>5. [op.store EXCEPT !.last = op.at, !.error = FALSE] \in Store
    BY <1>0, StoreFields
  <2>6. state' \in [Profiles -> Store] /\ archives' \in [Profiles -> SUBSET Archive]
    BY <1>0, <1>8, <2>2, <2>5, ProfileFields DEF Note
  <2> QED
    BY <1>8, <2>4, <2>6, CountersType DEF Note
<1>9. CASE NoteFails
  BY <1>0, <1>9, OperationFields, RestingType, CountersType DEF NoteFails, Steps
<1> QED
  BY <1>1, <1>2, <1>3, <1>4, <1>5, <1>6, <1>7, <1>8, <1>9

\* So do the other steps of an operation ...
LEMMA CleanupType ==
    ASSUME TypeOK, Retain \/ RetainFails \/ Retained \/ Record \/ Undescribe \/ Renote \/ Crash
    PROVE  TypeOK'
<1> USE DEF TypeOK, Same, directories, histories, At, Goto, Return, P, SetArchives
<1>0. op.profile \in Profiles /\ op.store \in Store /\ op.excess \in SUBSET Archive
      /\ op.complained \in BOOLEAN
  BY DEF Operation
<1>1. CASE Retain
  <2>1. PICK a \in {Newest(op.excess)}, removed \in BOOLEAN, error \in BOOLEAN :
           /\ IF error THEN Fault(1) ELSE Sure
           /\ archives' = [archives EXCEPT ![op.profile] =
                              IF removed THEN archives[op.profile] \ {a} ELSE archives[op.profile]]
           /\ op' = [op EXCEPT !.excess = op.excess \ {a},
                               !.complained = op.complained \/ error]
    BY <1>1 DEF Retain
  <2>2. archives' \in [Profiles -> SUBSET Archive]
    BY <1>0, <2>1, ProfileFields
  <2>3. op' \in Operation
    <3>1. op.excess \ {a} \in SUBSET Archive /\ (op.complained \/ error) \in BOOLEAN
      BY <1>0
    <3>2. \A o \in Operation, S \in SUBSET Archive, b \in BOOLEAN :
             [o EXCEPT !.excess = S, !.complained = b] \in Operation
      BY OperationFields, <1>0 DEF Operation
    <3> QED
      BY <2>1, <3>1, <3>2, Zenon
  <2>4. Sure \/ Fault(1)
    BY <2>1
  <2> QED
    BY <1>1, <2>2, <2>3, <2>4, CountersType DEF Retain
<1>2. CASE RetainFails
  BY <1>0, <1>2, OperationFields, RestingType, CountersType DEF RetainFails, Steps
<1>3. CASE Retained
  BY <1>0, <1>3, OperationFields, RestingType, CountersType DEF Retained, Steps
<1>4. CASE Record
  <2>1. [state[op.profile] EXCEPT !.error = TRUE] \in Store
    BY <1>0, StoreFields
  <2>2. state' \in [Profiles -> Store]
    BY <1>0, <1>4, <2>1, ProfileFields DEF Record
  <2> QED
    BY <1>0, <1>4, <2>2, RestingType, CountersType DEF Record
<1>5. CASE Undescribe
  BY <1>0, <1>5, OperationFields, RestingType, CountersType DEF Undescribe, Steps
<1>6. CASE Renote
  <2>1. LatestIn(archives[op.profile]) \in Times \cup {Never}
    BY <1>0, LatestIsTime
  <2>2. [state[op.profile] EXCEPT !.last = LatestIn(archives[op.profile])] \in Store
    BY <1>0, <2>1, StoreFields
  <2>3. state' \in [Profiles -> Store]
    BY <1>0, <1>6, <2>2, ProfileFields DEF Renote
  <2> QED
    BY <1>0, <1>6, <2>3, RestingType, CountersType DEF Renote
<1>7. CASE Crash
  <2>1. unnoted' \subseteq Profiles /\ failed' \subseteq Profiles
    BY <1>0, <1>7 DEF Crash, Marked
  <2>2. crashes' \in 0..MaxCrashes
    BY <1>7, CheckpointConstants DEF Crash
  <2> QED
    BY <1>7, <2>1, <2>2, RestingType DEF Crash
<1> QED
  BY <1>1, <1>2, <1>3, <1>4, <1>5, <1>6, <1>7

\* ... and what needs no operation, or happens beside one.
LEMMA OtherType ==
    ASSUME TypeOK,
           \/ \E r \in Retentions \cup {-1} : UpdateSettings(r)
           \/ \E a \in archives[active] : Delete(a) \/ Restore(a)
           \/ Start \/ Exit \/ CreateWorld \/ Tick \/ \E p \in Profiles : Switch(p)
    PROVE  TypeOK'
<1> USE DEF TypeOK, Same, directories, histories
<1>1. ASSUME NEW r \in Retentions \cup {-1}, UpdateSettings(r) PROVE TypeOK'
  <2>1. [state[active] EXCEPT !.retention = r] \in Store
    <3>1. r \in Retentions
      BY <1>1 DEF UpdateSettings
    <3> QED
      BY <3>1, StoreFields
  <2>2. state' \in [Profiles -> Store]
    BY <1>1, <2>1, ProfileFields DEF UpdateSettings
  <2> QED
    BY <1>1, <2>2, CountersType DEF UpdateSettings
<1>2. ASSUME NEW a \in archives[active], Delete(a) PROVE TypeOK'
  <2>1. op' \in Operation
    BY <1>2, RestingType DEF Delete, Operation, Steps
  <2>2. archives' \in [Profiles -> SUBSET Archive]
    BY <1>2, ProfileFields DEF Delete
  <2> QED
    BY <1>2, <2>1, <2>2, CountersType DEF Delete
<1>3. ASSUME NEW a \in archives[active], Restore(a) PROVE TypeOK'
  <2>1. a.owner \in Profiles
    <3>1. a \in Archive
      OBVIOUS
    <3> QED
      BY <3>1 DEF Archive
  <2>2. saves' \in [Profiles -> SUBSET Profiles]
    BY <1>3, <2>1 DEF Restore
  <2> QED
    BY <1>3, <2>2, CountersType DEF Restore
<1>4. CASE Start \/ Exit
  BY <1>4, CountersType DEF Start, Exit
<1>5. CASE CreateWorld
  BY <1>5, CountersType DEF CreateWorld
<1>6. CASE Tick
  BY <1>6, CheckpointConstants, CountersType DEF Tick, Times
<1>7. ASSUME NEW p \in Profiles, Switch(p) PROVE TypeOK'
  BY <1>7, CountersType DEF Switch
<1> QED
  BY <1>1, <1>2, <1>3, <1>4, <1>5, <1>6, <1>7

LEMMA TypeStep == ASSUME TypeOK, [Next]_vars PROVE TypeOK'
<1>1. CASE Next
  BY <1>1, CreateType, CleanupType, OtherType DEF Next
<1>2. CASE UNCHANGED vars
  BY <1>2 DEF vars, directories, histories, counters, TypeOK
<1> QED
  BY <1>1, <1>2

-----------------------------------------------------------------------------
(* A checkpoint holds a world of its profile.                              *)

\* A switch waits for an operation under the gate; the other steps leave it as it is.
LEMMA GateStep ==
    ASSUME TypeOK, GateKeepsProfile, [Next]_vars PROVE GateKeepsProfile'
<1> USE DEF GateKeepsProfile, Same, directories, At, Goto, Return, Resting, P
<1>0. op \in Operation
  BY DEF TypeOK
<1>1. CASE UNCHANGED vars
  BY <1>1 DEF vars
<1>2. ASSUME NEW gated \in BOOLEAN, NEW automated \in BOOLEAN, BeginCreate(gated, automated)
      PROVE  GateKeepsProfile'
  BY <1>2 DEF BeginCreate
<1>3. CASE FindSource
  BY <1>0, <1>3 DEF FindSource, Operation
<1>4. CASE Copy
  BY <1>0, <1>4 DEF Copy, Operation
<1>5. CASE Retain
  BY <1>0, <1>5 DEF Retain, Operation
<1>6. CASE FindSourceFails \/ CopyFails \/ Describe \/ DescribeFails
  BY <1>0, <1>6 DEF FindSourceFails, CopyFails, Describe, DescribeFails, Operation
<1>7. CASE Note
  <2>1. op'.step = "retain"
    BY <1>0, <1>7 DEF Note, Operation
  <2> QED
    BY <2>1
<1>8. CASE NoteFails \/ RetainFails \/ Retained \/ Record \/ Undescribe \/ Renote \/ Crash
  BY <1>0, <1>8 DEF NoteFails, RetainFails, Retained, Record, Undescribe, Renote, Crash, Operation
<1>9. ASSUME NEW r \in Retentions \cup {-1}, UpdateSettings(r) PROVE GateKeepsProfile'
  BY <1>9 DEF UpdateSettings
<1>10. ASSUME NEW a \in archives[active], Delete(a) PROVE GateKeepsProfile'
  BY <1>10 DEF Delete
<1>11. ASSUME NEW a \in archives[active], Restore(a) PROVE GateKeepsProfile'
  BY <1>11 DEF Restore
<1>12. CASE Start \/ Exit \/ CreateWorld \/ Tick
  BY <1>12 DEF Start, Exit, CreateWorld, Tick
<1>13. ASSUME NEW p \in Profiles, Switch(p) PROVE GateKeepsProfile'
  BY <1>13 DEF Switch, GateFree, Idle
<1> QED
  BY <1>1, <1>2, <1>3, <1>4, <1>5, <1>6, <1>7, <1>8, <1>9, <1>10, <1>11, <1>12, <1>13 DEF Next

\* The archive a copy adds is the only new one, and holds the world that was read.
LEMMA CopyBound ==
    ASSUME TypeOK, GateKeepsProfile, BoundToProfile, Copy PROVE BoundToProfile'
<1> USE DEF At, P, SetArchives
<1>0. /\ op.profile \in Profiles
      /\ archives \in [Profiles -> SUBSET Archive] /\ saves \in [Profiles -> SUBSET Profiles]
  BY DEF TypeOK, Operation
<1> SUFFICES ASSUME ~strayed' PROVE BoundToProfile'
  BY DEF BoundToProfile
<1>1. ~strayed /\ saves' = saves /\ op.step = "copy" /\ (op.live => active = op.source)
  BY DEF Copy, Same, directories
<1>2. active = op.profile
  BY <1>1 DEF Copy, GateKeepsProfile
<1>3. PICK owner \in IF op.live THEN {op.source} ELSE saves[active] :
         archives' = [archives EXCEPT ![op.profile] = archives[op.profile] \cup
             {[at |-> op.at, automated |-> op.automated, owner |-> owner, noted |-> FALSE]}]
  BY DEF Copy
<1>4. owner = op.profile
  BY <1>0, <1>1, <1>2, <1>3 DEF BoundToProfile
<1>5. ASSUME NEW p \in Profiles, NEW a \in archives'[p] PROVE a.owner = p
  <2>1. CASE a \in archives[p]
    BY <1>1, <2>1 DEF BoundToProfile
  <2>2. CASE a \notin archives[p]
    <3>1. p = op.profile
          /\ a = [at |-> op.at, automated |-> op.automated, owner |-> owner, noted |-> FALSE]
      BY <1>0, <1>3, <2>2
    <3> QED
      BY <1>4, <3>1
  <2> QED
    BY <2>1, <2>2
<1> QED
  BY <1>1, <1>5 DEF BoundToProfile

\* Noting an archive and removing one leave the owners alone.
LEMMA OwnersKept ==
    ASSUME TypeOK, BoundToProfile, saves' = saves, strayed' = strayed,
           \A p \in Profiles : \A a \in archives'[p] :
               \E b \in archives[p] : a.owner = b.owner
    PROVE  BoundToProfile'
BY DEF BoundToProfile

LEMMA BoundStep ==
    ASSUME TypeOK, GateKeepsProfile, BoundToProfile, [Next]_vars PROVE BoundToProfile'
<1> USE DEF Same, directories, histories, At, P, SetArchives
<1>0. /\ op.profile \in Profiles /\ active \in Profiles
      /\ archives \in [Profiles -> SUBSET Archive] /\ saves \in [Profiles -> SUBSET Profiles]
  BY DEF TypeOK, Operation
<1>1. ASSUME saves' = saves, archives' = archives, strayed' = strayed PROVE BoundToProfile'
  BY <1>1 DEF BoundToProfile
<1>2. CASE UNCHANGED vars
  BY <1>1, <1>2 DEF vars
<1>3. ASSUME \E gated, automated \in BOOLEAN : BeginCreate(gated, automated)
      PROVE  BoundToProfile'
  BY <1>1, <1>3 DEF BeginCreate
<1>4. CASE FindSource \/ FindSourceFails \/ CopyFails \/ Describe \/ NoteFails
  BY <1>1, <1>4 DEF FindSource, FindSourceFails, CopyFails, Describe, NoteFails
<1>5. CASE RetainFails \/ Retained \/ Record \/ Undescribe \/ Renote
  BY <1>1, <1>5 DEF RetainFails, Retained, Record, Undescribe, Renote
<1>6. CASE Copy
  BY <1>6, CopyBound
<1>7. CASE DescribeFails
  BY <1>0, <1>7, OwnersKept DEF DescribeFails
<1>8. CASE Note
  <2>1. archives' = [archives EXCEPT ![op.profile] = NotedArchives]
    BY <1>8 DEF Note
  <2>2. \A a \in NotedArchives : \E b \in archives[op.profile] : a.owner = b.owner
    <3>1. \A b \in archives[op.profile] : [b EXCEPT !.noted = TRUE].owner = b.owner
      BY <1>0 DEF Archive
    <3> QED
      BY <3>1 DEF NotedArchives, Mine
  <2> QED
    BY <1>0, <1>8, <2>1, <2>2, OwnersKept DEF Note
<1>9. CASE Retain
  BY <1>0, <1>9, OwnersKept DEF Retain
<1>10. ASSUME \E r \in Retentions \cup {-1} : UpdateSettings(r) PROVE BoundToProfile'
  BY <1>1, <1>10 DEF UpdateSettings
<1>11. ASSUME NEW a \in archives[active], Delete(a) PROVE BoundToProfile'
  BY <1>0, <1>11, OwnersKept DEF Delete
<1>12. ASSUME NEW a \in archives[active], Restore(a) PROVE BoundToProfile'
  BY <1>0, <1>12 DEF Restore, BoundToProfile
<1>13. CASE CreateWorld
  BY <1>0, <1>13 DEF CreateWorld, BoundToProfile
<1>14. ASSUME Start \/ Exit \/ Tick \/ Crash \/ \E p \in Profiles : Switch(p)
       PROVE  BoundToProfile'
  BY <1>1, <1>14 DEF Start, Exit, Tick, Crash, Switch
<1> QED
  BY <1>2, <1>3, <1>4, <1>5, <1>6, <1>7, <1>8, <1>9, <1>10, <1>11, <1>12, <1>13, <1>14 DEF Next

-----------------------------------------------------------------------------
(* A failure that was recorded stays visible.                              *)

LEMMA GapStep == ASSUME TypeOK, GapExposed, [Next]_vars PROVE GapExposed'
<1> USE DEF Same, directories, histories, P
<1>0. /\ op.profile \in Profiles /\ active \in Profiles /\ failed \subseteq Profiles
      /\ state \in [Profiles -> Store] /\ op.store \in Store
  BY DEF TypeOK, Operation
<1>1. ASSUME state' = state, failed' \subseteq failed PROVE GapExposed'
  BY <1>1 DEF GapExposed
<1>2. ASSUME failed' = failed,
             \A p \in failed : state'[p].error = state[p].error
      PROVE  GapExposed'
  BY <1>2 DEF GapExposed
<1>3. CASE UNCHANGED vars
  BY <1>1, <1>3 DEF vars
<1>4. ASSUME \E gated, automated \in BOOLEAN : BeginCreate(gated, automated)
      PROVE  GapExposed'
  BY <1>1, <1>4 DEF BeginCreate
<1>5. CASE FindSource \/ FindSourceFails \/ Copy \/ CopyFails \/ Describe \/ DescribeFails
  BY <1>1, <1>5 DEF FindSource, FindSourceFails, Copy, CopyFails, Describe, DescribeFails
<1>6. CASE Note
  BY <1>0, <1>6 DEF Note, GapExposed
<1>7. CASE NoteFails \/ Retain \/ RetainFails \/ Retained \/ Undescribe
  BY <1>1, <1>7 DEF NoteFails, Retain, RetainFails, Retained, Undescribe
<1>8. CASE Record
  <2>1. CASE failed' = failed \ {op.profile} /\ state' = state
    BY <1>1, <2>1
  <2>2. CASE /\ failed' = failed \cup {op.profile}
             /\ state' = [state EXCEPT ![op.profile].error = TRUE]
    <3>1. state'[op.profile].error
      BY <1>0, <2>2 DEF Store
    <3>2. \A p \in Profiles \ {op.profile} : state'[p] = state[p]
      BY <1>0, <2>2
    <3> QED
      BY <1>0, <2>2, <3>1, <3>2 DEF GapExposed
  <2> QED
    BY <1>8, <2>1, <2>2 DEF Record
<1>9. CASE Renote
  BY <1>0, <1>1, <1>2, <1>9 DEF Renote, Store
<1>10. ASSUME NEW r \in Retentions \cup {-1}, UpdateSettings(r) PROVE GapExposed'
  BY <1>0, <1>2, <1>10 DEF UpdateSettings, Store
<1>11. ASSUME NEW a \in archives[active], Delete(a) \/ Restore(a) PROVE GapExposed'
  BY <1>1, <1>11 DEF Delete, Restore
<1>12. ASSUME Start \/ Exit \/ CreateWorld \/ Tick \/ Crash \/ \E p \in Profiles : Switch(p)
       PROVE  GapExposed'
  BY <1>1, <1>12 DEF Start, Exit, CreateWorld, Tick, Crash, Switch
<1> QED
  BY <1>3, <1>4, <1>5, <1>6, <1>7, <1>8, <1>9, <1>10, <1>11, <1>12 DEF Next

-----------------------------------------------------------------------------
(* The theorems.                                                           *)

\* The state of the checkpoints is well typed, and the gate keeps the active profile
\* while an operation that holds it reads that profile's saves.
THEOREM CheckpointsInvariant == Spec => []Inv
<1>1. Inv /\ [Next]_vars => Inv'
  BY TypeStep, GateStep, BoundStep, GapStep DEF Inv
<1> QED
  BY InitInv, <1>1, PTL DEF Spec

\* checkpoints.go: every variable keeps its type.
THEOREM CheckpointsType == Spec => []TypeOK
<1>1. Inv => TypeOK
  BY DEF Inv
<1> QED
  BY CheckpointsInvariant, <1>1, PTL

\* A checkpoint and what is restored from it hold a world of their profile, for any
\* number of profiles, failures, crashes and switches (TECHNICAL-NOTES.md:161).
THEOREM CheckpointsBound == Spec => []BoundToProfile
<1>1. Inv => BoundToProfile
  BY DEF Inv
<1> QED
  BY CheckpointsInvariant, <1>1, PTL

\* A recorded error outlives changed settings, deletions, restarts and switches.
THEOREM CheckpointErrorsKept == Spec => []GapExposed
<1>1. Inv => GapExposed
  BY DEF Inv
<1> QED
  BY CheckpointsInvariant, <1>1, PTL

-----------------------------------------------------------------------------
(* The time of the last checkpoint, the cooldown and the retention.        *)

\* The steps of a creation before its archive is there, and until state.json mentions it.
BeforeDescribed == {"source", "copy"}
During == {"describe", "note"}

\* Everything is older than the clock, and what an operation creates is the newest.
Dated ==
    /\ \A p \in Profiles : state[p].last < now /\ \A a \in archives[p] : a.at < now
    /\ op.step \in BeforeDescribed \cup During => op.at < now
    /\ op.step \in BeforeDescribed => \A a \in archives[P] : a.at < op.at
    /\ op.step \in During =>
          /\ Mine # {}
          /\ \A a \in archives[P] : a.at <= op.at
          /\ \A a \in Mine : ~a.noted /\ a.automated = op.automated

\* state.json knows of every archive it once mentioned, and so does the cooldown.
Remembered ==
    /\ \A p \in Profiles : \A a \in archives[p] : a.noted => a.at <= state[p].last
    /\ op.automated /\ op.step \in BeforeDescribed \cup During =>
          \A a \in archives[P] : a.noted => op.at - a.at >= Cooldown

\* The time of the last checkpoint, also while an operation is under way.
LastOf(p) ==
    IF p = P /\ op.step \in During THEN state[p].last = LatestIn(archives[p] \ Mine)
    ELSE \/ p = P /\ op.step \in {"undescribe", "renote"}
         \/ state[p].last = LatestIn(archives[p])
Lasts == \A p \in Profiles \ unnoted : LastOf(p)

\* Retention works on the count it was started with, and leaves the newest alone.
Retaining ==
    /\ \A p \in Profiles : IsFiniteSet(archives[p])
    /\ op.step \in BeforeDescribed \cup During \cup {"retain"} => op.store.retention = state[P].retention
    /\ op.step = "retain" =>
          \A a \in op.excess :
             /\ state[P].retention > 0
             /\ Cardinality(Newer(archives[P] \ op.excess, a)) >= state[P].retention

CooldownInv == Dated /\ Remembered /\ Lasts /\ Spaced /\ Retaining

\* What a set of archives says of its latest one.
LEMMA LatestUnique ==
    ASSUME NEW S \in SUBSET Archive, NEW a \in S, \A b \in S : b.at <= a.at
    PROVE  LatestIn(S) = a.at
<1>1. Newest(S) \in S /\ a.at <= Newest(S).at /\ Newest(S).at <= a.at
  BY NewestIs
<1>2. a.at \in Int /\ Newest(S).at \in Int
  BY <1>1 DEF Archive, Times
<1> QED
  BY <1>1, <1>2 DEF LatestIn

LEMMA LatestAbove ==
    ASSUME NEW S \in SUBSET Archive, NEW a \in S PROVE a.at <= LatestIn(S)
<1>1. Newest(S) \in S /\ a.at <= Newest(S).at
  BY NewestIs
<1> QED
  BY <1>1 DEF LatestIn

\* An archive that has a newer one is not the latest.
LEMMA LatestKept ==
    ASSUME NEW S \in SUBSET Archive, NEW a \in S, NEW b \in S, b.at > a.at
    PROVE  LatestIn(S \ {a}) = LatestIn(S)
<1>1. /\ Newest(S) \in S /\ b.at <= Newest(S).at
      /\ \A c \in S : c.at <= Newest(S).at
  BY NewestIs
<1>2. a.at \in Int /\ b.at \in Int /\ Newest(S).at \in Int
  BY <1>1 DEF Archive, Times
<1>3. Newest(S) \in S \ {a}
  BY <1>1, <1>2
<1>4. LatestIn(S \ {a}) = Newest(S).at
  BY <1>1, <1>3, LatestUnique
<1> QED
  BY <1>4 DEF LatestIn

\* Marking archives changes no time.
LEMMA LatestMarked ==
    ASSUME TypeOK, \A a \in archives[P] : a.at <= op.at, Mine # {}
    PROVE  NotedArchives \in SUBSET Archive /\ LatestIn(NotedArchives) = op.at
<1>1. archives[P] \in SUBSET Archive
  BY DEF TypeOK, Operation, P
<1> DEFINE Mark(a) == [a EXCEPT !.noted = TRUE]
<1>2. \A a \in Archive : Mark(a) \in Archive /\ Mark(a).at = a.at
  BY DEF Archive
<1>3. NotedArchives = (archives[P] \ Mine) \cup {Mark(a) : a \in Mine}
  BY DEF NotedArchives
<1> HIDE DEF Mark
<1>4. PICK a \in archives[P] : a.at = op.at
  BY DEF Mine
<1>5. NotedArchives \in SUBSET Archive /\ Mark(a) \in NotedArchives
  BY <1>1, <1>2, <1>3, <1>4 DEF Mine
<1>6. \A b \in NotedArchives : b.at <= Mark(a).at
  BY <1>1, <1>2, <1>3, <1>4 DEF Mine
<1> QED
  BY <1>1, <1>2, <1>4, <1>5, <1>6, LatestUnique

\* Steps outside the archives; only a creation uses the clock.
LEMMA AroundKeeps ==
    ASSUME TypeOK, CooldownInv,
           \/ Start \/ Exit \/ CreateWorld \/ Tick \/ \E p \in Profiles : Switch(p)
           \/ \E a \in archives[active] : Restore(a)
    PROVE  CooldownInv'
<1>1. UNCHANGED <<archives, state, op, unnoted>> /\ now \in Int /\ now' \in Int /\ now <= now'
  BY DEF Start, Exit, CreateWorld, Tick, Switch, Restore, histories, TypeOK, Times
<1>2. Dated'
  <2>1. \A p \in Profiles : /\ state[p].last \in Int
                            /\ \A a \in archives[p] : a.at \in Int
    BY DEF TypeOK, Store, Archive, Times, Never
  <2>2. op.at \in Int
    BY DEF TypeOK, Operation, Times
  <2> QED
    BY <1>1, <2>1, <2>2 DEF CooldownInv, Dated, Mine, P
<1>3. Remembered' /\ Lasts' /\ Spaced' /\ Retaining'
  BY <1>1 DEF CooldownInv, Remembered, Lasts, LastOf, Spaced, Retaining, Mine, P
<1> QED
  BY <1>2, <1>3 DEF CooldownInv

\* A creation begins; automated ones a cooldown after the latest that state.json knows.
LEMMA BackupBegins ==
    ASSUME TypeOK, CooldownInv, NEW gated \in BOOLEAN, NEW automated \in BOOLEAN,
           BeginCreate(gated, automated)
    PROVE  CooldownInv'
<1>1. /\ UNCHANGED <<archives, state, unnoted>> /\ now' = now + 1 /\ now \in Int
      /\ active \in Profiles /\ op.step = "idle"
      /\ op'.step = "source" /\ op'.profile = active /\ op'.at = now
      /\ op'.automated = automated /\ op'.store = state[active]
      /\ automated => state[active].last = Never \/ ~(now - state[active].last < Cooldown)
  BY DEF BeginCreate, histories, TypeOK, Times, Idle, Resting, Coalesced
<1>2. \A p \in Profiles : /\ state[p].last \in Int
                          /\ \A a \in archives[p] : a.at \in Int /\ a.at > 0
  BY DEF TypeOK, Store, Archive, Times, Never
<1>3. Dated'
  BY <1>1, <1>2 DEF CooldownInv, Dated, BeforeDescribed, During, P
<1>4. Remembered'
  BY <1>1, <1>2, CheckpointConstants DEF CooldownInv, Remembered, BeforeDescribed, During, Never, P
<1>5. \A p \in Profiles \ unnoted : state[p].last = LatestIn(archives[p])
  BY <1>1 DEF CooldownInv, Lasts, LastOf, During
<1>6. Lasts'
  BY <1>1, <1>5 DEF Lasts, LastOf, During, P
<1>7. Retaining'
  BY <1>1 DEF CooldownInv, Retaining, P
<1> QED
  BY <1>1, <1>3, <1>4, <1>6, <1>7 DEF CooldownInv, Spaced

\* Steps on the way: the archive's, and of its metadata.
LEMMA OnTheWay ==
    ASSUME TypeOK, CooldownInv, FindSource \/ Describe
    PROVE  CooldownInv'
<1>1. /\ UNCHANGED <<archives, state, unnoted, now>>
      /\ op'.profile = op.profile /\ op'.at = op.at /\ op'.automated = op.automated
      /\ op'.store = op.store
      /\ \/ op.step = "source" /\ op'.step = "copy"
         \/ op.step = "describe" /\ op'.step = "note"
  BY DEF FindSource, Describe, Same, At, Goto, histories, TypeOK, Operation
<1>2. Mine' = Mine
  BY <1>1 DEF Mine, P
<1>3. Dated' /\ Remembered' /\ Spaced'
  BY <1>1, <1>2 DEF CooldownInv, Dated, Remembered, Spaced, BeforeDescribed, During, P
<1>4. Lasts'
  BY <1>1, <1>2 DEF CooldownInv, Lasts, LastOf, During, P
<1>5. Retaining'
  BY <1>1 DEF CooldownInv, Retaining, BeforeDescribed, During, P
<1> QED
  BY <1>3, <1>4, <1>5 DEF CooldownInv

\* Steps that give up; what state.json may have missed is noted.
LEMMA BackupGivenUp ==
    ASSUME TypeOK, CooldownInv,
           \/ FindSourceFails \/ CopyFails \/ NoteFails \/ RetainFails \/ Retained
           \/ Undescribe \/ Crash
    PROVE  CooldownInv'
<1>1. /\ UNCHANGED <<archives, state, now>> /\ unnoted \subseteq unnoted'
      /\ op'.step \in {"idle", "record", "renote"}
      /\ op'.profile = op.profile \/ op'.step = "idle"
      /\ P \in Profiles
  BY DEF FindSourceFails, CopyFails, NoteFails, RetainFails, Retained, Undescribe, Crash, Same,
         At, Goto, Return, Resting, histories, TypeOK, Operation, Marked, P
<1>2. /\ op.step \in During => P \in unnoted'
      /\ op.step \in {"undescribe", "renote"} => P \in unnoted' \/ op'.step = "renote"
  BY DEF FindSourceFails, CopyFails, NoteFails, RetainFails, Retained, Undescribe, Crash, Same,
         At, Goto, Return, Resting, histories, TypeOK, Operation, Marked, During, P
<1>3. Dated' /\ Remembered' /\ Spaced' /\ Retaining'
  BY <1>1 DEF CooldownInv, Dated, Remembered, Spaced, Retaining, BeforeDescribed, During, P
<1>4. Lasts'
  <2> SUFFICES ASSUME NEW p \in Profiles, p \notin unnoted' PROVE LastOf(p)'
    BY DEF Lasts
  <2>1. LastOf(p)
    BY <1>1 DEF CooldownInv, Lasts
  <2> QED
    BY <1>1, <1>2, <2>1 DEF LastOf, During, P
<1> QED
  BY <1>3, <1>4 DEF CooldownInv

\* Steps that leave everybody else's archives and state.json alone.
OtherBackups == \A p \in Profiles : p # P => archives'[p] = archives[p] /\ state'[p] = state[p]

\* The copy is there, the newest archive of its profile.
LEMMA BackupCopyKeeps == ASSUME TypeOK, TypeOK', CooldownInv, Copy PROVE CooldownInv'
<1>1. PICK owner : archives' = [archives EXCEPT ![P] = archives[P] \cup
                      {[at |-> op.at, automated |-> op.automated, owner |-> owner, noted |-> FALSE]}]
  BY DEF Copy, SetArchives
<1> DEFINE new == [at |-> op.at, automated |-> op.automated, owner |-> owner, noted |-> FALSE]
<1>2. new.at = op.at /\ new.automated = op.automated /\ ~new.noted
  OBVIOUS
<1> HIDE DEF new
<1>3. /\ UNCHANGED <<state, now, unnoted>> /\ op.step = "copy" /\ op'.step = "describe"
      /\ op'.profile = op.profile /\ op'.at = op.at /\ op'.automated = op.automated
      /\ op'.store = op.store /\ P \in Profiles
  BY DEF Copy, Same, At, TypeOK, Operation, P
<1>4. archives'[P] = archives[P] \cup {new} /\ OtherBackups
  BY <1>1, <1>3 DEF new, TypeOK, OtherBackups
<1>5. \A a \in archives[P] : a.at < op.at
  BY <1>3 DEF CooldownInv, Dated, BeforeDescribed
<1>6. \A p \in Profiles : \A a \in archives[p] : a.at \in Int
  BY DEF TypeOK, Archive, Times
<1>7. op.at \in Int /\ op.at < now
  BY <1>3 DEF TypeOK, Operation, Times, CooldownInv, Dated, BeforeDescribed
<1>8. Mine' = {new}
  <2>1. Mine' = {a \in archives'[P] : a.at = op.at}
    BY <1>3 DEF Mine, P
  <2>2. \A a \in archives[P] : a.at # op.at
    BY <1>3, <1>5, <1>6, <1>7
  <2> QED
    BY <1>2, <1>4, <2>1, <2>2
<1>9. \A a \in archives'[P] : a \in archives[P] \/ a = new
  BY <1>4
<1>10. Dated'
  <2>1. \A p \in Profiles : state'[p].last < now' /\ \A a \in archives'[p] : a.at < now'
    BY <1>2, <1>3, <1>4, <1>7, <1>9 DEF CooldownInv, Dated, OtherBackups
  <2>2. \A a \in archives'[P] : a.at <= op.at
    BY <1>2, <1>3, <1>5, <1>6, <1>7, <1>9
  <2> QED
    BY <1>2, <1>3, <1>7, <1>8, <2>1, <2>2 DEF Dated, BeforeDescribed, During, P
<1>11. Remembered'
  <2>1. \A p \in Profiles : \A a \in archives'[p] : a.noted => a.at <= state'[p].last
    BY <1>2, <1>3, <1>4, <1>9 DEF CooldownInv, Remembered, OtherBackups
  <2>2. op.automated => \A a \in archives'[P] : a.noted => op.at - a.at >= Cooldown
    BY <1>2, <1>3, <1>9 DEF CooldownInv, Remembered, BeforeDescribed
  <2> QED
    BY <1>3, <2>1, <2>2 DEF Remembered, P
<1>12. Spaced'
  BY <1>2, <1>3, <1>4, <1>9 DEF CooldownInv, Spaced, OtherBackups
<1>13. Lasts'
  <2>1. \A p \in Profiles \ unnoted : state[p].last = LatestIn(archives[p])
    BY <1>3 DEF CooldownInv, Lasts, LastOf, During
  <2>2. archives'[P] \ Mine' = archives[P]
    BY <1>2, <1>3, <1>4, <1>5, <1>6, <1>7, <1>8
  <2>3. state'[P].last = state[P].last /\ P' = P
    BY <1>3 DEF P
  <2>4. ASSUME NEW p \in Profiles, p \notin unnoted' PROVE LastOf(p)'
    <3>1. CASE p = P
      <4>1. state'[p].last = LatestIn(archives'[p] \ Mine')
        BY <1>3, <2>1, <2>2, <2>3, <2>4, <3>1
      <4> QED
        BY <1>3, <2>3, <3>1, <4>1 DEF LastOf, During
    <3>2. CASE p # P
      <4>1. state'[p].last = LatestIn(archives'[p])
        BY <1>3, <1>4, <2>1, <2>4, <3>2 DEF OtherBackups
      <4> QED
        BY <2>3, <3>2, <4>1 DEF LastOf
    <3> QED
      BY <3>1, <3>2
  <2> QED
    BY <2>4 DEF Lasts
<1>14. Retaining'
  <2>1. \A p \in Profiles : IsFiniteSet(archives'[p])
    BY <1>3, <1>4, FS_AddElement DEF CooldownInv, Retaining, OtherBackups
  <2> QED
    BY <1>3, <2>1 DEF CooldownInv, Retaining, BeforeDescribed, During, P
<1> QED
  BY <1>10, <1>11, <1>12, <1>13, <1>14 DEF CooldownInv

\* An archive without metadata goes, or state.json is known not to mention it.
LEMMA DescribeFailsKeeps ==
    ASSUME TypeOK, TypeOK', CooldownInv, DescribeFails PROVE CooldownInv'
<1>1. /\ UNCHANGED <<state, now>> /\ op.step = "describe" /\ op'.step = "record"
      /\ op'.profile = op.profile /\ P \in Profiles
  BY DEF DescribeFails, Same, At, Goto, TypeOK, Operation, P
<1>2. /\ \/ archives' = [archives EXCEPT ![P] = archives[P] \ Mine] /\ unnoted' = unnoted
         \/ archives' = archives /\ unnoted' = unnoted \cup {P}
      /\ OtherBackups /\ archives'[P] \subseteq archives[P]
  BY <1>1 DEF DescribeFails, SetArchives, TypeOK, OtherBackups
<1>3. Dated' /\ Remembered' /\ Spaced'
  BY <1>1, <1>2 DEF CooldownInv, Dated, Remembered, Spaced, OtherBackups, BeforeDescribed, During
<1>4. Lasts'
  <2>1. \A p \in Profiles \ unnoted : p # P => state[p].last = LatestIn(archives[p])
    BY <1>1 DEF CooldownInv, Lasts, LastOf, P
  <2>2. P \notin unnoted => state[P].last = LatestIn(archives[P] \ Mine)
    BY <1>1 DEF CooldownInv, Lasts, LastOf, During
  <2>3. P \notin unnoted' => archives'[P] = archives[P] \ Mine /\ P \notin unnoted
    BY <1>1, <1>2 DEF TypeOK
  <2>4. \A p \in Profiles : p \notin unnoted' => p \notin unnoted
    BY <1>2
  <2> QED
    BY <1>1, <1>2, <2>1, <2>2, <2>3, <2>4 DEF Lasts, LastOf, OtherBackups, During, P
<1>5. Retaining'
  <2>1. \A p \in Profiles : archives'[p] \subseteq archives[p]
    BY <1>2 DEF OtherBackups
  <2>2. \A p \in Profiles : IsFiniteSet(archives'[p])
    BY <2>1, FS_Subset DEF CooldownInv, Retaining
  <2> QED
    BY <1>1, <2>2 DEF Retaining, BeforeDescribed, During
<1> QED
  BY <1>3, <1>4, <1>5 DEF CooldownInv

\* What a failure, the settings and a deletion write.
LEMMA BackupWritesKeep ==
    ASSUME TypeOK, TypeOK', CooldownInv,
           \/ Record \/ \E r \in Retentions \cup {-1} : UpdateSettings(r)
           \/ \E a \in archives[active] : Delete(a)
    PROVE  CooldownInv'
<1>0. \A p \in Profiles : state[p] = [last |-> state[p].last, error |-> state[p].error,
                                     retention |-> state[p].retention]
  BY DEF TypeOK, Store
<1>1. /\ UNCHANGED <<now, unnoted>> /\ op'.step \in {"idle", "undescribe"}
      /\ op.step \in {"idle", "record"}
      /\ \A p \in Profiles : state'[p].last = state[p].last
      /\ \A p \in Profiles : archives'[p] \subseteq archives[p]
      /\ \A p \in Profiles : \/ archives'[p] = archives[p]
                             \/ op'.step = "undescribe" /\ p = op'.profile
  <2>1. CASE Record
    <3>1. /\ UNCHANGED <<now, unnoted, archives>> /\ op'.step = "idle" /\ op.step = "record"
          /\ state' = [state EXCEPT ![P].error = TRUE] \/ state' = state
      BY <2>1 DEF Record, Same, At, Return, Resting
    <3> QED
      BY <1>0, <3>1 DEF TypeOK
  <2>2. CASE \E r \in Retentions \cup {-1} : UpdateSettings(r)
    <3>1. PICK r \in Retentions \cup {-1} : UpdateSettings(r)
      BY <2>2
    <3>2. /\ UNCHANGED <<now, unnoted, archives>> /\ op'.step = "idle" /\ op.step = "idle"
          /\ state' = [state EXCEPT ![active].retention = r]
      BY <3>1 DEF UpdateSettings, Same, histories, Idle, Resting
    <3> QED
      BY <1>0, <3>2 DEF TypeOK
  <2>3. CASE \E a \in archives[active] : Delete(a)
    <3>1. PICK a \in archives[active] : Delete(a)
      BY <2>3
    <3>2. /\ UNCHANGED <<now, unnoted, state>> /\ op.step = "idle"
          /\ op'.step = "undescribe" /\ op'.profile = active
          /\ archives' = [archives EXCEPT ![active] = @ \ {a}]
      BY <3>1 DEF Delete, Same, histories, Idle, Resting
    <3> QED
      BY <3>2 DEF TypeOK
  <2> QED
    BY <2>1, <2>2, <2>3
<1>2. Dated' /\ Remembered' /\ Spaced'
  BY <1>1 DEF CooldownInv, Dated, Remembered, Spaced, BeforeDescribed, During
<1>3. Lasts'
  <2>1. \A p \in Profiles \ unnoted : state[p].last = LatestIn(archives[p])
    BY <1>1 DEF CooldownInv, Lasts, LastOf, During
  <2> QED
    BY <1>1, <2>1 DEF Lasts, LastOf, During, P
<1>4. Retaining'
  <2>1. \A p \in Profiles : IsFiniteSet(archives'[p])
    BY <1>1, FS_Subset DEF CooldownInv, Retaining
  <2> QED
    BY <1>1, <2>1 DEF Retaining, BeforeDescribed, During
<1> QED
  BY <1>2, <1>3, <1>4 DEF CooldownInv

LEMMA RenoteKeeps == ASSUME TypeOK, TypeOK', CooldownInv, Renote PROVE CooldownInv'
<1>1. /\ UNCHANGED <<now, archives>> /\ op.step = "renote" /\ op'.step = "idle" /\ P \in Profiles
      /\ \/ /\ state' = [state EXCEPT ![P].last = LatestIn(archives[P])]
            /\ unnoted' = unnoted \ {P}
         \/ state' = state /\ unnoted' = unnoted \cup {P}
  BY DEF Renote, Same, At, Return, Resting, TypeOK, Operation, P
<1>2. /\ \A p \in Profiles : p # P => state'[p] = state[p]
      /\ \/ state'[P].last = LatestIn(archives[P])
         \/ state'[P].last = state[P].last /\ P \in unnoted'
      /\ \A p \in Profiles : p # P /\ p \notin unnoted' => p \notin unnoted
  BY <1>1 DEF TypeOK, Store
<1>3. archives[P] \in SUBSET Archive
  BY <1>1 DEF TypeOK
<1>4. LatestIn(archives[P]) < now
  <2>1. CASE archives[P] = {}
    BY <2>1 DEF LatestIn, TypeOK, Times, Never
  <2>2. CASE archives[P] # {}
    BY <1>1, <1>3, <2>2, NewestIs DEF LatestIn, CooldownInv, Dated
  <2> QED
    BY <2>1, <2>2
<1>5. \A a \in archives[P] : a.at <= LatestIn(archives[P])
  BY <1>3, LatestAbove
<1>6. Dated'
  BY <1>1, <1>2, <1>4 DEF CooldownInv, Dated, BeforeDescribed, During
<1>7. Remembered'
  BY <1>1, <1>2, <1>5 DEF CooldownInv, Remembered, BeforeDescribed, During
<1>8. Lasts'
  <2>1. \A p \in Profiles \ unnoted : p # P => state[p].last = LatestIn(archives[p])
    BY <1>1 DEF CooldownInv, Lasts, LastOf, During
  <2> QED
    BY <1>1, <1>2, <2>1 DEF Lasts, LastOf, During
<1>9. Spaced' /\ Retaining'
  BY <1>1 DEF CooldownInv, Spaced, Retaining, BeforeDescribed, During
<1> QED
  BY <1>6, <1>7, <1>8, <1>9 DEF CooldownInv

\* As many archives as the retention asks for are newer than any of the superfluous.
LEMMA ExcessIsOld ==
    ASSUME NEW S \in SUBSET Archive, IsFiniteSet(S), NEW r \in Nat, NEW a \in Excess(S, r)
    PROVE  r > 0 /\ Cardinality(Newer(S \ Excess(S, r), a)) >= r
<1> DEFINE E == Excess(S, r)
<1>1. /\ r > 0 /\ E \in SUBSET S
      /\ \A b \in E : Cardinality(Newer(S, b)) >= r
  BY DEF Excess
<1> HIDE DEF E
<1>2. Newest(E) \in E /\ \A b \in E : b.at <= Newest(E).at
  BY <1>1, NewestIs DEF E
<1>3. \A b \in S : b.at \in Int
  BY DEF Archive, Times
<1>4. Newer(S, Newest(E)) \subseteq Newer(S \ E, a)
  BY <1>1, <1>2, <1>3 DEF Newer, E
<1>5. IsFiniteSet(Newer(S \ E, a))
  BY FS_Subset DEF Newer
<1>6. /\ Cardinality(Newer(S, Newest(E))) <= Cardinality(Newer(S \ E, a))
      /\ Cardinality(Newer(S \ E, a)) \in Nat /\ Cardinality(Newer(S, Newest(E))) \in Nat
  BY <1>4, <1>5, FS_Subset, FS_CardinalityType
<1>7. Cardinality(Newer(S, Newest(E))) >= r
  BY <1>1, <1>2
<1> QED
  BY <1>1, <1>6, <1>7 DEF E

\* More archives do not make another one superfluous.
LEMMA NewerMore ==
    ASSUME NEW S, IsFiniteSet(S), NEW T \in SUBSET S, NEW a, NEW r \in Nat,
           Cardinality(Newer(T, a)) >= r
    PROVE  Cardinality(Newer(S, a)) >= r
<1>1. Newer(T, a) \subseteq Newer(S, a) /\ Newer(S, a) \subseteq S
  BY DEF Newer
<1>2. /\ IsFiniteSet(Newer(S, a)) /\ IsFiniteSet(Newer(T, a))
      /\ Cardinality(Newer(T, a)) <= Cardinality(Newer(S, a))
  BY <1>1, FS_Subset
<1>3. Cardinality(Newer(S, a)) \in Nat /\ Cardinality(Newer(T, a)) \in Nat
  BY <1>2, FS_CardinalityType
<1> QED
  BY <1>2, <1>3

\* state.json tells of the new archive, and what is superfluous is found.
LEMMA NoteKeeps == ASSUME TypeOK, TypeOK', CooldownInv, Note PROVE CooldownInv'
<1>1. /\ UNCHANGED now /\ op.step = "note" /\ op'.step = "retain"
      /\ op'.profile = op.profile /\ op'.store = op.store
      /\ op'.excess = Excess(NotedArchives, op.store.retention)
      /\ unnoted' = unnoted \ {P} /\ P \in Profiles
  BY DEF Note, Same, At, TypeOK, Operation, P
<1>2. archives'[P] = NotedArchives /\ state'[P].last = op.at /\ OtherBackups
  BY <1>1 DEF Note, SetArchives, TypeOK, OtherBackups, Operation, Store
<1>3. state'[P].retention = op.store.retention /\ op.store.retention \in Nat
  <2>1. op.store \in Store
    BY DEF TypeOK, Operation
  <2> QED
    BY <1>1, <2>1, CheckpointConstants DEF Note, TypeOK, Store
<1>4. /\ \A a \in archives[P] : a.at <= op.at
      /\ \A a \in Mine : ~a.noted /\ a.automated = op.automated
      /\ Mine # {} /\ op.at < now
  BY <1>1 DEF CooldownInv, Dated, During
<1>5. NotedArchives \in SUBSET Archive /\ LatestIn(NotedArchives) = op.at
  BY <1>4, LatestMarked
<1>6. \A b \in NotedArchives : \/ b \in archives[P] /\ b.at # op.at
                               \/ b.at = op.at /\ b.automated = op.automated
  <2>1. \A a \in Mine : a \in Archive
    BY <1>1 DEF Mine, TypeOK
  <2>2. \A a \in Mine : [a EXCEPT !.noted = TRUE].at = a.at
                        /\ [a EXCEPT !.noted = TRUE].automated = a.automated
    BY <2>1 DEF Archive
  <2> QED
    BY <1>4, <2>2 DEF NotedArchives, Mine
<1>7. \A p \in Profiles : \A a \in archives[p] : a.at \in Int
  BY DEF TypeOK, Archive, Times
<1>8. op.at \in Int /\ now \in Int
  BY DEF TypeOK, Operation, Times
<1>9. \A b \in NotedArchives : b.at <= op.at
  BY <1>4, <1>6, <1>8
<1>10. Dated'
  <2>1. \A b \in NotedArchives : b.at < now
    BY <1>4, <1>5, <1>8, <1>9 DEF Archive, Times
  <2> QED
    BY <1>1, <1>2, <1>4, <2>1 DEF CooldownInv, Dated, OtherBackups, BeforeDescribed, During
<1>11. Remembered'
  BY <1>1, <1>2, <1>9 DEF CooldownInv, Remembered, OtherBackups, BeforeDescribed, During
<1>12. Lasts'
  <2>1. \A p \in Profiles \ unnoted : p # P => state[p].last = LatestIn(archives[p])
    BY <1>1 DEF CooldownInv, Lasts, LastOf, P
  <2>2. ASSUME NEW p \in Profiles, p \notin unnoted' PROVE state'[p].last = LatestIn(archives'[p])
    <3>1. CASE p = P
      BY <1>2, <1>5, <3>1
    <3>2. CASE p # P
      BY <1>1, <1>2, <2>1, <2>2, <3>2 DEF OtherBackups
    <3> QED
      BY <3>1, <3>2
  <2> QED
    BY <1>1, <2>2 DEF Lasts, LastOf, During
<1>13. Spaced'
  <2>1. ASSUME NEW a \in NotedArchives, NEW b \in NotedArchives,
               a.automated, b.automated, a.noted, b.noted, a.at < b.at
        PROVE  b.at - a.at >= Cooldown
    <3>1. a \in archives[P] /\ a.at # op.at
      BY <1>5, <1>6, <1>8, <1>9, <2>1 DEF Archive, Times
    <3>2. CASE b \in archives[P] /\ b.at # op.at
      BY <1>1, <2>1, <3>1, <3>2 DEF CooldownInv, Spaced
    <3>3. CASE b.at = op.at /\ b.automated = op.automated
      BY <1>1, <2>1, <3>1, <3>3 DEF CooldownInv, Remembered, During
    <3> QED
      BY <1>6, <3>2, <3>3
  <2> QED
    BY <1>2, <2>1 DEF CooldownInv, Spaced, OtherBackups
<1>14. Retaining'
  <2>1. IsFiniteSet(NotedArchives)
    <3>1. IsFiniteSet(archives[P]) /\ Mine \subseteq archives[P]
      BY <1>1 DEF CooldownInv, Retaining, Mine
    <3>2. IsFiniteSet(archives[P] \ Mine) /\ IsFiniteSet(Mine)
      BY <3>1, FS_Subset
    <3>3. IsFiniteSet({[a EXCEPT !.noted = TRUE] : a \in Mine})
      <4> DEFINE Mark(a) == [a EXCEPT !.noted = TRUE]
      <4> DEFINE T == {Mark(a) : a \in Mine}
      <4> DEFINE f == [a \in Mine |-> Mark(a)]
      <4> HIDE DEF Mark
      <4>1. f \in Surjection(Mine, T)
        BY DEF Surjection
      <4>2. IsFiniteSet(T)
        BY <3>2, <4>1, FS_Surjection
      <4> QED
        BY <4>2 DEF Mark
    <3> QED
      BY <3>2, <3>3, FS_Union DEF NotedArchives
  <2>2. \A p \in Profiles : IsFiniteSet(archives'[p])
    BY <1>2, <2>1 DEF CooldownInv, Retaining, OtherBackups
  <2>3. \A a \in op'.excess :
           /\ state'[P].retention > 0
           /\ Cardinality(Newer(archives'[P] \ op'.excess, a)) >= state'[P].retention
    BY <1>1, <1>2, <1>3, <1>5, <2>1, ExcessIsOld
  <2> QED
    BY <1>1, <1>3, <2>2, <2>3 DEF Retaining, BeforeDescribed, During, P
<1> QED
  BY <1>10, <1>11, <1>12, <1>13, <1>14 DEF CooldownInv

\* What a step of the retention does: a superfluous archive goes, or it stays.
LEMMA RetainDoes ==
    ASSUME TypeOK, CooldownInv, Retain
    PROVE  /\ UNCHANGED <<now, state, unnoted>> /\ P \in Profiles /\ OtherBackups
           /\ op.step = "retain" /\ op'.step = "retain"
           /\ op'.profile = op.profile /\ op'.store = op.store
           /\ \E a \in op.excess :
                 /\ op'.excess = op.excess \ {a}
                 /\ archives'[P] = archives[P] \ {a} \/ archives'[P] = archives[P]
                 /\ state[P].retention \in Nat \ {0}
                 /\ Cardinality(Newer(archives[P] \ op.excess, a)) >= state[P].retention
<1>1. Newest(op.excess) \in op.excess
  BY NewestIs DEF Retain, TypeOK, Operation
<1>2. PICK removed \in BOOLEAN, error \in BOOLEAN :
         /\ archives' = [archives EXCEPT ![P] = IF removed THEN archives[P] \ {Newest(op.excess)}
                                                ELSE archives[P]]
         /\ op' = [op EXCEPT !.excess = @ \ {Newest(op.excess)}, !.complained = @ \/ error]
  BY DEF Retain, SetArchives
<1>3. UNCHANGED <<now, state, unnoted>> /\ P \in Profiles /\ op.step = "retain"
  BY DEF Retain, Same, histories, At, TypeOK, Operation, P
<1>4. /\ op'.step = "retain" /\ op'.profile = op.profile /\ op'.store = op.store
      /\ op'.excess = op.excess \ {Newest(op.excess)}
  BY <1>2, <1>3 DEF TypeOK, Operation
<1>5. /\ archives'[P] = archives[P] \ {Newest(op.excess)} \/ archives'[P] = archives[P]
      /\ OtherBackups
  BY <1>2, <1>3 DEF TypeOK, OtherBackups
<1>6. /\ state[P].retention \in Nat \ {0}
      /\ Cardinality(Newer(archives[P] \ op.excess, Newest(op.excess))) >= state[P].retention
  <2>1. state[P].retention \in Nat
    BY <1>3, CheckpointConstants DEF TypeOK, Store
  <2>2. /\ state[P].retention > 0
        /\ Cardinality(Newer(archives[P] \ op.excess, Newest(op.excess))) >= state[P].retention
    BY <1>1, <1>3 DEF CooldownInv, Retaining
  <2> QED
    BY <2>1, <2>2
<1> QED
  BY <1>1, <1>3, <1>4, <1>5, <1>6

LEMMA RetainKeeps == ASSUME TypeOK, TypeOK', CooldownInv, Retain PROVE CooldownInv'
<1>1. /\ UNCHANGED <<now, state, unnoted>> /\ P \in Profiles /\ OtherBackups
      /\ op.step = "retain" /\ op'.step = "retain"
      /\ op'.profile = op.profile /\ op'.store = op.store
  BY RetainDoes
<1>2. PICK a \in op.excess :
         /\ op'.excess = op.excess \ {a}
         /\ archives'[P] = archives[P] \ {a} \/ archives'[P] = archives[P]
         /\ state[P].retention \in Nat \ {0}
         /\ Cardinality(Newer(archives[P] \ op.excess, a)) >= state[P].retention
  BY RetainDoes
<1>3. \A p \in Profiles : archives'[p] \subseteq archives[p]
  BY <1>1, <1>2 DEF OtherBackups
<1>4. Dated' /\ Remembered' /\ Spaced'
  BY <1>1, <1>3 DEF CooldownInv, Dated, Remembered, Spaced, BeforeDescribed, During
<1>5. \A p \in Profiles : IsFiniteSet(archives'[p])
  BY <1>3, FS_Subset DEF CooldownInv, Retaining
<1>6. Lasts'
  <2>1. \A p \in Profiles \ unnoted : state[p].last = LatestIn(archives[p])
    BY <1>1 DEF CooldownInv, Lasts, LastOf, During
  <2>2. LatestIn(archives'[P]) = LatestIn(archives[P])
    <3>1. Newer(archives[P] \ op.excess, a) # {}
      BY <1>2, FS_EmptySet
    <3>2. PICK b \in archives[P] : b.at > a.at
      BY <3>1 DEF Newer
    <3>3. CASE a \in archives[P]
      BY <1>1, <1>2, <3>2, <3>3, LatestKept DEF TypeOK
    <3>4. CASE a \notin archives[P]
      <4>1. archives[P] \ {a} = archives[P]
        BY <3>4
      <4> QED
        BY <1>2, <4>1
    <3> QED
      BY <3>3, <3>4
  <2> QED
    BY <1>1, <2>1, <2>2 DEF Lasts, LastOf, During, OtherBackups, P
<1>7. Retaining'
  <2> SUFFICES ASSUME NEW e \in op'.excess
               PROVE  /\ state'[P].retention > 0
                      /\ Cardinality(Newer(archives'[P] \ op'.excess, e)) >= state'[P].retention
    BY <1>1, <1>5 DEF CooldownInv, Retaining, BeforeDescribed, During, P
  <2>1. archives[P] \ op.excess \subseteq archives'[P] \ op'.excess
    BY <1>2
  <2>2. IsFiniteSet(archives'[P] \ op'.excess)
    BY <1>1, <1>5, FS_Subset
  <2>3. Cardinality(Newer(archives[P] \ op.excess, e)) >= state[P].retention
    BY <1>1, <1>2 DEF CooldownInv, Retaining
  <2> QED
    BY <1>1, <1>2, <2>1, <2>2, <2>3, NewerMore
<1> QED
  BY <1>4, <1>5, <1>6, <1>7 DEF CooldownInv

LEMMA CooldownStep == ASSUME TypeOK, TypeOK', CooldownInv, [Next]_vars PROVE CooldownInv'
<1>1. CASE Next
  BY <1>1, AroundKeeps, BackupBegins, OnTheWay, BackupGivenUp, BackupCopyKeeps, DescribeFailsKeeps, BackupWritesKeep,
     RenoteKeeps, NoteKeeps, RetainKeeps DEF Next
<1>2. CASE UNCHANGED vars
  BY <1>2 DEF vars, histories, CooldownInv, Dated, Remembered, Lasts, LastOf, Spaced, Retaining,
              Mine, P
<1> QED
  BY <1>1, <1>2

LEMMA CooldownInit == Init => CooldownInv
<1> SUFFICES ASSUME Init PROVE CooldownInv
  OBVIOUS
<1>1. /\ now = 1 /\ \A p \in Profiles : state[p].last = 0 /\ archives[p] = {}
      /\ op.step = "idle"
  BY DEF Init, FirstStore, Never, Resting
<1>2. Dated /\ Remembered /\ Spaced
  BY <1>1 DEF Dated, Remembered, Spaced, BeforeDescribed, During
<1>3. Lasts
  BY <1>1 DEF Lasts, LastOf, LatestIn, Never, During
<1>4. Retaining
  BY <1>1, FS_EmptySet DEF Retaining, BeforeDescribed, During
<1> QED
  BY <1>2, <1>3, <1>4 DEF CooldownInv

\* What a step removes is superfluous, an archive without metadata, or deleted.
LEMMA NewestKept ==
    ASSUME TypeOK, CooldownInv, Next, ~Idle, NEW p \in Profiles, NEW a \in archives[p],
           a.noted, a \notin archives'[p]
    PROVE  /\ state[p].retention > 0
           /\ Cardinality(Newer(archives'[p], a)) >= state[p].retention
<1>1. CASE Retain
  <2>1. OtherBackups /\ P \in Profiles
    BY <1>1, RetainDoes
  <2>2. PICK e \in op.excess :
           /\ archives'[P] = archives[P] \ {e} \/ archives'[P] = archives[P]
           /\ state[P].retention \in Nat \ {0}
           /\ Cardinality(Newer(archives[P] \ op.excess, e)) >= state[P].retention
    BY <1>1, RetainDoes
  <2>3. p = P
    BY <2>1 DEF OtherBackups
  <2>4. archives'[p] = archives[p] \ {a} /\ e = a
    BY <2>2, <2>3
  <2>5. archives[p] \ op.excess \subseteq archives'[p] /\ IsFiniteSet(archives'[p])
    BY <2>2, <2>3, <2>4, FS_Subset DEF CooldownInv, Retaining
  <2> QED
    BY <2>2, <2>3, <2>4, <2>5, NewerMore
<1>2. CASE Copy \/ DescribeFails \/ Note
  <2>1. P \in Profiles /\ p = P
    BY <1>2 DEF Copy, DescribeFails, Note, SetArchives, TypeOK, Operation, P
  <2>2. CASE Copy
    BY <2>1, <2>2 DEF Copy, SetArchives, TypeOK
  <2>3. CASE DescribeFails \/ Note
    <3>1. op.step \in During
      BY <2>3 DEF DescribeFails, Note, At, During
    <3>2. archives[P] \ Mine \subseteq archives'[P]
      BY <2>1, <2>3 DEF DescribeFails, Note, SetArchives, NotedArchives, TypeOK
    <3>3. a \in Mine
      BY <2>1, <3>2
    <3> QED
      BY <3>1, <3>3 DEF CooldownInv, Dated
  <2> QED
    BY <1>2, <2>2, <2>3
<1>3. CASE UNCHANGED archives
  BY <1>3
<1> QED
  BY <1>1, <1>2, <1>3
     DEF Next, BeginCreate, FindSource, FindSourceFails, CopyFails, Describe, NoteFails, RetainFails,
         Retained, Record, UpdateSettings, Delete, Restore, Undescribe, Renote, Start, Exit,
         CreateWorld, Tick, Crash, Switch, Same

\* StateSound: the time state.json keeps is that of the newest archive that is left, but
\* for a failed write or a crash, automated checkpoints lie a cooldown apart whatever is
\* deleted, switched or restarted, and a recorded error stays until a checkpoint is made
\* (checkpoints.go:175, 245).
THEOREM CheckpointStateSound == Spec => []StateSound
<1>1. CooldownInv => LastIsNewest /\ Spaced
  <2>1. Idle => op.step = "idle"
    BY DEF Idle, Resting
  <2> QED
    BY <2>1 DEF CooldownInv, Lasts, LastOf, LastIsNewest, During
<1>2. TypeOK /\ TypeOK' /\ CooldownInv /\ [Next]_vars => CooldownInv'
  BY CooldownStep
<1> QED
  BY <1>1, <1>2, CooldownInit, CheckpointsType, CheckpointErrorsKept, PTL DEF Spec, StateSound

\* RetentionKeepsNewest: no step but a deletion removes a checkpoint that was reported,
\* unless as many newer ones as the retention asks for stay (TECHNICAL-NOTES.md:156).
THEOREM CheckpointsRetained == Spec => RetentionKeepsNewest
<1>1. TypeOK /\ TypeOK' /\ CooldownInv /\ [Next]_vars => CooldownInv'
  BY CooldownStep
<1>2. ASSUME TypeOK, CooldownInv, [Next]_vars
      PROVE  [\A p \in Profiles : \A a \in archives[p] :
                 LET left == archives'[p] IN
                 a.noted /\ a \notin left /\ ~Idle =>
                     /\ state[p].retention > 0
                     /\ Cardinality(Newer(left, a)) >= state[p].retention]_vars
  BY <1>2, NewestKept
<1> QED
  BY <1>1, <1>2, CooldownInit, CheckpointsType, PTL DEF Spec, RetentionKeepsNewest
=============================================================================
