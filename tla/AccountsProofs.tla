--------------------------- MODULE AccountsProofs ---------------------------
(***************************************************************************)
(* Proofs about Accounts and LoginLimit, for any names, browsers, legacy   *)
(* databases, logins and table size, and any number of secrets and crashes:*)
(* a manager that is up always has an administrator's row, generated       *)
(* passwords stay written down though a name may have several rows, and how*)
(* far overlapping logins may exceed the limit on failed ones; and about   *)
(* WebsocketHub, for any clients, rooms, senders, messages and sizes: who  *)
(* is in a room hears each message once and in order, who left the hub is in*)
(* no room, and who lost the right to hear the log hears nothing new of it.*)
(***************************************************************************)
EXTENDS MCAccess, TLAPS, FiniteSetTheorems

Steps == {"idle", "check", "load", "old", "take", "save", "refresh", "lock", "count",
          "delete", "viewer", "admin"}
RequestRecords ==
    [step : Steps, name : Names, secret : Nat, id : Nat, row : Row \cup {None}]

Numbered(db) == DOMAIN db \subseteq 1..lastId /\ \A id \in DOMAIN db : db[id] \in Row

AccountsTyped ==
    /\ lastId \in Nat /\ issued \in Nat /\ fresh \in Nat
    /\ legacy \in LegacyCases /\ todo \subseteq DOMAIN legacy
    /\ Numbered(rows) /\ Numbered(tx)
    /\ req \in [Clients -> RequestRecords]

\* Requests are served only while the manager is up.
OnlyUp == boot # "up" => \A c \in Clients : req[c].step = "idle"

\* A row that will be written back has the role that its account has, and two
\* requests that hold one account hold one role: an id is never reused.
Holds(c) == req[c].step = "save"
RolesHeld ==
    \A c \in Clients : Holds(c) =>
        /\ req[c].id \in 1..lastId /\ req[c].row \in Row
        /\ req[c].id \in DOMAIN rows => rows[req[c].id].role = req[c].row.role
        /\ \A d \in Clients : Holds(d) /\ req[d].id = req[c].id => req[d].row.role = req[c].row.role

\* One deletion at a time, and it leaves another administrator.
Deletes(c) == req[c].step \in {"count", "delete"}
OneDeletion == \A c \in Clients : Deletes(c) => mutation = c
Spares == \A c \in Clients : req[c].step = "delete" => \E id \in Admins : id # req[c].id

AccountsInv ==
    AccountsTyped /\ OnlyUp /\ RolesHeld /\ OneDeletion /\ Spares /\ AdministratorRemains

-----------------------------------------------------------------------------
(* The database.                                                           *)

LEMMA WithRow ==
    ASSUME NEW db, NEW id \in 1..lastId, NEW row \in Row, Numbered(db)
    PROVE  /\ Numbered(With(db, id, row)) /\ DOMAIN With(db, id, row) = DOMAIN db \cup {id}
           /\ \A i \in DOMAIN db \cup {id} :
                 With(db, id, row)[i] = IF i = id THEN row ELSE db[i]
BY DEF With, Numbered

LEMMA WithoutRow ==
    ASSUME NEW db, NEW id, Numbered(db)
    PROVE  /\ Numbered(Without(db, id)) /\ DOMAIN Without(db, id) = DOMAIN db \ {id}
           /\ \A i \in DOMAIN db \ {id} : Without(db, id)[i] = db[i]
BY DEF Without, Numbered

\* Ids only grow.
LEMMA Renumbered ==
    ASSUME NEW db, Numbered(db), lastId \in Nat, lastId' = lastId + 1, db' = db
    PROVE  Numbered(db)'
BY DEF Numbered

\* The row of a client's request.
LEMMA RequestFields ==
    ASSUME AccountsTyped, NEW c \in Clients
    PROVE  /\ req[c] = [step |-> req[c].step, name |-> req[c].name, secret |-> req[c].secret,
                        id |-> req[c].id, row |-> req[c].row]
           /\ req[c].step \in Steps /\ req[c].name \in Names /\ req[c].secret \in Nat
           /\ req[c].id \in Nat /\ req[c].row \in Row \cup {None}
BY DEF AccountsTyped, RequestRecords

LEMMA FoundRow ==
    ASSUME NEW db, NEW n, NEW id \in Found(db, n)
    PROVE  /\ id \in DOMAIN db /\ db[id].name = n
           /\ \A other \in DOMAIN db : db[other].name = n => id <= other
BY DEF Found, Named

LEMMA IdleRequest == Idle \in RequestRecords /\ Idle.step = "idle"
BY AccountConstants DEF Idle, RequestRecords, Steps

LEMMA AccountsStart == AccountsInit => AccountsInv
BY IdleRequest, AccountConstants
   DEF AccountsInit, AccountsInv, AccountsTyped, Numbered, NoRows, OnlyUp, RolesHeld, Holds,
       OneDeletion, Deletes, Spares, AdministratorRemains

-----------------------------------------------------------------------------
(* The startup: no request is being served, so only what is typed and the  *)
(* last step, which brings the manager up, can matter.                     *)

LEMMA BootQuiet ==
    ASSUME AccountsInv, boot # "up", UNCHANGED req, AccountsTyped',
           boot' # "up" \/ Admins' # {}
    PROVE  AccountsInv'
<1>1. \A c \in Clients : req'[c].step = "idle"
  BY DEF AccountsInv, OnlyUp
<1> QED
  BY <1>1 DEF AccountsInv, OnlyUp, RolesHeld, Holds, OneDeletion, Deletes, Spares,
              AdministratorRemains

LEMMA LegacyRow ==
    ASSUME AccountsTyped, NEW n \in todo
    PROVE  n \in Names /\ legacy[n].role \in Roles /\ legacy[n].secret \in Nat
BY LegacyDatabases, AccountConstants DEF AccountsTyped

LEMMA MigrateKeeps ==
    ASSUME AccountsInv, NEW n \in Names, MigrateNew(n)
    PROVE  AccountsInv'
<1>1. AccountsTyped
  BY DEF AccountsInv
<1>2. /\ boot = "migrate" /\ boot' = boot /\ UNCHANGED <<req, rows, legacy, fresh>>
      /\ issued' \in Nat /\ lastId' = lastId + 1 /\ lastId' \in Nat /\ n \in todo
      /\ todo' = todo \ {n}
  BY <1>1 DEF MigrateNew, Issue, requests, AccountsTyped
<1>3. PICK row \in Row : tx' = With(tx, lastId', row)
  <2>1. [name |-> n, role |-> legacy[n].role,
         secret |-> IF legacy[n].secret = 0 THEN issued' ELSE legacy[n].secret] \in Row
    BY <1>1, <1>2, LegacyRow DEF Row
  <2> QED
    BY <2>1 DEF MigrateNew
<1>4. Numbered(rows)' /\ Numbered(tx)'
  <2>1. DOMAIN tx \subseteq 1..lastId /\ \A id \in DOMAIN tx : tx[id] \in Row
    BY <1>1 DEF AccountsTyped, Numbered
  <2>2. DOMAIN rows \subseteq 1..lastId /\ \A id \in DOMAIN rows : rows[id] \in Row
    BY <1>1 DEF AccountsTyped, Numbered
  <2> QED
    BY <1>1, <1>2, <1>3, <2>1, <2>2 DEF AccountsTyped, Numbered, With
<1>5. AccountsTyped'
  BY <1>1, <1>2, <1>4 DEF AccountsTyped
<1> QED
  BY <1>2, <1>5, BootQuiet

LEMMA FirstKeeps ==
    ASSUME AccountsInv, CreateFirstAdministrator
    PROVE  AccountsInv'
<1>1. AccountsTyped
  BY DEF AccountsInv
<1>2. boot = "create" /\ boot' # "up"
      /\ UNCHANGED <<req, issued, legacy, tx, todo, fresh>>
  BY DEF CreateFirstAdministrator, requests
<1>3. lastId' \in Nat /\ Numbered(rows)' /\ Numbered(tx)'
  <2>1. CASE UNCHANGED <<rows, lastId>>
    BY <1>1, <1>2, <2>1 DEF AccountsTyped, Numbered
  <2>2. CASE /\ lastId' = lastId + 1
             /\ rows' = With(rows, lastId',
                             [name |-> AdminName, role |-> "admin", secret |-> fresh])
    <3>1. [name |-> AdminName, role |-> "admin", secret |-> fresh] \in Row
      BY <1>1, AccountConstants DEF AccountsTyped, Row, Roles
    <3> QED
      BY <1>1, <1>2, <2>2, <3>1 DEF AccountsTyped, Numbered, With
  <2> QED
    BY <2>1, <2>2 DEF CreateFirstAdministrator
<1>4. AccountsTyped'
  BY <1>1, <1>2, <1>3 DEF AccountsTyped
<1> QED
  BY <1>2, <1>4, BootQuiet

\* A row that is given the role "admin" is a row still.
LEMMA Promoted ==
    ASSUME Numbered(rows), NEW id \in DOMAIN rows, rows' = [rows EXCEPT ![id].role = "admin"],
           UNCHANGED lastId
    PROVE  Numbered(rows)' /\ id \in Admins'
<1>1. [rows[id] EXCEPT !.role = "admin"] \in Row
      /\ [rows[id] EXCEPT !.role = "admin"].role = "admin"
  BY DEF Numbered, Row, Roles
<1> QED
  BY <1>1 DEF Numbered, Admins

LEMMA NormalizeKeeps ==
    ASSUME AccountsInv, NEW id \in DOMAIN rows, NormalizeRole(id)
    PROVE  AccountsInv'
<1>1. AccountsTyped
  BY DEF AccountsInv
<1>2. /\ boot = "ensure" /\ rows' = [rows EXCEPT ![id].role = "admin"]
      /\ UNCHANGED <<boot, req, lastId, issued, legacy, tx, todo, fresh>>
  BY DEF NormalizeRole, disk, startup, requests
<1>3. Numbered(rows)' /\ Numbered(tx)'
  BY <1>1, <1>2, Promoted DEF AccountsTyped, Numbered
<1>4. AccountsTyped'
  BY <1>1, <1>2, <1>3 DEF AccountsTyped
<1> QED
  BY <1>2, <1>4, BootQuiet

LEMMA EnsureKeeps ==
    ASSUME AccountsInv, EnsureAdministrator
    PROVE  AccountsInv'
<1>1. AccountsTyped
  BY DEF AccountsInv
<1>2. boot = "ensure" /\ UNCHANGED <<req, lastId, issued, legacy, tx, todo, fresh>>
  BY DEF EnsureAdministrator, disk, requests
<1>3. Numbered(rows)' /\ Admins' # {}
  <2>1. CASE Admins # {} /\ UNCHANGED rows
    BY <1>1, <1>2, <2>1 DEF AccountsTyped, Numbered, Admins
  <2>2. CASE \E oldest \in DOMAIN rows : rows' = [rows EXCEPT ![oldest].role = "admin"]
    BY <1>1, <1>2, <2>2, Promoted DEF AccountsTyped
  <2> QED
    BY <2>1, <2>2 DEF EnsureAdministrator
<1>4. AccountsTyped'
  BY <1>1, <1>2, <1>3 DEF AccountsTyped, Numbered
<1> QED
  BY <1>2, <1>3, <1>4, BootQuiet

LEMMA CrashKeeps ==
    ASSUME AccountsInv, Crash
    PROVE  AccountsInv'
<1>1. /\ boot' = "down" /\ req' = [c \in Clients |-> Idle] /\ tx' = NoRows /\ todo' = {}
      /\ fresh' = 0 /\ UNCHANGED <<rows, lastId, issued, legacy>>
  BY DEF Crash, disk
<1>2. \A c \in Clients : req'[c].step = "idle"
  BY <1>1, IdleRequest
<1>3. AccountsTyped'
  BY <1>1, IdleRequest DEF AccountsInv, AccountsTyped, Numbered, NoRows
<1> QED
  BY <1>1, <1>2, <1>3 DEF AccountsInv, OnlyUp, RolesHeld, Holds, OneDeletion, Deletes, Spares,
                          AdministratorRemains

LEMMA BootKeeps ==
    ASSUME AccountsInv, Booting
    PROVE  AccountsInv'
<1>1. CASE BeginBoot \/ SaveConfiguration \/ StoreInitialCredential \/ FindAccounts
  <2>1. /\ boot # "up" /\ boot' # "up" /\ UNCHANGED <<req, rows, lastId, legacy>>
        /\ issued' \in Nat /\ fresh' \in Nat /\ tx' \in {tx, rows}
        /\ todo' \in {todo, {}, DOMAIN legacy}
    BY <1>1 DEF BeginBoot, SaveConfiguration, StoreInitialCredential, FindAccounts, disk, requests,
                Issue, AccountsInv, AccountsTyped
  <2>2. AccountsTyped'
    BY <2>1 DEF AccountsInv, AccountsTyped, Numbered
  <2> QED
    BY <2>1, <2>2, BootQuiet
<1>2. CASE CommitMigration
  <2>1. /\ boot = "migrate" /\ boot' = "save" /\ rows' = tx
        /\ UNCHANGED <<req, lastId, issued, legacy, tx, todo, fresh>>
    BY <1>2 DEF CommitMigration, disk, requests
  <2>2. AccountsTyped'
    BY <2>1 DEF AccountsInv, AccountsTyped, Numbered
  <2> QED
    BY <2>1, <2>2, BootQuiet
<1>3. ASSUME NEW n \in Names, MigrateExisting(n) PROVE AccountsInv'
  <2>1. /\ boot = "migrate" /\ boot' # "up" /\ todo' = todo \ {n}
        /\ UNCHANGED <<req, rows, lastId, issued, legacy, tx, fresh>>
    BY <1>3 DEF MigrateExisting, disk, requests
  <2>2. AccountsTyped'
    BY <2>1 DEF AccountsInv, AccountsTyped, Numbered
  <2> QED
    BY <2>1, <2>2, BootQuiet
<1>4. ASSUME NEW n \in Names, TearRecord(n) PROVE AccountsInv'
  <2>1. /\ boot = "migrate" /\ boot' = "down" /\ tx' = NoRows /\ todo' = {} /\ fresh' = 0
        /\ UNCHANGED <<req, rows, lastId, issued, legacy>>
    BY <1>4 DEF TearRecord, requests
  <2>2. AccountsTyped'
    BY <2>1 DEF AccountsInv, AccountsTyped, Numbered, NoRows
  <2> QED
    BY <2>1, <2>2, BootQuiet
<1> QED
  BY <1>1, <1>2, <1>3, <1>4, MigrateKeeps, FirstKeeps, NormalizeKeeps, EnsureKeeps, CrashKeeps
     DEF Booting

-----------------------------------------------------------------------------
(* The requests.                                                           *)

\* A step of a client that changes no row, and leaves its request neither with
\* a row to write back nor in a deletion.
LEMMA ClientQuiet ==
    ASSUME AccountsInv, boot = "up", UNCHANGED <<rows, lastId, issued, legacy, todo, tx, fresh, boot>>,
           NEW c \in Clients, NEW r \in RequestRecords, req' = [req EXCEPT ![c] = r],
           r.step \notin {"save", "count", "delete"},
           UNCHANGED mutation \/ mutation = c
    PROVE  AccountsInv'
<1>1. AccountsTyped'
  BY DEF AccountsInv, AccountsTyped, Numbered
<1>2. req'[c] = r /\ \A d \in Clients : d # c => req'[d] = req[d]
  BY DEF AccountsInv, AccountsTyped
<1>3. RolesHeld'
  BY <1>2 DEF AccountsInv, RolesHeld, Holds
<1>4. OneDeletion' /\ Spares'
  BY <1>2 DEF AccountsInv, OneDeletion, Deletes, Spares, Admins
<1> QED
  BY <1>1, <1>3, <1>4 DEF AccountsInv, OnlyUp, AdministratorRemains, Admins

\* A request that goes on to another step.
LEMMA Moved ==
    ASSUME AccountsTyped, NEW c \in Clients, NEW step \in Steps
    PROVE  /\ [req[c] EXCEPT !.step = step] \in RequestRecords
           /\ [req[c] EXCEPT !.step = step].step = step
           /\ Go(c, step) <=> req' = [req EXCEPT ![c] = [req[c] EXCEPT !.step = step]]
BY DEF AccountsTyped, RequestRecords, Go

LEMMA PresentedSecrets ==
    ASSUME AccountsTyped, NEW n
    PROVE  Presented(n) \subseteq Nat
<1>1. \A id \in DOMAIN rows : rows[id].secret \in Nat
  BY DEF AccountsTyped, Numbered, Row
<1> QED
  BY <1>1 DEF Presented, Named

LEMMA RequestKeeps ==
    ASSUME AccountsInv, NEW c \in Clients, Request(c)
    PROVE  AccountsInv'
<1>1. AccountsTyped
  BY DEF AccountsInv
<1> DEFINE Quiet == /\ UNCHANGED <<rows, lastId, issued, legacy, todo, tx, fresh, boot, mutation>>
                    /\ boot = "up"
<1>2. ASSUME NEW n \in Names, NEW s \in Presented(n), LoginUser(c, n, s) PROVE AccountsInv'
  <2>1. Quiet /\ req' = [req EXCEPT ![c] = [Idle EXCEPT !.step = "check", !.name = n, !.secret = s]]
    BY <1>2 DEF LoginUser, Up, Volatile, disk, startup
  <2> DEFINE r == [Idle EXCEPT !.step = "check", !.name = n, !.secret = s]
  <2>2. r \in RequestRecords /\ r.step = "check"
    <3>1. "check" \in Steps /\ s \in Nat
      BY <1>1, PresentedSecrets DEF Steps
    <3> QED
      BY <3>1, AccountConstants DEF Idle, RequestRecords
  <2>3. req' = [req EXCEPT ![c] = r]
    BY <2>1
  <2> HIDE DEF r
  <2> QED
    BY <2>1, <2>2, <2>3, ClientQuiet
<1>3. ASSUME session[c] # None, NEW s \in Presented(session[c].name), ChangePassword(c, s)
      PROVE  AccountsInv'
  <2>1. Quiet
        /\ req' = [req EXCEPT ![c] = [Idle EXCEPT !.step = "old", !.name = session[c].name,
                                                  !.secret = s]]
    BY <1>3 DEF ChangePassword, Up, Volatile, disk, startup
  <2>2. session[c].name \in Names
    <3>1. PICK id \in Found(rows, session[c].name) : TRUE
      BY <1>3 DEF ChangePassword, Current
    <3> QED
      BY <1>1, <3>1, FoundRow DEF AccountsTyped, Numbered, Row
  <2> DEFINE r == [Idle EXCEPT !.step = "old", !.name = session[c].name, !.secret = s]
  <2>3. r \in RequestRecords /\ r.step = "old"
    <3>1. "old" \in Steps /\ s \in Nat
      BY <1>1, PresentedSecrets DEF Steps
    <3> QED
      BY <2>2, <3>1, AccountConstants DEF Idle, RequestRecords
  <2>4. req' = [req EXCEPT ![c] = r]
    BY <2>1
  <2> HIDE DEF r
  <2> QED
    BY <2>1, <2>3, <2>4, ClientQuiet
<1>4. ASSUME NEW n \in Names, NEW role \in {"admin", "viewer"}, AddUser(c, n, role)
      PROVE  AccountsInv'
  <2>1. Quiet /\ req' = [req EXCEPT ![c] = [Idle EXCEPT !.step = role, !.name = n]]
    BY <1>4 DEF AddUser, Up, Volatile, disk, startup
  <2> DEFINE r == [Idle EXCEPT !.step = role, !.name = n]
  <2>2. r \in RequestRecords /\ r.step \in {"admin", "viewer"}
    <3>1. role \in Steps /\ n \in Names
      BY <1>4 DEF Steps
    <3> QED
      BY <3>1, AccountConstants DEF Idle, RequestRecords
  <2>3. req' = [req EXCEPT ![c] = r]
    BY <2>1
  <2> HIDE DEF r
  <2> QED
    BY <2>1, <2>2, <2>3, ClientQuiet
<1>5. ASSUME NEW n \in Names, RemoveUser(c, n) PROVE AccountsInv'
  <2>1. Quiet /\ req' = [req EXCEPT ![c] = [Idle EXCEPT !.step = "lock", !.name = n]]
    BY <1>5 DEF RemoveUser, Up, Volatile, disk, startup
  <2> DEFINE r == [Idle EXCEPT !.step = "lock", !.name = n]
  <2>2. r \in RequestRecords /\ r.step = "lock"
    <3>1. "lock" \in Steps /\ n \in Names
      BY <1>5 DEF Steps
    <3> QED
      BY <3>1, AccountConstants DEF Idle, RequestRecords
  <2>3. req' = [req EXCEPT ![c] = r]
    BY <2>1
  <2> HIDE DEF r
  <2> QED
    BY <2>1, <2>2, <2>3, ClientQuiet
<1>6. CASE LogoutUser(c)
  <2>1. Quiet /\ req' = req
    BY <1>6 DEF LogoutUser, Up, Volatile, disk, startup
  <2> QED
    BY <2>1 DEF AccountsInv, AccountsTyped, Numbered, OnlyUp, RolesHeld, Holds, OneDeletion, Deletes,
                Spares, Admins, AdministratorRemains
<1> QED
  BY <1>2, <1>3, <1>4, <1>5, <1>6 DEF Request

\* The steps of a request that only read: the row it takes is the row as it is.
LEMMA ReadKeeps ==
    ASSUME AccountsInv, NEW c \in Clients,
           CheckLogin(c) \/ LoadUser(c) \/ CheckOldPassword(c) \/ RefreshSession(c)
    PROVE  AccountsInv'
<1>1. AccountsTyped
  BY DEF AccountsInv
<1>2. /\ boot = "up"
      /\ UNCHANGED <<rows, lastId, issued, legacy, todo, tx, fresh, boot, mutation>>
      /\ Done(c) \/ Go(c, "load") \/ Go(c, "take")
  BY DEF CheckLogin, LoadUser, CheckOldPassword, RefreshSession, CheckPassword, Up, Volatile, disk,
         startup
<1>3. CASE Done(c)
  BY <1>2, <1>3, IdleRequest, ClientQuiet DEF Done
<1>4. ASSUME NEW step \in {"load", "take"}, Go(c, step) PROVE AccountsInv'
  <2> DEFINE r == [req[c] EXCEPT !.step = step]
  <2>1. r \in RequestRecords /\ r.step = step /\ req' = [req EXCEPT ![c] = r]
    BY <1>1, <1>4 DEF Go, AccountsTyped, RequestRecords, Steps
  <2> HIDE DEF r
  <2> QED
    BY <1>2, <2>1, ClientQuiet
<1> QED
  BY <1>2, <1>3, <1>4

LEMMA TakeKeeps ==
    ASSUME AccountsInv, NEW c \in Clients, TakeRow(c)
    PROVE  AccountsInv'
<1>1. /\ AccountsTyped /\ boot = "up"
      /\ UNCHANGED <<rows, lastId, issued, legacy, todo, tx, fresh, boot, mutation>>
  BY DEF AccountsInv, TakeRow, Up, Volatile, disk, startup
<1>2. CASE Done(c)
  BY <1>1, <1>2, IdleRequest, ClientQuiet DEF Done
<1>3. ASSUME NEW id \in Found(rows, req[c].name),
             req' = [req EXCEPT ![c].step = "save", ![c].id = id, ![c].row = rows[id]]
      PROVE  AccountsInv'
  <2>1. id \in DOMAIN rows /\ id \in 1..lastId /\ rows[id] \in Row
    BY <1>1, <1>3, FoundRow DEF AccountsTyped, Numbered
  <2>2. /\ req'[c] = [req[c] EXCEPT !.step = "save", !.id = id, !.row = rows[id]]
        /\ \A d \in Clients : d # c => req'[d] = req[d]
    BY <1>1, <1>3 DEF AccountsTyped
  <2>3. /\ req'[c] \in RequestRecords /\ req'[c].step = "save" /\ req'[c].id = id
        /\ req'[c].row = rows[id]
    <3>1. req[c] \in RequestRecords /\ id \in Nat /\ "save" \in Steps
      BY <1>1, <2>1 DEF AccountsTyped, Steps
    <3>2. req'[c] = [req[c] EXCEPT !.step = "save", !.id = id, !.row = rows[id]]
      BY <2>2
    <3> QED
      BY <2>1, <3>1, <3>2 DEF RequestRecords
  <2>4. AccountsTyped'
    <3>1. req' \in [Clients -> RequestRecords]
      BY <1>1, <1>3, <2>2, <2>3 DEF AccountsTyped
    <3> QED
      BY <1>1, <3>1 DEF AccountsTyped, Numbered
  <2>5. RolesHeld'
    <3>1. \A d \in Clients : d # c /\ Holds(d)' =>
             /\ Holds(d) /\ req'[d] = req[d]
             /\ req[d].id = id => req[d].row.role = rows[id].role
      BY <2>1, <2>2 DEF AccountsInv, RolesHeld, Holds
    <3>2. \A d \in Clients : Holds(d) =>
             /\ req[d].id \in 1..lastId /\ req[d].row \in Row
             /\ req[d].id \in DOMAIN rows => rows[req[d].id].role = req[d].row.role
             /\ \A e \in Clients : Holds(e) /\ req[e].id = req[d].id =>
                    req[e].row.role = req[d].row.role
      BY DEF AccountsInv, RolesHeld
    <3> SUFFICES ASSUME NEW d \in Clients, Holds(d)'
                 PROVE  /\ req'[d].id \in 1..lastId /\ req'[d].row \in Row
                        /\ req'[d].id \in DOMAIN rows => rows[req'[d].id].role = req'[d].row.role
                        /\ \A e \in Clients : Holds(e)' /\ req'[e].id = req'[d].id =>
                               req'[e].row.role = req'[d].row.role
      BY <1>1 DEF RolesHeld
    <3>3. CASE d = c
      BY <2>1, <2>3, <3>1, <3>3
    <3>4. CASE d # c
      BY <2>3, <3>1, <3>2, <3>4
    <3> QED
      BY <3>3, <3>4
  <2>6. OneDeletion' /\ Spares'
    <3>1. \A d \in Clients : Deletes(d)' => d # c /\ Deletes(d) /\ req'[d] = req[d]
      BY <2>2, <2>3 DEF Deletes
    <3> QED
      BY <1>1, <3>1 DEF AccountsInv, OneDeletion, Deletes, Spares, Admins
  <2> QED
    BY <1>1, <2>4, <2>5, <2>6 DEF AccountsInv, OnlyUp, AdministratorRemains, Admins
<1> QED
  BY <1>2, <1>3 DEF TakeRow

-----------------------------------------------------------------------------
(* The requests that write.                                                *)

LEMMA SaveKeeps ==
    ASSUME AccountsInv, NEW c \in Clients, SaveRow(c)
    PROVE  AccountsInv'
<1>1. /\ AccountsTyped /\ boot = "up" /\ Holds(c)
      /\ UNCHANGED <<lastId, legacy, todo, tx, fresh, boot, mutation>>
  BY DEF AccountsInv, SaveRow, Up, Holds, disk, startup
<1>2. CASE Done(c) /\ UNCHANGED <<rows, issued>>
  BY <1>1, <1>2, IdleRequest, ClientQuiet DEF Done
<1>3. CASE /\ Issue /\ Go(c, "refresh")
           /\ \/ rows' = With(rows, req[c].id, [req[c].row EXCEPT !.secret = issued'])
              \/ UNCHANGED rows
  <2>1. issued' \in Nat
    BY <1>1, <1>3 DEF AccountsTyped, Issue
  <2>2. /\ req' = [req EXCEPT ![c] = [req[c] EXCEPT !.step = "refresh"]]
        /\ [req[c] EXCEPT !.step = "refresh"] \in RequestRecords
        /\ [req[c] EXCEPT !.step = "refresh"].step = "refresh"
    BY <1>1, <1>3, Moved DEF Steps
  <2>3. /\ req' \in [Clients -> RequestRecords] /\ req'[c].step = "refresh"
        /\ \A d \in Clients : d # c => req'[d] = req[d]
    BY <1>1, <2>2 DEF AccountsTyped
  <2>4. /\ Numbered(rows)' /\ Admins \subseteq Admins'
        /\ \A d \in Clients : Holds(d) /\ req[d].id \in DOMAIN rows' =>
               rows'[req[d].id].role = req[d].row.role
    <3>1. CASE UNCHANGED rows
      BY <1>1, <3>1 DEF AccountsInv, AccountsTyped, Numbered, Admins, RolesHeld
    <3>2. CASE rows' = With(rows, req[c].id, [req[c].row EXCEPT !.secret = issued'])
      <4> DEFINE row == [req[c].row EXCEPT !.secret = issued']
      <4>1. /\ req[c].id \in 1..lastId /\ req[c].row \in Row /\ Numbered(rows)
            /\ req[c].id \in DOMAIN rows => rows[req[c].id].role = req[c].row.role
            /\ \A d \in Clients : Holds(d) /\ req[d].id = req[c].id =>
                   req[d].row.role = req[c].row.role
            /\ \A d \in Clients : Holds(d) /\ req[d].id \in DOMAIN rows =>
                   rows[req[d].id].role = req[d].row.role
        BY <1>1 DEF AccountsInv, AccountsTyped, RolesHeld
      <4>2. row \in Row /\ row.role = req[c].row.role
        BY <2>1, <4>1 DEF Row
      <4>3. /\ Numbered(With(rows, req[c].id, row)) /\ DOMAIN rows' = DOMAIN rows \cup {req[c].id}
            /\ \A i \in DOMAIN rows' : rows'[i] = IF i = req[c].id THEN row ELSE rows[i]
        <5> HIDE DEF row
        <5>1. /\ Numbered(With(rows, req[c].id, row))
              /\ DOMAIN With(rows, req[c].id, row) = DOMAIN rows \cup {req[c].id}
              /\ \A i \in DOMAIN rows \cup {req[c].id} :
                    With(rows, req[c].id, row)[i] = IF i = req[c].id THEN row ELSE rows[i]
          BY <4>1, <4>2, WithRow
        <5>2. rows' = With(rows, req[c].id, row)
          BY <3>2 DEF row
        <5> QED
          BY <5>1, <5>2
      <4>4. Numbered(rows)'
        BY <1>1, <3>2, <4>3 DEF Numbered
      <4>5. /\ \A i \in DOMAIN rows : i \in DOMAIN rows' /\ rows'[i].role = rows[i].role
            /\ rows'[req[c].id].role = req[c].row.role
        BY <4>1, <4>2, <4>3
      <4> QED
        BY <4>1, <4>3, <4>4, <4>5 DEF Admins
    <3> QED
      BY <1>3, <3>1, <3>2
  <2>5. AccountsTyped'
    BY <1>1, <2>1, <2>3, <2>4 DEF AccountsTyped, Numbered
  <2>6. RolesHeld'
    BY <1>1, <2>3, <2>4 DEF AccountsInv, RolesHeld, Holds
  <2>7. OneDeletion' /\ Spares' /\ AdministratorRemains' /\ OnlyUp'
    BY <1>1, <2>3, <2>4 DEF AccountsInv, OneDeletion, Deletes, Spares, AdministratorRemains, OnlyUp
  <2> QED
    BY <2>5, <2>6, <2>7 DEF AccountsInv
<1> QED
  BY <1>2, <1>3 DEF SaveRow

LEMMA CreateKeeps ==
    ASSUME AccountsInv, NEW c \in Clients, CreateRow(c)
    PROVE  AccountsInv'
<1>1. /\ AccountsTyped /\ boot = "up" /\ req[c].step \in {"admin", "viewer"}
      /\ UNCHANGED <<legacy, todo, tx, fresh, boot, mutation>>
      /\ req' = [req EXCEPT ![c] = Idle]
  BY DEF AccountsInv, CreateRow, Up, Done, disk, startup
<1>2. CASE UNCHANGED <<rows, lastId, issued>>
  BY <1>1, <1>2, IdleRequest, ClientQuiet
<1>3. CASE /\ Issue /\ lastId' = lastId + 1
           /\ rows' = With(rows, lastId', [name |-> req[c].name, role |-> req[c].step,
                                           secret |-> issued'])
  <2> DEFINE row == [name |-> req[c].name, role |-> req[c].step, secret |-> issued']
  <2>1. lastId \in Nat /\ lastId' \in Nat /\ issued' \in Nat /\ row \in Row
    BY <1>1, <1>3, RequestFields DEF AccountsTyped, Issue, Row, Roles
  <2>2. /\ DOMAIN rows \subseteq 1..lastId /\ \A id \in DOMAIN rows : rows[id] \in Row
        /\ DOMAIN tx \subseteq 1..lastId /\ \A id \in DOMAIN tx : tx[id] \in Row
    BY <1>1 DEF AccountsTyped, Numbered
  <2>3. /\ DOMAIN rows' = DOMAIN rows \cup {lastId'}
        /\ \A i \in DOMAIN rows : rows'[i] = rows[i]
        /\ rows'[lastId'] = row
    BY <1>3, <2>1, <2>2 DEF With
  <2>4. Numbered(rows)' /\ Numbered(tx)'
    BY <1>1, <1>3, <2>1, <2>2, <2>3 DEF Numbered
  <2>5. /\ req' \in [Clients -> RequestRecords] /\ req'[c].step = "idle"
        /\ \A d \in Clients : d # c => req'[d] = req[d]
    BY <1>1, IdleRequest DEF AccountsTyped
  <2>6. AccountsTyped'
    BY <1>1, <2>1, <2>4, <2>5 DEF AccountsTyped
  <2>7. Admins \subseteq Admins'
    BY <2>3 DEF Admins
  <2>8. RolesHeld'
    <3>1. \A d \in Clients : Holds(d)' =>
             /\ Holds(d) /\ req'[d] = req[d] /\ req[d].id \in 1..lastId /\ req[d].row \in Row
             /\ req[d].id \in DOMAIN rows => rows[req[d].id].role = req[d].row.role
             /\ req[d].id # lastId'
      BY <1>3, <2>1, <2>5 DEF AccountsInv, RolesHeld, Holds
    <3> QED
      BY <1>3, <2>1, <2>3, <2>5, <3>1 DEF AccountsInv, RolesHeld, Holds
  <2>9. OneDeletion' /\ Spares' /\ AdministratorRemains' /\ OnlyUp'
    BY <1>1, <2>5, <2>7 DEF AccountsInv, OneDeletion, Deletes, Spares, AdministratorRemains, OnlyUp
  <2> QED
    BY <2>6, <2>8, <2>9 DEF AccountsInv
<1> QED
  BY <1>2, <1>3 DEF CreateRow

LEMMA LockKeeps ==
    ASSUME AccountsInv, NEW c \in Clients, LockMutation(c)
    PROVE  AccountsInv'
<1>1. /\ AccountsTyped /\ boot = "up" /\ mutation = None /\ mutation' = c /\ Go(c, "count")
      /\ UNCHANGED <<rows, lastId, issued, legacy, todo, tx, fresh, boot>>
  BY DEF AccountsInv, LockMutation, Up, Volatile, disk, startup
<1>2. /\ req' = [req EXCEPT ![c] = [req[c] EXCEPT !.step = "count"]]
      /\ [req[c] EXCEPT !.step = "count"] \in RequestRecords
      /\ [req[c] EXCEPT !.step = "count"].step = "count"
  BY <1>1, Moved DEF Steps
<1>3. /\ req' \in [Clients -> RequestRecords] /\ req'[c].step = "count"
      /\ \A d \in Clients : d # c => req'[d] = req[d]
  BY <1>1, <1>2 DEF AccountsTyped
<1>4. \A d \in Clients : ~Deletes(d)
  BY <1>1, AccountConstants DEF AccountsInv, OneDeletion
<1>5. OneDeletion' /\ Spares'
  BY <1>1, <1>3, <1>4 DEF OneDeletion, Deletes, Spares
<1>6. AccountsTyped' /\ RolesHeld'
  BY <1>1, <1>3 DEF AccountsInv, AccountsTyped, Numbered, RolesHeld, Holds
<1> QED
  BY <1>1, <1>5, <1>6 DEF AccountsInv, OnlyUp, AdministratorRemains, Admins

\* Whoever is not the last administrator leaves one behind.
LEMMA NotTheLast ==
    ASSUME NEW id, Admins # {}, ~(id \in Admins /\ Cardinality(Admins) <= 1)
    PROVE  \E other \in Admins : other # id
<1> SUFFICES ASSUME \A other \in Admins : other = id PROVE FALSE
  OBVIOUS
<1>1. Admins = {id}
  OBVIOUS
<1>2. Cardinality({id}) = 1
  BY FS_Singleton
<1> QED
  BY <1>1, <1>2

LEMMA CountKeeps ==
    ASSUME AccountsInv, NEW c \in Clients, CountAdministrators(c)
    PROVE  AccountsInv'
<1>1. /\ AccountsTyped /\ boot = "up" /\ Deletes(c) /\ mutation = c
      /\ UNCHANGED <<rows, lastId, issued, legacy, todo, tx, fresh, boot>>
  BY DEF AccountsInv, CountAdministrators, Up, Volatile, disk, startup, OneDeletion, Deletes
<1>2. CASE Done(c)
  BY <1>1, <1>2, IdleRequest, ClientQuiet DEF Done
<1>3. ASSUME NEW id \in Found(rows, req[c].name),
             ~(rows[id].role = "admin" /\ Cardinality(Admins) <= 1),
             req' = [req EXCEPT ![c].step = "delete", ![c].id = id], UNCHANGED mutation
      PROVE  AccountsInv'
  <2>1. id \in DOMAIN rows /\ id \in Nat
    BY <1>1, <1>3, FoundRow DEF AccountsTyped, Numbered
  <2>2. \E other \in Admins : other # id
    BY <1>1, <1>3, <2>1, NotTheLast DEF AccountsInv, AdministratorRemains, Admins
  <2>3. /\ req'[c] = [req[c] EXCEPT !.step = "delete", !.id = id]
        /\ \A d \in Clients : d # c => req'[d] = req[d]
    BY <1>1, <1>3 DEF AccountsTyped
  <2>4. req'[c] \in RequestRecords /\ req'[c].step = "delete" /\ req'[c].id = id
    BY <1>1, <2>1, <2>3, RequestFields DEF RequestRecords, Steps
  <2>5. AccountsTyped'
    BY <1>1, <1>3, <2>3, <2>4 DEF AccountsTyped, Numbered
  <2>6. RolesHeld'
    <3>1. \A d \in Clients : Holds(d)' => Holds(d) /\ req'[d] = req[d]
      BY <2>3, <2>4 DEF Holds
    <3> QED
      BY <1>1, <3>1 DEF AccountsInv, RolesHeld
  <2>7. OneDeletion' /\ Spares'
    BY <1>1, <1>3, <2>2, <2>3, <2>4 DEF AccountsInv, OneDeletion, Deletes, Spares, Admins
  <2> QED
    BY <1>1, <2>5, <2>6, <2>7 DEF AccountsInv, OnlyUp, AdministratorRemains, Admins
<1> QED
  BY <1>2, <1>3 DEF CountAdministrators

LEMMA DeleteKeeps ==
    ASSUME AccountsInv, NEW c \in Clients, DeleteRow(c)
    PROVE  AccountsInv'
<1>1. /\ AccountsTyped /\ boot = "up" /\ req[c].step = "delete" /\ mutation = c /\ mutation' = None
      /\ UNCHANGED <<lastId, issued, legacy, todo, tx, fresh, boot>>
      /\ req' = [req EXCEPT ![c] = Idle]
  BY DEF AccountsInv, DeleteRow, Up, Done, disk, startup, OneDeletion, Deletes
<1>2. CASE UNCHANGED rows
  BY <1>1, <1>2, IdleRequest, ClientQuiet
<1>3. CASE rows' = Without(rows, req[c].id)
  <2>1. /\ Numbered(Without(rows, req[c].id)) /\ DOMAIN rows' = DOMAIN rows \ {req[c].id}
        /\ \A i \in DOMAIN rows' : rows'[i] = rows[i]
    BY <1>1, <1>3, WithoutRow DEF AccountsTyped
  <2>2. Numbered(rows)'
    BY <1>1, <1>3, <2>1 DEF Numbered
  <2>3. /\ req' \in [Clients -> RequestRecords] /\ req'[c].step = "idle"
        /\ \A d \in Clients : d # c => req'[d] = req[d]
    BY <1>1, IdleRequest DEF AccountsTyped
  <2>4. AccountsTyped'
    BY <1>1, <2>2, <2>3 DEF AccountsTyped, Numbered
  <2>5. RolesHeld'
    BY <1>1, <2>1, <2>3 DEF AccountsInv, RolesHeld, Holds
  <2>6. \A d \in Clients : ~Deletes(d)'
    BY <1>1, <2>3 DEF AccountsInv, OneDeletion, Deletes
  <2>7. Admins' # {}
    BY <1>1, <2>1 DEF AccountsInv, Spares, Admins
  <2> QED
    BY <1>1, <2>4, <2>5, <2>6, <2>7
       DEF AccountsInv, OneDeletion, Deletes, Spares, AdministratorRemains, OnlyUp
<1> QED
  BY <1>2, <1>3 DEF DeleteRow

LEMMA AccountsKeep ==
    ASSUME AccountsInv, [AccountsNext]_accountVars
    PROVE  AccountsInv'
<1>1. ASSUME NEW c \in Clients, Serve(c) PROVE AccountsInv'
  BY <1>1, ReadKeeps, TakeKeeps, SaveKeeps, CreateKeeps, LockKeeps, CountKeeps, DeleteKeeps
     DEF Serve
<1>2. CASE UNCHANGED accountVars
  BY <1>2 DEF accountVars, disk, startup, requests, AccountsInv, AccountsTyped, Numbered, OnlyUp,
              RolesHeld, Holds, OneDeletion, Deletes, Spares, Admins, AdministratorRemains
<1> QED
  BY <1>1, <1>2, BootKeeps, RequestKeeps DEF AccountsNext

-----------------------------------------------------------------------------
\* A manager that is up always has an administrator's row, whatever is migrated, promoted, written
\* back or deleted at once, and however many rows share a name (auth.go:287).
THEOREM AdministratorAlways == AccountsSpec => []AdministratorRemains
<1>1. AccountsInv => AdministratorRemains
  BY DEF AccountsInv
<1> QED
  BY <1>1, AccountsStart, AccountsKeep, PTL DEF AccountsSpec
-----------------------------------------------------------------------------
(* Passwords that nobody chose stay written down.                          *)

\* Secrets are issued in order; those of the legacy database come first.
Secrets ==
    /\ issued >= Legacies /\ generated \subseteq (Legacies + 1)..issued
    /\ \A id \in DOMAIN rows : rows[id].secret <= issued
    /\ \A id \in DOMAIN tx : tx[id].secret <= issued

\* All accounts are what the migration makes of the legacy database.
Legacied(db) == \A id \in DOMAIN db :
    /\ db[id].name \in DOMAIN legacy /\ db[id].role = legacy[db[id].name].role
    /\ IF legacy[db[id].name].secret = 0 THEN <<db[id].name, db[id].secret>> \in credentials
                                         ELSE db[id].secret = legacy[db[id].name].secret

\* Nothing else happens before the legacy database has been migrated.
MigratedFirst ==
    /\ boot \in {"down", "migrate", "save", "setup", "create", "ensure", "up", "conflict"}
    /\ boot = "conflict" => torn
    /\ boot \in {"migrate", "save"} => migrating
    /\ boot \in {"setup", "create", "ensure", "up"} => ~migrating
    /\ migrating => Legacied(rows)
    /\ boot = "migrate" => Legacied(tx)
    /\ boot = "create" => DOMAIN rows = {} /\ initial = fresh /\ fresh \in generated

\* Rows whose password is only in the file with the initial one.
Unwritten == {id \in DOMAIN rows : /\ rows[id].secret \in generated
                                   /\ <<rows[id].name, rows[id].secret>> \notin credentials}

\* A row that will be written back has the name its account has.
NamesHeld ==
    \A c \in Clients : Holds(c) =>
        /\ req[c].row.name = req[c].name
        /\ req[c].id \in DOMAIN rows => rows[req[c].id].name = req[c].row.name
        /\ \A d \in Clients : Holds(d) /\ req[d].id = req[c].id => req[d].row.name = req[c].row.name

\* The file is there until that password has been replaced.  Whatever rows are added
\* under the name, the first administrator's is the oldest and the one that is found.
InitialKept ==
    /\ \A id \in Unwritten :
          /\ rows[id].name = AdminName /\ rows[id].secret = initial
          /\ \A other \in DOMAIN rows : id <= other
          /\ \A c \in Clients : Holds(c) => id <= req[c].id
    /\ \A c \in Clients : req[c].name = AdminName =>
          /\ Holds(c) => Unwritten \subseteq {req[c].id}
          /\ req[c].step = "refresh" => Unwritten = {}

CredentialsInv ==
    Secrets /\ MigratedFirst /\ NamesHeld /\ InitialKept

\* No secret of the legacy database, and none that is issued later, is a generated one.
LEMMA NotGenerated ==
    ASSUME CredentialsInv, issued \in Nat, NEW s \in Nat, s <= Legacies \/ s > issued
    PROVE  s \notin generated
<1>1. Legacies \in Nat /\ generated \subseteq (Legacies + 1)..issued
  BY AccountConstants DEF CredentialsInv, Secrets
<1>2. \A g \in (Legacies + 1)..issued : g > Legacies /\ g <= issued
  BY <1>1
<1> QED
  BY <1>1, <1>2

LEMMA CredentialsStart == AccountsInit => CredentialsInv
<1> SUFFICES ASSUME AccountsInit PROVE CredentialsInv
  OBVIOUS
<1>1. /\ DOMAIN rows = {} /\ DOMAIN tx = {} /\ generated = {} /\ issued = Legacies
      /\ boot = "down" /\ \A c \in Clients : req[c].step = "idle"
      /\ Legacies \in Nat
  BY AccountConstants DEF AccountsInit, NoRows, Idle
<1>2. Secrets /\ MigratedFirst
  BY <1>1 DEF Secrets, MigratedFirst, Legacied
<1>3. NamesHeld /\ InitialKept
  BY <1>1 DEF NamesHeld, Holds, InitialKept, Unwritten
<1> QED
  BY <1>2, <1>3 DEF CredentialsInv

\* While the manager starts no request holds a row.
LEMMA NobodyAsks ==
    ASSUME AccountsInv, boot # "up", UNCHANGED req \/ req' = [c \in Clients |-> Idle]
    PROVE  NamesHeld' /\ \A c \in Clients : ~Holds(c)' /\ req'[c].step # "refresh"
<1>1. \A c \in Clients : req'[c].step = "idle"
  BY IdleRequest DEF AccountsInv, OnlyUp
<1> QED
  BY <1>1 DEF NamesHeld, Holds

\* Of the legacy accounts that the migration has made every generated password is recorded.
LEMMA LegaciedWritten ==
    ASSUME AccountsTyped, CredentialsInv, Legacied(tx), NEW id \in DOMAIN tx,
           tx[id].secret \in generated
    PROVE  <<tx[id].name, tx[id].secret>> \in credentials
<1>1. /\ tx[id].name \in DOMAIN legacy /\ legacy[tx[id].name].secret \in 0..Legacies
      /\ Legacies \in Nat
  BY LegacyDatabases, AccountConstants DEF AccountsTyped, Legacied
<1>2. CASE legacy[tx[id].name].secret = 0
  BY <1>2 DEF Legacied
<1>3. CASE legacy[tx[id].name].secret # 0
  <2>1. tx[id].secret \in 0..Legacies /\ issued \in Nat
    BY <1>1, <1>3 DEF Legacied, AccountsTyped
  <2>2. tx[id].secret \notin generated
    BY <1>1, <2>1, NotGenerated
  <2> QED
    BY <2>2
<1> QED
  BY <1>2, <1>3

LEMMA MigrateNewWrites ==
    ASSUME AccountsInv, CredentialsInv, NEW n \in Names, MigrateNew(n) PROVE CredentialsInv'
<1>1. /\ AccountsTyped /\ boot = "migrate" /\ UNCHANGED <<boot, req, rows, legacy, fresh, migrating, torn, initial>>
      /\ n \in todo /\ n \in DOMAIN legacy
      /\ lastId \in Nat /\ lastId' = lastId + 1 /\ issued \in Nat /\ Legacies \in Nat
      /\ legacy[n].secret \in 0..Legacies
  BY LegacyDatabases, AccountConstants
     DEF AccountsInv, AccountsTyped, MigrateNew, requests
<1> DEFINE secret == IF legacy[n].secret = 0 THEN issued' ELSE legacy[n].secret
           row == [name |-> n, role |-> legacy[n].role, secret |-> secret]
<1>2. /\ tx' = With(tx, lastId', row)
      /\ row.name = n /\ row.role = legacy[n].role /\ row.secret = secret
  BY DEF MigrateNew
<1>3. \/ /\ legacy[n].secret = 0 /\ issued' = issued + 1
         /\ generated' = generated \cup {issued'} /\ credentials' = credentials \cup {<<n, issued'>>}
         /\ secret = issued'
      \/ /\ legacy[n].secret # 0 /\ UNCHANGED <<issued, generated, credentials>>
         /\ secret = legacy[n].secret
  BY DEF MigrateNew, Issue
<1>4. secret \in Nat /\ issued' \in Nat /\ issued' >= issued /\ secret <= issued'
  BY <1>1, <1>3 DEF CredentialsInv, Secrets
<1> HIDE DEF secret, row
<1>5. /\ DOMAIN tx' = DOMAIN tx \cup {lastId'} /\ tx'[lastId'] = row
      /\ \A id \in DOMAIN tx : id # lastId' /\ tx'[id] = tx[id]
  BY <1>1, <1>2 DEF AccountsTyped, Numbered, With
<1>6. /\ \A id \in DOMAIN rows : rows[id].secret <= issued /\ rows[id].secret \in Nat
      /\ \A id \in DOMAIN tx : tx[id].secret <= issued /\ tx[id].secret \in Nat
  BY <1>1 DEF CredentialsInv, Secrets, AccountsTyped, Numbered, Row
<1>7. Secrets'
  <2>1. generated' \subseteq (Legacies + 1)..issued' /\ issued' >= Legacies
    <3>1. generated \subseteq (Legacies + 1)..issued /\ issued >= Legacies
      BY DEF CredentialsInv, Secrets
    <3>2. \A k : k \in (Legacies + 1)..issued => k \in (Legacies + 1)..issued'
      BY <1>1, <1>4
    <3>3. issued' = issued + 1 => issued' \in (Legacies + 1)..issued'
      BY <1>1, <3>1
    <3>4. issued' >= Legacies
      BY <1>1, <1>4, <3>1
    <3> QED
      BY <1>3, <3>1, <3>2, <3>3, <3>4
  <2>2. \A id \in DOMAIN tx' : tx'[id].secret <= issued'
    BY <1>1, <1>2, <1>4, <1>5, <1>6
  <2>3. \A id \in DOMAIN rows' : rows'[id].secret <= issued'
    BY <1>1, <1>4, <1>6
  <2> QED
    BY <2>1, <2>2, <2>3 DEF Secrets
<1>8. credentials \subseteq credentials'
  BY <1>3
<1>9. MigratedFirst'
  <2>1. Legacied(rows)' /\ Legacied(tx)
    BY <1>1, <1>8 DEF CredentialsInv, MigratedFirst, Legacied
  <2>2. IF legacy[n].secret = 0 THEN <<n, secret>> \in credentials' ELSE secret = legacy[n].secret
    BY <1>3
  <2>3. Legacied(tx)'
    <3> SUFFICES ASSUME NEW id \in DOMAIN tx'
                 PROVE  /\ tx'[id].name \in DOMAIN legacy
                        /\ tx'[id].role = legacy[tx'[id].name].role
                        /\ IF legacy[tx'[id].name].secret = 0
                           THEN <<tx'[id].name, tx'[id].secret>> \in credentials'
                           ELSE tx'[id].secret = legacy[tx'[id].name].secret
      BY <1>1 DEF Legacied
    <3>1. CASE id = lastId'
      BY <1>1, <1>2, <1>5, <2>2, <3>1
    <3>2. CASE id \in DOMAIN tx
      BY <1>5, <1>8, <2>1, <3>2 DEF Legacied
    <3> QED
      BY <1>5, <3>1, <3>2
  <2> QED
    BY <1>1, <2>1, <2>3 DEF CredentialsInv, MigratedFirst
<1>10. Unwritten' \subseteq Unwritten
  <2>1. \A id \in DOMAIN rows : rows[id].secret \in generated' => rows[id].secret \in generated
    BY <1>1, <1>3, <1>6
  <2> QED
    BY <1>1, <1>8, <2>1 DEF Unwritten
<1>11. NamesHeld' /\ InitialKept'
  <2>1. NamesHeld' /\ \A c \in Clients : ~Holds(c)' /\ req'[c].step # "refresh"
    BY <1>1, NobodyAsks
  <2> QED
    BY <1>1, <1>10, <2>1 DEF CredentialsInv, InitialKept
<1> QED
  BY <1>7, <1>9, <1>11 DEF CredentialsInv

\* The startup around the migration; a repeated one finds its own accounts.
LEMMA StartupWrites ==
    ASSUME AccountsInv, CredentialsInv,
           \/ BeginBoot \/ CommitMigration \/ SaveConfiguration \/ FindAccounts \/ Crash
           \/ \E n \in Names : MigrateExisting(n) \/ TearRecord(n)
    PROVE  CredentialsInv'
<1>1. /\ AccountsTyped /\ UNCHANGED <<issued, legacy, credentials, initial, generated>>
      /\ UNCHANGED req \/ req' = [c \in Clients |-> Idle]
  BY DEF AccountsInv, BeginBoot, CommitMigration, SaveConfiguration, FindAccounts, Crash,
         MigrateExisting, TearRecord, disk, requests
<1>2. /\ rows' = rows \/ (rows' = tx /\ boot = "migrate")
      /\ tx' = tx \/ tx' = rows \/ DOMAIN tx' = {}
  BY DEF BeginBoot, CommitMigration, SaveConfiguration, FindAccounts, Crash, MigrateExisting,
         TearRecord, disk, NoRows
<1>3. Secrets'
  BY <1>1, <1>2 DEF CredentialsInv, Secrets
<1>4. Unwritten' \subseteq Unwritten /\ (Unwritten' # {} => rows' = rows)
  <2>1. CASE rows' = rows
    BY <1>1, <2>1 DEF Unwritten
  <2>2. CASE rows' = tx /\ boot = "migrate"
    BY <1>1, <2>2, LegaciedWritten DEF Unwritten, CredentialsInv, MigratedFirst
  <2> QED
    BY <1>2, <2>1, <2>2
<1>5. MigratedFirst'
  <2>1. CASE BeginBoot
    BY <2>1 DEF BeginBoot, disk, CredentialsInv, MigratedFirst, Legacied
  <2>2. CASE CommitMigration
    BY <2>2 DEF CommitMigration, disk, CredentialsInv, MigratedFirst, Legacied
  <2>3. CASE SaveConfiguration \/ FindAccounts \/ Crash
    BY <2>3 DEF SaveConfiguration, FindAccounts, Crash, disk, CredentialsInv, MigratedFirst, Legacied
  <2>4. ASSUME NEW n \in Names, MigrateExisting(n) PROVE MigratedFirst'
    <3>1. /\ boot = "migrate" /\ UNCHANGED <<rows, tx, fresh, migrating, torn>>
          /\ boot' = IF Migrated(n) THEN "migrate" ELSE "conflict"
          /\ Found(tx, n) # {}
      BY <2>4 DEF MigrateExisting, disk
    <3>2. Migrated(n) \/ torn
      <4>1. PICK id \in Found(tx, n) : TRUE
        BY <3>1
      <4>2. id \in DOMAIN tx /\ tx[id].name = n /\ Legacied(tx)
        BY <3>1, <4>1, FoundRow DEF CredentialsInv, MigratedFirst
      <4> QED
        BY <4>1, <4>2 DEF Legacied, Migrated
    <3> QED
      BY <1>1, <3>1, <3>2 DEF CredentialsInv, MigratedFirst, Legacied
  <2>5. ASSUME NEW n \in Names, TearRecord(n) PROVE MigratedFirst'
    BY <2>5 DEF TearRecord, CredentialsInv, MigratedFirst, Legacied
  <2> QED
    BY <2>1, <2>2, <2>3, <2>4, <2>5
<1>6. NamesHeld' /\ InitialKept'
  <2>1. NamesHeld' /\ \A c \in Clients : ~Holds(c)' /\ req'[c].step # "refresh"
    <3>1. CASE boot # "up"
      BY <1>1, <3>1, NobodyAsks
    <3>2. CASE boot = "up"
      <4>1. Crash
        BY <3>2 DEF BeginBoot, CommitMigration, SaveConfiguration, FindAccounts, MigrateExisting,
               TearRecord
      <4>2. \A c \in Clients : req'[c].step = "idle"
        BY <4>1, IdleRequest DEF Crash
      <4> QED
        BY <4>2 DEF NamesHeld, Holds
    <3> QED
      BY <3>1, <3>2
  <2>2. \A id \in Unwritten' :
           /\ rows'[id].name = AdminName /\ rows'[id].secret = initial
           /\ \A other \in DOMAIN rows' : id <= other
    BY <1>4 DEF CredentialsInv, InitialKept
  <2> QED
    BY <1>1, <2>1, <2>2 DEF InitialKept
<1> QED
  BY <1>3, <1>5, <1>6 DEF CredentialsInv

\* The first administrator: the password is in the file before the account exists.
LEMMA FirstWritten ==
    ASSUME AccountsInv, CredentialsInv, StoreInitialCredential \/ CreateFirstAdministrator
    PROVE  CredentialsInv'
<1>1. /\ AccountsTyped /\ UNCHANGED <<legacy, credentials, migrating, torn, tx, req>> /\ boot # "up"
      /\ boot \in {"setup", "create"} /\ ~migrating /\ DOMAIN rows = {}
  BY DEF AccountsInv, StoreInitialCredential, CreateFirstAdministrator, requests,
         CredentialsInv, MigratedFirst
<1>2. NamesHeld' /\ \A c \in Clients : ~Holds(c)' /\ req'[c].step # "refresh"
  BY <1>1, NobodyAsks
<1>3. CASE StoreInitialCredential
  <2>1. /\ UNCHANGED rows /\ issued' = issued + 1 /\ generated' = generated \cup {issued'}
        /\ initial' = issued' /\ fresh' = issued' /\ boot' = "create"
    BY <1>3 DEF StoreInitialCredential, Issue
  <2>2. issued \in Nat /\ Legacies \in Nat /\ \A id \in DOMAIN tx : tx[id].secret \in Nat
    BY <1>1, AccountConstants DEF AccountsTyped, Numbered, Row
  <2>3. Secrets'
    BY <1>1, <2>1, <2>2 DEF CredentialsInv, Secrets
  <2>4. MigratedFirst'
    BY <1>1, <2>1 DEF CredentialsInv, MigratedFirst
  <2>5. InitialKept'
    BY <1>1, <1>2, <2>1 DEF InitialKept, Unwritten
  <2> QED
    BY <1>2, <2>3, <2>4, <2>5 DEF CredentialsInv
<1>4. CASE CreateFirstAdministrator
  <2>1. /\ UNCHANGED <<issued, generated, fresh>> /\ boot = "create" /\ initial = fresh
    BY <1>4 DEF CreateFirstAdministrator, CredentialsInv, MigratedFirst
  <2>2. CASE UNCHANGED rows /\ boot' = "down"
    <3>1. Secrets' /\ MigratedFirst'
      BY <1>1, <2>1, <2>2 DEF CredentialsInv, Secrets, MigratedFirst
    <3>2. InitialKept'
      BY <1>1, <1>2, <2>1, <2>2 DEF InitialKept, Unwritten
    <3> QED
      BY <1>2, <3>1, <3>2 DEF CredentialsInv
  <2>3. CASE /\ lastId' = lastId + 1
             /\ rows' = With(rows, lastId', [name |-> AdminName, role |-> "admin", secret |-> fresh])
             /\ boot' = "ensure" /\ UNCHANGED initial
    <3>1. /\ DOMAIN rows' = {lastId'}
          /\ rows'[lastId'].name = AdminName /\ rows'[lastId'].secret = fresh
      BY <1>1, <2>3 DEF With
    <3>2. fresh \in Nat /\ issued \in Nat /\ Legacies \in Nat /\ fresh <= issued
      BY <1>1, <2>1, AccountConstants
         DEF AccountsTyped, CredentialsInv, MigratedFirst, Secrets
    <3>3. Secrets'
      BY <1>1, <2>1, <3>1, <3>2 DEF CredentialsInv, Secrets
    <3>4. MigratedFirst'
      BY <1>1, <2>1, <2>3, <3>1 DEF CredentialsInv, MigratedFirst
    <3>5. InitialKept'
      <4>1. lastId' \in Nat
        BY <1>1, <2>3 DEF AccountsTyped
      <4> QED
        BY <1>1, <1>2, <2>1, <2>3, <3>1, <4>1 DEF InitialKept, Unwritten
    <3> QED
      BY <1>2, <3>3, <3>4, <3>5 DEF CredentialsInv
  <2> QED
    BY <1>4, <2>2, <2>3 DEF CreateFirstAdministrator
<1> QED
  BY <1>3, <1>4

\* The role of a row says nothing about its secret.
LEMMA RolesWrite ==
    ASSUME AccountsInv, CredentialsInv,
           EnsureAdministrator \/ \E id \in DOMAIN rows : NormalizeRole(id)
    PROVE  CredentialsInv'
<1>1. /\ AccountsTyped /\ boot = "ensure" /\ boot' \in {"ensure", "up"}
      /\ UNCHANGED <<issued, legacy, credentials, migrating, torn, initial, generated, tx, fresh, req>>
  BY DEF AccountsInv, EnsureAdministrator, NormalizeRole, disk, startup, requests
<1>2. UNCHANGED rows \/ \E id \in DOMAIN rows : rows' = [rows EXCEPT ![id].role = "admin"]
  BY DEF EnsureAdministrator, NormalizeRole
<1>3. /\ DOMAIN rows' = DOMAIN rows
      /\ \A id \in DOMAIN rows : rows'[id].name = rows[id].name /\ rows'[id].secret = rows[id].secret
  <2>1. ASSUME NEW id \in DOMAIN rows, rows' = [rows EXCEPT ![id].role = "admin"]
        PROVE  <1>3!1 /\ <1>3!2
    <3>1. rows[id] \in Row
      BY <1>1 DEF AccountsTyped, Numbered
    <3>2. [rows[id] EXCEPT !.role = "admin"].name = rows[id].name
          /\ [rows[id] EXCEPT !.role = "admin"].secret = rows[id].secret
      BY <3>1 DEF Row
    <3> QED
      BY <2>1, <3>2
  <2> QED
    BY <1>2, <2>1
<1>4. NamesHeld' /\ \A c \in Clients : ~Holds(c)' /\ req'[c].step # "refresh"
  BY <1>1, NobodyAsks
<1>5. Secrets' /\ MigratedFirst'
  BY <1>1, <1>3 DEF CredentialsInv, Secrets, MigratedFirst
<1>6. InitialKept'
  BY <1>1, <1>3, <1>4 DEF CredentialsInv, InitialKept, Unwritten
<1> QED
  BY <1>4, <1>5, <1>6 DEF CredentialsInv

-----------------------------------------------------------------------------
(* The requests.  Most of them write nothing, and what a client does when  *)
(* it takes no row and owes no refresh is nobody's concern.                *)

Served == UNCHANGED <<tx, legacy, migrating, credentials, torn, generated, fresh, boot>> /\ boot = "up"

LEMMA ServedKeeps ==
    ASSUME AccountsTyped, CredentialsInv, Served, issued' \in Nat, issued' >= issued,
           \A id \in DOMAIN rows' : rows'[id].secret <= issued', NamesHeld', InitialKept'
    PROVE  CredentialsInv'
<1>1. Secrets'
  <2>1. Legacies \in Nat /\ issued \in Nat /\ \A id \in DOMAIN tx : tx[id].secret \in Nat
    BY AccountConstants DEF AccountsTyped, Numbered, Row
  <2>2. /\ generated \subseteq (Legacies + 1)..issued /\ issued >= Legacies
        /\ \A id \in DOMAIN tx : tx[id].secret <= issued
    BY DEF CredentialsInv, Secrets
  <2>3. generated' \subseteq (Legacies + 1)..issued'
    BY <2>1, <2>2 DEF Served
  <2> QED
    BY <2>1, <2>2, <2>3 DEF Served, Secrets
<1>2. MigratedFirst'
  BY DEF Served, CredentialsInv, MigratedFirst
<1> QED
  BY <1>1, <1>2 DEF CredentialsInv

\* The row of the first administrator stays the oldest: ids grow, and a row that is
\* brought back was taken while that row was there.
LEMMA OldestStays ==
    ASSUME AccountsInv, CredentialsInv, UNCHANGED initial, Unwritten' \subseteq Unwritten,
           \A i \in Unwritten' : rows'[i] = rows[i],
           \A id \in DOMAIN rows' : \/ id \in DOMAIN rows \/ id = lastId + 1
                                   \/ \E d \in Clients : Holds(d) /\ id = req[d].id,
           \A d \in Clients : Holds(d)' =>
               req'[d].id \in DOMAIN rows \/ (Holds(d) /\ req'[d].id = req[d].id)
    PROVE  \A id \in Unwritten' :
               /\ rows'[id].name = AdminName /\ rows'[id].secret = initial'
               /\ \A other \in DOMAIN rows' : id <= other
               /\ \A d \in Clients : Holds(d)' => id <= req'[d].id
<1> SUFFICES ASSUME NEW i \in Unwritten'
             PROVE  /\ rows'[i].name = AdminName /\ rows'[i].secret = initial'
                    /\ \A other \in DOMAIN rows' : i <= other
                    /\ \A d \in Clients : Holds(d)' => i <= req'[d].id
  OBVIOUS
<1>1. /\ rows[i].name = AdminName /\ rows[i].secret = initial
      /\ \A other \in DOMAIN rows : i <= other
      /\ \A d \in Clients : Holds(d) => i <= req[d].id
  BY DEF CredentialsInv, InitialKept
<1>2. i <= lastId + 1
  <2>1. i \in DOMAIN rows /\ DOMAIN rows \subseteq 1..lastId /\ lastId \in Nat
    BY DEF Unwritten, AccountsInv, AccountsTyped, Numbered
  <2> QED
    BY <2>1
<1> QED
  BY <1>1, <1>2

LEMMA AskedKeeps ==
    ASSUME AccountsTyped, CredentialsInv, Served, UNCHANGED <<rows, issued>>, NEW c \in Clients,
           \A d \in Clients : d # c => req'[d] = req[d], req'[c].step \notin {"save", "refresh"},
           initial' = initial \/ Unwritten = {}
    PROVE  CredentialsInv'
<1>1. Unwritten' = Unwritten
  BY DEF Served, Unwritten
<1>2. issued' \in Nat /\ issued' >= issued
      /\ \A id \in DOMAIN rows' : rows'[id].secret <= issued'
  BY DEF AccountsTyped, CredentialsInv, Secrets
<1>3. NamesHeld'
  BY DEF CredentialsInv, NamesHeld, Holds
<1>4. InitialKept'
  BY <1>1 DEF CredentialsInv, InitialKept, Holds
<1> QED
  BY <1>2, <1>3, <1>4, ServedKeeps

LEMMA RequestWrites ==
    ASSUME AccountsInv, CredentialsInv, NEW c \in Clients,
           \/ Request(c) \/ CheckLogin(c) \/ LoadUser(c) \/ CheckOldPassword(c)
           \/ LockMutation(c) \/ CountAdministrators(c) \/ RefreshSession(c)
    PROVE  CredentialsInv'
<1>1. AccountsTyped /\ Served /\ UNCHANGED <<rows, issued>>
  BY DEF AccountsInv, Request, LoginUser, ChangePassword, AddUser, RemoveUser, LogoutUser, CheckLogin,
         LoadUser, CheckOldPassword, LockMutation, CountAdministrators, RefreshSession, Up, Volatile,
         disk, startup, Served
<1>2. /\ \A d \in Clients : d # c => req'[d] = req[d]
      /\ req'[c].step \notin {"save", "refresh"}
  <2>1. ASSUME NEW r, req' = [req EXCEPT ![c] = r], r.step \notin {"save", "refresh"} PROVE <1>2
    BY <1>1, <2>1 DEF AccountsTyped
  <2>2. \A step, n : [Idle EXCEPT !.step = step, !.name = n].step = step
    BY DEF Idle
  <2>3. CASE Request(c)
    <3>1. CASE UNCHANGED req /\ Up(c, "idle")
      BY <3>1 DEF Up
    <3>2. ASSUME NEW n, NEW s, LoginUser(c, n, s) PROVE <1>2
      <4> DEFINE r == [Idle EXCEPT !.step = "check", !.name = n, !.secret = s]
      <4>1. req' = [req EXCEPT ![c] = r] /\ r.step = "check"
        BY <3>2 DEF LoginUser, Idle
      <4> HIDE DEF r
      <4> QED
        BY <2>1, <4>1
    <3>3. ASSUME NEW s, ChangePassword(c, s) PROVE <1>2
      <4> DEFINE r == [Idle EXCEPT !.step = "old", !.name = session[c].name, !.secret = s]
      <4>1. req' = [req EXCEPT ![c] = r] /\ r.step = "old"
        BY <3>3 DEF ChangePassword, Idle
      <4> HIDE DEF r
      <4> QED
        BY <2>1, <4>1
    <3>4. ASSUME NEW n, RemoveUser(c, n) PROVE <1>2
      <4> DEFINE r == [Idle EXCEPT !.step = "lock", !.name = n]
      <4>1. req' = [req EXCEPT ![c] = r] /\ r.step = "lock"
        BY <2>2, <3>4 DEF RemoveUser
      <4> HIDE DEF r
      <4> QED
        BY <2>1, <4>1
    <3>5. CASE \E n \in Names, role \in {"admin", "viewer"} : AddUser(c, n, role)
      BY <2>1, <2>2, <3>5 DEF AddUser
    <3>6. LogoutUser(c) => UNCHANGED req /\ Up(c, "idle")
      BY DEF LogoutUser
    <3> QED
      BY <2>3, <3>1, <3>2, <3>3, <3>4, <3>5, <3>6 DEF Request
  <2>4. CASE ~Request(c)
    <3>1. \/ Done(c) \/ Go(c, "load") \/ Go(c, "take") \/ Go(c, "count")
          \/ \E id : req' = [req EXCEPT ![c].step = "delete", ![c].id = id]
      BY <2>4 DEF CheckLogin, LoadUser, CheckOldPassword, CheckPassword, LockMutation,
                  CountAdministrators, RefreshSession
    <3>2. \A step \in Steps : [req[c] EXCEPT !.step = step].step = step
      BY <1>1, Moved
    <3>3. ASSUME NEW id, req' = [req EXCEPT ![c].step = "delete", ![c].id = id] PROVE <1>2
      <4>1. req' = [req EXCEPT ![c] = [req[c] EXCEPT !.step = "delete", !.id = id]]
        BY <1>1, <3>3 DEF AccountsTyped
      <4>2. [req[c] EXCEPT !.step = "delete", !.id = id].step = "delete"
        BY <1>1 DEF AccountsTyped, RequestRecords
      <4> QED
        BY <2>1, <4>1, <4>2
    <3>4. ASSUME NEW step \in {"load", "take", "count"}, Go(c, step) PROVE <1>2
      <4> DEFINE r == [req[c] EXCEPT !.step = step]
      <4>1. req' = [req EXCEPT ![c] = r] /\ r.step = step
        BY <1>1, <3>2, <3>4 DEF Go, Steps
      <4> HIDE DEF r
      <4> QED
        BY <2>1, <3>4, <4>1
    <3> QED
      BY <2>1, <3>1, <3>3, <3>4, IdleRequest DEF Done
  <2> QED
    BY <2>3, <2>4
<1>3. initial' = initial \/ Unwritten = {}
  <2>1. CASE RefreshSession(c)
    BY <2>1 DEF RefreshSession, Up, CredentialsInv, InitialKept
  <2>2. CASE ~RefreshSession(c)
    BY <2>2 DEF Request, LoginUser, ChangePassword, AddUser, RemoveUser, LogoutUser, CheckLogin,
                LoadUser, CheckOldPassword, LockMutation, CountAdministrators, Volatile, disk
  <2> QED
    BY <2>1, <2>2
<1> QED
  BY <1>1, <1>2, <1>3, AskedKeeps

\* A request that takes the row of "admin" takes the oldest, which is the first administrator's.
LEMMA TakeWrites ==
    ASSUME AccountsInv, CredentialsInv, NEW c \in Clients, TakeRow(c) PROVE CredentialsInv'
<1>1. AccountsTyped /\ Served /\ UNCHANGED <<rows, issued, initial>>
  BY DEF AccountsInv, TakeRow, Up, Volatile, disk, startup, Served
<1>2. CASE Done(c)
  <2>1. req'[c].step = "idle" /\ \A d \in Clients : d # c => req'[d] = req[d]
    BY <1>1, <1>2, IdleRequest DEF Done, AccountsTyped
  <2> QED
    BY <1>1, <2>1, AskedKeeps
<1>3. ASSUME NEW id \in Found(rows, req[c].name),
             req' = [req EXCEPT ![c].step = "save", ![c].id = id, ![c].row = rows[id]]
      PROVE  CredentialsInv'
  <2>1. /\ id \in DOMAIN rows /\ rows[id].name = req[c].name
        /\ \A other \in DOMAIN rows : rows[other].name = req[c].name => id <= other
    BY <1>3, FoundRow
  <2>2. /\ req'[c] = [req[c] EXCEPT !.step = "save", !.id = id, !.row = rows[id]]
        /\ \A d \in Clients : d # c => req'[d] = req[d]
    BY <1>1, <1>3 DEF AccountsTyped
  <2>3. /\ req'[c].step = "save" /\ req'[c].id = id /\ req'[c].row = rows[id]
        /\ req'[c].name = req[c].name
    BY <1>1, <2>2 DEF AccountsTyped, RequestRecords
  <2>4. \A d \in Clients : d # c /\ Holds(d)' =>
           /\ Holds(d) /\ req'[d] = req[d] /\ req[d].row.name = req[d].name
           /\ req[d].id \in DOMAIN rows => rows[req[d].id].name = req[d].row.name
           /\ \A e \in Clients : Holds(e) /\ req[e].id = req[d].id => req[e].row.name = req[d].row.name
    BY <2>2 DEF CredentialsInv, NamesHeld, Holds
  <2>5. NamesHeld'
    <3> SUFFICES ASSUME NEW d \in Clients, Holds(d)'
                 PROVE  /\ req'[d].row.name = req'[d].name
                        /\ req'[d].id \in DOMAIN rows => rows[req'[d].id].name = req'[d].row.name
                        /\ \A e \in Clients : Holds(e)' /\ req'[e].id = req'[d].id =>
                               req'[e].row.name = req'[d].row.name
      BY <1>1 DEF NamesHeld
    <3>1. CASE d = c
      BY <2>1, <2>3, <2>4, <3>1
    <3>2. CASE d # c
      BY <2>1, <2>3, <2>4, <3>2
    <3> QED
      BY <3>1, <3>2
  <2>6. InitialKept'
    <3>1. Unwritten' = Unwritten
      BY <1>1 DEF Served, Unwritten
    <3>2. req[c].name = AdminName => Unwritten \subseteq {id}
      <4> SUFFICES ASSUME req[c].name = AdminName, NEW i \in Unwritten PROVE i = id
        OBVIOUS
      <4>1. i \in DOMAIN rows /\ i <= id /\ id <= i
        BY <2>1 DEF CredentialsInv, InitialKept, Unwritten
      <4>2. i \in Nat /\ id \in Nat
        BY <1>1, <2>1, <4>1 DEF AccountsTyped, Numbered
      <4> QED
        BY <4>1, <4>2
    <3>3. \A i \in Unwritten' :
             /\ rows'[i].name = AdminName /\ rows'[i].secret = initial'
             /\ \A other \in DOMAIN rows' : i <= other
             /\ \A d \in Clients : Holds(d)' => i <= req'[d].id
      <4>1. \A d \in Clients : Holds(d)' =>
               req'[d].id \in DOMAIN rows \/ (Holds(d) /\ req'[d].id = req[d].id)
        BY <2>1, <2>3, <2>4
      <4> QED
        BY <1>1, <3>1, <4>1, OldestStays
    <3>4. \A d \in Clients : req'[d].name = AdminName =>
             /\ Holds(d)' => Unwritten \subseteq {req'[d].id}
             /\ req'[d].step = "refresh" => Unwritten = {}
      BY <2>2, <2>3, <3>2 DEF CredentialsInv, InitialKept, Holds
    <3> QED
      BY <1>1, <3>1, <3>3, <3>4 DEF InitialKept
  <2>7. issued' \in Nat /\ issued' >= issued
        /\ \A i \in DOMAIN rows' : rows'[i].secret <= issued'
    BY <1>1 DEF AccountsTyped, CredentialsInv, Secrets
  <2> QED
    BY <1>1, <2>5, <2>6, <2>7, ServedKeeps
<1> QED
  BY <1>2, <1>3 DEF TakeRow

-----------------------------------------------------------------------------
(* The requests that write: what they store was not generated.             *)

LEMMA IssuedSecret ==
    ASSUME AccountsTyped, CredentialsInv, Issue
    PROVE  /\ issued' \in Nat /\ issued' >= issued /\ issued' \notin generated
           /\ \A id \in DOMAIN rows : rows[id].secret <= issued'
<1>1. /\ issued \in Nat /\ issued' = issued + 1
      /\ \A id \in DOMAIN rows : rows[id].secret \in Nat /\ rows[id].secret <= issued
  BY DEF AccountsTyped, Numbered, Row, Issue, CredentialsInv, Secrets
<1> QED
  BY <1>1, NotGenerated

LEMMA SaveWrites ==
    ASSUME AccountsInv, CredentialsInv, NEW c \in Clients, SaveRow(c) PROVE CredentialsInv'
<1>1. AccountsTyped /\ Served /\ UNCHANGED initial /\ Holds(c)
  BY DEF AccountsInv, SaveRow, Up, disk, startup, Served, Holds
<1>2. CASE Done(c) /\ UNCHANGED <<rows, issued>>
  <2>1. req'[c].step = "idle" /\ \A d \in Clients : d # c => req'[d] = req[d]
    BY <1>1, <1>2, IdleRequest DEF Done, AccountsTyped
  <2> QED
    BY <1>1, <1>2, <2>1, AskedKeeps
<1> SUFFICES ASSUME ~(Done(c) /\ UNCHANGED <<rows, issued>>) PROVE CredentialsInv'
  BY <1>2
<1>3. AccountsTyped /\ Served /\ UNCHANGED initial /\ Holds(c) /\ Issue /\ Go(c, "refresh")
  BY <1>1 DEF SaveRow
<1>4. /\ req'[c].step = "refresh" /\ req'[c].name = req[c].name
      /\ \A d \in Clients : d # c => req'[d] = req[d]
  BY <1>3 DEF Go, AccountsTyped, RequestRecords
<1>5. /\ issued' \in Nat /\ issued' >= issued /\ issued' \notin generated
      /\ \A id \in DOMAIN rows : rows[id].secret <= issued'
  BY <1>3, IssuedSecret
<1> DEFINE key == req[c].id
<1>6. /\ req[c].row \in Row /\ req[c].row.name = req[c].name
      /\ key \in DOMAIN rows => rows[key].name = req[c].name
      /\ \A d \in Clients : Holds(d) /\ req[d].id = key => req[d].row.name = req[c].name
      /\ req[c].name = AdminName => Unwritten \subseteq {key}
  BY <1>3 DEF AccountsInv, RolesHeld, CredentialsInv, NamesHeld, InitialKept
<1>7. \/ UNCHANGED rows /\ key \notin DOMAIN rows
      \/ /\ DOMAIN rows' = DOMAIN rows \cup {key}
         /\ rows'[key].name = req[c].name /\ rows'[key].secret = issued'
         /\ \A i \in DOMAIN rows : i # key => rows'[i] = rows[i]
  <2>1. CASE rows' = With(rows, key, [req[c].row EXCEPT !.secret = issued'])
    <3>1. /\ [req[c].row EXCEPT !.secret = issued'].name = req[c].name
          /\ [req[c].row EXCEPT !.secret = issued'].secret = issued'
      BY <1>6 DEF Row
    <3> QED
      BY <2>1, <3>1 DEF With
  <2> QED
    BY <2>1 DEF SaveRow
<1> HIDE DEF key
<1>8. \A i \in DOMAIN rows' : rows'[i].secret <= issued'
  BY <1>5, <1>7
<1>9. NamesHeld'
  <2>1. \A d \in Clients : Holds(d)' => Holds(d) /\ req'[d] = req[d]
    BY <1>4 DEF Holds
  <2> QED
    BY <1>6, <1>7, <2>1 DEF CredentialsInv, NamesHeld
<1>10. /\ Unwritten' \subseteq Unwritten /\ key \notin Unwritten'
      /\ \A i \in Unwritten' : rows'[i] = rows[i]
  BY <1>3, <1>5, <1>7 DEF Served, Unwritten
<1>11. InitialKept'
  <2>1. req[c].name = AdminName => Unwritten' = {}
    BY <1>6, <1>10
  <2>2. \A i \in Unwritten' :
           /\ rows'[i].name = AdminName /\ rows'[i].secret = initial'
           /\ \A other \in DOMAIN rows' : i <= other
           /\ \A d \in Clients : Holds(d)' => i <= req'[d].id
    <3>1. \A d \in Clients : Holds(d)' => Holds(d) /\ req'[d].id = req[d].id
      BY <1>4 DEF Holds
    <3>2. \A i \in DOMAIN rows' : i \in DOMAIN rows \/ i = req[c].id
      BY <1>7 DEF key
    <3> QED
      BY <1>3, <1>10, <3>1, <3>2, OldestStays
  <2>3. \A d \in Clients : req'[d].name = AdminName =>
           /\ Holds(d)' => Unwritten' \subseteq {req'[d].id}
           /\ req'[d].step = "refresh" => Unwritten' = {}
    BY <1>4, <1>10, <2>1 DEF CredentialsInv, InitialKept, Holds
  <2> QED
    BY <1>3, <2>2, <2>3 DEF InitialKept
<1> QED
  BY <1>3, <1>5, <1>8, <1>9, <1>11, ServedKeeps

\* A request that ends, and the rows it leaves: fewer, or one more of a new id.
LEMMA EndedWrites ==
    ASSUME AccountsInv, CredentialsInv, NEW c \in Clients, CreateRow(c) \/ DeleteRow(c)
    PROVE  CredentialsInv'
<1>1. AccountsTyped /\ Served /\ UNCHANGED initial /\ Done(c)
  BY DEF AccountsInv, CreateRow, DeleteRow, Up, disk, startup, Served
<1>2. req'[c].step = "idle" /\ \A d \in Clients : d # c => req'[d] = req[d]
  BY <1>1, IdleRequest DEF Done, AccountsTyped
<1>3. \/ UNCHANGED <<rows, issued>>
      \/ /\ rows' = Without(rows, req[c].id) /\ UNCHANGED issued
      \/ /\ Issue /\ lastId' = lastId + 1
         /\ rows' = With(rows, lastId', [name |-> req[c].name, role |-> req[c].step,
                                         secret |-> issued'])
  BY DEF CreateRow, DeleteRow
<1>4. CASE UNCHANGED <<rows, issued>>
  BY <1>1, <1>2, <1>4, AskedKeeps
<1>5. \A d \in Clients : Holds(d)' => Holds(d) /\ req'[d] = req[d] /\ req[d].id \in 1..lastId
  BY <1>2 DEF Holds, AccountsInv, RolesHeld
<1>6. ASSUME Unwritten' \subseteq Unwritten, \A i \in Unwritten' : rows'[i] = rows[i],
             \A i \in DOMAIN rows' : i \in DOMAIN rows \/ i = lastId + 1
      PROVE  InitialKept'
  <2>1. \A i \in Unwritten' :
           /\ rows'[i].name = AdminName /\ rows'[i].secret = initial'
           /\ \A other \in DOMAIN rows' : i <= other
           /\ \A d \in Clients : Holds(d)' => i <= req'[d].id
    BY <1>1, <1>5, <1>6, OldestStays
  <2>2. \A d \in Clients : req'[d].name = AdminName =>
           /\ Holds(d)' => Unwritten' \subseteq {req'[d].id}
           /\ req'[d].step = "refresh" => Unwritten' = {}
    BY <1>2, <1>6 DEF CredentialsInv, InitialKept, Holds
  <2> QED
    BY <1>1, <2>1, <2>2 DEF InitialKept
<1>7. CASE rows' = Without(rows, req[c].id) /\ UNCHANGED issued
  <2>1. DOMAIN rows' \subseteq DOMAIN rows /\ \A i \in DOMAIN rows' : rows'[i] = rows[i]
    BY <1>7 DEF Without
  <2>2. issued' \in Nat /\ issued' >= issued
        /\ \A i \in DOMAIN rows' : rows'[i].secret <= issued'
    BY <1>1, <1>7, <2>1 DEF AccountsTyped, CredentialsInv, Secrets
  <2>3. NamesHeld'
    BY <1>5, <2>1 DEF CredentialsInv, NamesHeld
  <2>4. InitialKept'
    BY <1>1, <1>6, <2>1 DEF Served, Unwritten
  <2> QED
    BY <1>1, <2>2, <2>3, <2>4, ServedKeeps
<1>8. CASE /\ Issue /\ lastId' = lastId + 1
           /\ rows' = With(rows, lastId', [name |-> req[c].name, role |-> req[c].step,
                                           secret |-> issued'])
  <2>1. lastId \in Nat /\ lastId' = lastId + 1 /\ DOMAIN rows \subseteq 1..lastId
    BY <1>1, <1>8 DEF AccountsTyped, Numbered
  <2>2. lastId' \notin 1..lastId
    BY <2>1
  <2>3. /\ DOMAIN rows' = DOMAIN rows \cup {lastId'}
        /\ rows'[lastId'].name = req[c].name /\ rows'[lastId'].secret = issued'
        /\ \A i \in DOMAIN rows : i # lastId' /\ rows'[i] = rows[i]
    BY <1>8, <2>1, <2>2 DEF With
  <2>4. /\ issued' \in Nat /\ issued' >= issued /\ issued' \notin generated
        /\ \A id \in DOMAIN rows : rows[id].secret <= issued'
    BY <1>1, <1>8, IssuedSecret
  <2>5. \A i \in DOMAIN rows' : rows'[i].secret <= issued'
    BY <2>3, <2>4
  <2>6. NamesHeld'
    <3>1. \A d \in Clients : Holds(d)' => Holds(d) /\ req'[d] = req[d] /\ req[d].id # lastId'
      BY <1>5, <2>2
    <3> QED
      BY <2>3, <3>1 DEF CredentialsInv, NamesHeld
  <2>7. InitialKept'
    <3>1. Unwritten' \subseteq Unwritten /\ \A i \in Unwritten' : rows'[i] = rows[i]
      BY <1>1, <2>3, <2>4 DEF Served, Unwritten
    <3>2. \A i \in DOMAIN rows' : i \in DOMAIN rows \/ i = lastId + 1
      BY <2>1, <2>3
    <3> QED
      BY <1>6, <3>1, <3>2
  <2> QED
    BY <1>1, <2>4, <2>5, <2>6, <2>7, ServedKeeps
<1> QED
  BY <1>3, <1>4, <1>7, <1>8

LEMMA CredentialsKeep ==
    ASSUME AccountsInv, CredentialsInv, [AccountsNext]_accountVars
    PROVE  CredentialsInv'
<1>1. CASE Booting
  BY <1>1, StartupWrites, FirstWritten, RolesWrite, MigrateNewWrites DEF Booting
<1>2. ASSUME NEW c \in Clients, Request(c) \/ Serve(c) PROVE CredentialsInv'
  BY <1>2, RequestWrites, TakeWrites, SaveWrites, EndedWrites DEF Serve
<1>3. CASE UNCHANGED accountVars
  BY <1>3 DEF accountVars, disk, startup, requests, CredentialsInv, Secrets, MigratedFirst,
              Legacied, NamesHeld, Holds, InitialKept, Unwritten
<1> QED
  BY <1>1, <1>2, <1>3 DEF AccountsNext

\* A password that nobody chose is written down for as long as it opens an account, and a
\* repeated migration is refused only when a record was cut short, however many rows share a
\* name (auth.go:106, user.go:110).
THEOREM CredentialsAlwaysKept == AccountsSpec => []CredentialsKept
<1>1. AccountsInit => AccountsInv /\ CredentialsInv
  BY AccountsStart, CredentialsStart
<1>2. AccountsInv /\ CredentialsInv /\ [AccountsNext]_accountVars => (AccountsInv /\ CredentialsInv)'
  BY AccountsKeep, CredentialsKeep
<1>3. AccountsInv /\ CredentialsInv => CredentialsKept
  BY DEF CredentialsInv, MigratedFirst, InitialKept, Unwritten, CredentialsKept
<1> QED
  BY <1>1, <1>2, <1>3, PTL DEF AccountsSpec
-----------------------------------------------------------------------------
(* What lies beside the database: the files, the cookies and the lock.     *)

Cookies == [name : Names, version : Nat] \cup {None}

BesideTyped ==
    /\ migrating \in BOOLEAN /\ credentials \subseteq Names \X Nat /\ torn \in BOOLEAN
    /\ initial \in Nat \cup {None}
    /\ crashes \in Nat /\ session \in [Clients -> Cookies] /\ mutation \in Clients \cup {None}

LEMMA BesideStart == AccountsInit => BesideTyped
<1> SUFFICES ASSUME AccountsInit PROVE BesideTyped
  OBVIOUS
<1>1. migrating \in BOOLEAN
  BY DEF AccountsInit
<1>2. torn \in BOOLEAN
  BY DEF AccountsInit
<1> QED
  BY <1>1, <1>2 DEF AccountsInit, BesideTyped, Cookies

LEMMA BesideStarts == ASSUME AccountsInv, AccountsInv', BesideTyped, Booting PROVE BesideTyped'
<1>1. /\ issued \in Nat /\ issued' \in Nat /\ todo \subseteq Names
      /\ session \in [Clients -> Cookies] /\ mutation \in Clients \cup {None} /\ crashes \in Nat
      /\ credentials \subseteq Names \X Nat /\ initial \in Nat \cup {None} /\ migrating \in BOOLEAN
      /\ torn \in BOOLEAN
  BY LegacyDatabases DEF AccountsInv, AccountsTyped, BesideTyped
<1>2. CASE BeginBoot \/ CommitMigration \/ FindAccounts \/ EnsureAdministrator
  BY <1>1, <1>2 DEF BeginBoot, CommitMigration, FindAccounts, EnsureAdministrator, disk, requests, BesideTyped
<1>3. CASE SaveConfiguration
  BY <1>1, <1>3 DEF SaveConfiguration, requests, BesideTyped
<1>4. CASE StoreInitialCredential
  BY <1>1, <1>4 DEF StoreInitialCredential, requests, BesideTyped
<1>5. CASE CreateFirstAdministrator
  BY <1>1, <1>5 DEF CreateFirstAdministrator, requests, BesideTyped
<1>6. CASE Crash
  BY <1>1, <1>6 DEF Crash, disk, BesideTyped
<1>7. ASSUME NEW n \in Names, MigrateExisting(n) PROVE BesideTyped'
  BY <1>1, <1>7 DEF MigrateExisting, disk, requests, BesideTyped
<1>8. ASSUME NEW n \in Names, MigrateNew(n) PROVE BesideTyped'
  <2>1. UNCHANGED <<migrating, torn, initial, crashes, session, mutation>>
    BY <1>8 DEF MigrateNew, requests
  <2>2. credentials' \subseteq Names \X Nat
    BY <1>1, <1>8 DEF MigrateNew
  <2> QED
    BY <1>1, <2>1, <2>2 DEF BesideTyped
<1>9. ASSUME NEW id \in DOMAIN rows, NormalizeRole(id) PROVE BesideTyped'
  BY <1>1, <1>9 DEF NormalizeRole, disk, startup, requests, BesideTyped
<1>10. ASSUME NEW n \in Names, TearRecord(n) PROVE BesideTyped'
  BY <1>1, <1>10 DEF TearRecord, requests, BesideTyped
<1> QED
  BY <1>2, <1>3, <1>4, <1>5, <1>6, <1>7, <1>8, <1>9, <1>10 DEF Booting

\* A cookie names an account and carries its secret.
LEMMA CookieSaved ==
    ASSUME AccountsInv, BesideTyped, NEW c \in Clients, SaveSession(c)
    PROVE  session' \in [Clients -> Cookies]
<1>1. session \in [Clients -> Cookies] /\ req[c].name \in Names
  BY RequestFields DEF BesideTyped, AccountsInv
<1>2. \A id \in Found(rows, req[c].name) : [name |-> req[c].name, version |-> rows[id].secret] \in Cookies
  BY <1>1, FoundRow DEF AccountsInv, AccountsTyped, Numbered, Row, Cookies
<1>3. CASE session' = session
  BY <1>1, <1>3
<1>4. ASSUME NEW id \in Found(rows, req[c].name),
             session' = [session EXCEPT ![c] = [name |-> req[c].name, version |-> rows[id].secret]]
      PROVE  session' \in [Clients -> Cookies]
  <2> DEFINE cookie == [name |-> req[c].name, version |-> rows[id].secret]
  <2>1. cookie \in Cookies /\ session' = [session EXCEPT ![c] = cookie]
    BY <1>2, <1>4
  <2> HIDE DEF cookie
  <2> QED
    BY <1>1, <2>1
<1> QED
  BY <1>3, <1>4 DEF SaveSession

LEMMA BesideServed ==
    ASSUME AccountsInv, BesideTyped, NEW c \in Clients, Request(c) \/ Serve(c)
    PROVE  BesideTyped'
<1>1. /\ session \in [Clients -> Cookies] /\ mutation \in Clients \cup {None} /\ crashes \in Nat
      /\ credentials \subseteq Names \X Nat /\ initial \in Nat \cup {None} /\ migrating \in BOOLEAN
      /\ torn \in BOOLEAN
  BY DEF BesideTyped
<1>2. UNCHANGED <<migrating, credentials, torn, crashes>> /\ initial' \in {initial, None}
  BY DEF Request, Serve, LoginUser, ChangePassword, AddUser, RemoveUser, LogoutUser, CheckLogin, LoadUser,
         CheckOldPassword, TakeRow, SaveRow, RefreshSession, CreateRow, LockMutation,
         CountAdministrators, DeleteRow, Volatile, disk, startup
<1>3. mutation' \in {mutation, c, None}
  BY DEF Request, Serve, LoginUser, ChangePassword, AddUser, RemoveUser, LogoutUser, CheckLogin, LoadUser,
         CheckOldPassword, TakeRow, SaveRow, RefreshSession, CreateRow, LockMutation,
         CountAdministrators, DeleteRow
<1>4. session' \in [Clients -> Cookies]
  <2>1. CASE LoadUser(c) \/ RefreshSession(c)
    BY <2>1, CookieSaved DEF LoadUser, RefreshSession
  <2>2. CASE LogoutUser(c)
    <3>1. None \in Cookies /\ session' = [session EXCEPT ![c] = None]
      BY <2>2 DEF LogoutUser, Cookies
    <3> QED
      BY <1>1, <3>1
  <2>3. CASE ~(LoadUser(c) \/ RefreshSession(c) \/ LogoutUser(c))
    <3>1. UNCHANGED session
      BY <2>3 DEF Request, Serve, LoginUser, ChangePassword, AddUser, RemoveUser, CheckLogin,
             CheckOldPassword, TakeRow, SaveRow, CreateRow, LockMutation, CountAdministrators, DeleteRow
    <3> QED
      BY <1>1, <3>1
  <2> QED
    BY <2>1, <2>2, <2>3
<1> QED
  BY <1>1, <1>2, <1>3, <1>4 DEF BesideTyped

LEMMA BesideKeeps ==
    ASSUME AccountsInv, AccountsInv', BesideTyped, [AccountsNext]_accountVars
    PROVE  BesideTyped'
<1>1. CASE UNCHANGED accountVars
  BY <1>1 DEF accountVars, disk, startup, requests, BesideTyped
<1> QED
  BY <1>1, BesideStarts, BesideServed DEF AccountsNext

\* The state of the accounts has its type: every row has an id that was given out, every
\* request in flight a name, a row and a step of its kind, every cookie an account.
THEOREM AccountsTypeCorrect == AccountsSpec => []AccountsTypeOK
<1>1. AccountsInit => AccountsInv /\ CredentialsInv /\ BesideTyped
  BY AccountsStart, CredentialsStart, BesideStart
<1>2. /\ AccountsInv /\ CredentialsInv /\ BesideTyped /\ [AccountsNext]_accountVars
      => (AccountsInv /\ CredentialsInv /\ BesideTyped)'
  BY AccountsKeep, CredentialsKeep, BesideKeeps
<1>3. AccountsInv /\ CredentialsInv /\ BesideTyped => AccountsTypeOK
  <2> SUFFICES ASSUME AccountsInv, CredentialsInv, BesideTyped PROVE AccountsTypeOK
    OBVIOUS
  <2>1. /\ lastId \in Nat /\ issued \in Nat /\ fresh \in Nat
        /\ legacy \in LegacyCases /\ todo \subseteq DOMAIN legacy /\ Numbered(rows) /\ Numbered(tx)
        /\ req \in [Clients -> RequestRecords]
    BY DEF AccountsInv, AccountsTyped
  <2>2. todo \subseteq Names /\ DOMAIN tx \subseteq Nat
    BY <2>1, LegacyDatabases DEF Numbered
  <2>3. generated \subseteq Nat
    BY <2>1, AccountConstants DEF CredentialsInv, Secrets
  <2>4. boot \in {"down", "migrate", "save", "setup", "create", "ensure", "up", "conflict"}
    BY DEF CredentialsInv, MigratedFirst
  <2> QED
    BY <2>1, <2>2, <2>3, <2>4 DEF AccountsTypeOK, Numbered, RequestRecords, Steps, BesideTyped, Cookies
<1> QED
  BY <1>1, <1>2, <1>3, PTL DEF AccountsSpec
-----------------------------------------------------------------------------
(* The limit on failed logins: for any number of logins and any capacity.  *)

LoginRecords == [step : {"none", "comparing", "failed", "passed"}, keys : LoginKeys \cup {{}}]

LimitInv ==
    /\ IsFiniteSet(DOMAIN attempts)
    /\ \A k \in DOMAIN attempts : attempts[k] \in [count : Nat \ {0}, expired : BOOLEAN]
    /\ login \in [Logins -> LoginRecords]
    /\ AttemptsBounded

LEMMA Numbers ==
    /\ Cardinality(Logins) \in Nat /\ Limit \in Nat /\ Limit >= 1 /\ MaxKeys \in Nat
    /\ \A S \in SUBSET Logins : /\ IsFiniteSet(S) /\ Cardinality(S) \in Nat
                                /\ Cardinality(S) <= Cardinality(Logins)
    /\ \A S \in SUBSET Logins, l \in Logins :
          l \notin S => Cardinality(S) + 1 <= Cardinality(Logins)
    /\ \A S, T \in SUBSET Logins : S \subseteq T => Cardinality(S) <= Cardinality(T)
    /\ \A S \in SUBSET Logins : \A l \in S : Cardinality(S \ {l}) = Cardinality(S) - 1
<1>1. /\ Cardinality(Logins) \in Nat /\ Limit \in Nat /\ Limit >= 1 /\ MaxKeys \in Nat
      /\ IsFiniteSet(Logins)
  BY LimitConstants, FS_CardinalityType
<1>2. \A S \in SUBSET Logins : /\ IsFiniteSet(S) /\ Cardinality(S) \in Nat
                               /\ Cardinality(S) <= Cardinality(Logins)
  BY <1>1, FS_Subset, FS_CardinalityType
<1>3. ASSUME NEW S \in SUBSET Logins, NEW l \in Logins, l \notin S
      PROVE  Cardinality(S) + 1 <= Cardinality(Logins)
  <2>1. Cardinality(S \cup {l}) = Cardinality(S) + 1
    BY <1>2, <1>3, FS_AddElement
  <2>2. S \cup {l} \in SUBSET Logins
    OBVIOUS
  <2> QED
    BY <1>2, <2>1, <2>2
<1>4. \A S, T \in SUBSET Logins : S \subseteq T => Cardinality(S) <= Cardinality(T)
  BY <1>2, FS_Subset
<1>5. \A S \in SUBSET Logins : \A l \in S : Cardinality(S \ {l}) = Cardinality(S) - 1
  BY <1>2, FS_RemoveElement
<1> QED
  BY <1>1, <1>2, <1>3, <1>4, <1>5

\* A login is counted under one address and one user name.
LEMMA KeysOfALogin ==
    ASSUME NEW keys \in LoginKeys \cup {{}}
    PROVE  /\ IsFiniteSet(keys)
           /\ \A j, k \in keys : j[1] = "ip" /\ k[1] = "ip" => j = k
<1>1. CASE keys = {}
  BY <1>1, FS_EmptySet
<1>2. CASE keys \in LoginKeys
  <2>1. PICK a \in Addresses, n \in UserNames : keys = {<<"ip", a>>, <<"user", n>>}
    BY <1>2 DEF LoginKeys
  <2>2. IsFiniteSet({<<"ip", a>>}) /\ IsFiniteSet({<<"user", n>>})
    BY FS_Singleton
  <2>3. IsFiniteSet(keys)
    <3>1. keys = {<<"ip", a>>} \cup {<<"user", n>>}
      BY <2>1
    <3> QED
      BY <2>2, <3>1, FS_Union
  <2>4. \A k \in keys : k[1] = "ip" => k = <<"ip", a>>
    BY <2>1
  <2> QED
    BY <2>3, <2>4
<1> QED
  BY <1>1, <1>2

\* What is swept and what is let in together stay within the capacity.
LEMMA TableBounded ==
    ASSUME LimitInv, NEW keys \in LoginKeys \cup {{}}
    PROVE  /\ IsFiniteSet(Swept \cup Admitted(Swept, keys))
           /\ Cardinality(Swept \cup Admitted(Swept, keys)) <= MaxKeys
           /\ Swept \subseteq DOMAIN attempts /\ Admitted(Swept, keys) \subseteq keys
<1> DEFINE new == keys \ Swept
<1>1. Swept \subseteq DOMAIN attempts
  BY DEF Swept
<1>2. /\ IsFiniteSet(Swept) /\ Cardinality(Swept) \in Nat /\ MaxKeys \in Nat
      /\ Cardinality(Swept) <= MaxKeys
  <2>1. IsFiniteSet(DOMAIN attempts) /\ Cardinality(DOMAIN attempts) <= MaxKeys
    BY DEF LimitInv, AttemptsBounded
  <2>2. /\ IsFiniteSet(Swept) /\ Cardinality(Swept) <= Cardinality(DOMAIN attempts)
        /\ Cardinality(Swept) \in Nat /\ Cardinality(DOMAIN attempts) \in Nat
    BY <1>1, <2>1, FS_Subset, FS_CardinalityType
  <2> QED
    BY <2>1, <2>2, Numbers
<1>3. IsFiniteSet(new) /\ Cardinality(new) \in Nat
  BY KeysOfALogin, FS_Subset, FS_CardinalityType
<1>4. CASE Admitted(Swept, keys) = new /\ Cardinality(Swept) + Cardinality(new) <= MaxKeys
  <2>1. /\ IsFiniteSet(Swept \cup new)
        /\ Cardinality(Swept \cup new) = Cardinality(Swept) + Cardinality(new) - Cardinality(Swept \cap new)
    BY <1>2, <1>3, FS_Union
  <2>2. Swept \cap new = {}
    OBVIOUS
  <2> QED
    BY <1>1, <1>2, <1>3, <1>4, <2>1, <2>2, FS_EmptySet
<1>5. CASE /\ Admitted(Swept, keys) = {k \in new : k[1] = "ip"}
           /\ Cardinality(Swept) + 1 = MaxKeys
  <2>1. CASE Admitted(Swept, keys) = {}
    BY <1>1, <1>2, <2>1
  <2>2. ASSUME NEW k \in Admitted(Swept, keys) PROVE Admitted(Swept, keys) = {k}
    BY <1>5, <2>2, KeysOfALogin
  <2>3. ASSUME NEW k \in Admitted(Swept, keys)
        PROVE  IsFiniteSet(Swept \cup {k}) /\ Cardinality(Swept \cup {k}) <= MaxKeys
    <3>1. k \notin Swept
      BY <1>5, <2>3
    <3>2. IsFiniteSet(Swept \cup {k}) /\ Cardinality(Swept \cup {k}) = Cardinality(Swept) + 1
      BY <1>2, <3>1, FS_AddElement
    <3> QED
      BY <1>5, <1>2, <3>2
  <2> QED
    BY <1>1, <1>5, <2>1, <2>2, <2>3
<1>6. CASE Admitted(Swept, keys) = {}
  BY <1>1, <1>2, <1>6
<1> QED
  BY <1>4, <1>5, <1>6 DEF Admitted

\* Who is uncounted under a key when one login has moved.
LEMMA UncountedMoves ==
    ASSUME LimitInv, NEW l \in Logins, NEW r \in LoginRecords, login' = [login EXCEPT ![l] = r], NEW k
    PROVE  /\ login' \in [Logins -> LoginRecords]
           /\ Uncounted(k) \in SUBSET Logins /\ Uncounted(k)' \in SUBSET Logins
           /\ r.step \notin {"comparing", "failed"} => Uncounted(k)' = Uncounted(k) \ {l}
           /\ k \notin r.keys => Uncounted(k)' = Uncounted(k) \ {l}
           /\ login[l].step = "comparing" /\ r.keys = login[l].keys => Uncounted(k)' \subseteq Uncounted(k)
<1>1. login \in [Logins -> LoginRecords]
  BY DEF LimitInv
<1>2. login'[l] = r /\ \A m \in Logins : m # l => login'[m] = login[m]
  BY <1>1
<1> QED
  BY <1>1, <1>2 DEF Uncounted

LEMMA LoginEnds ==
    ASSUME LimitInv, NEW l \in Logins, End(l)
    PROVE  /\ login' \in [Logins -> LoginRecords]
           /\ \A k : Uncounted(k)' = Uncounted(k) \ {l}
<1> DEFINE r == [step |-> "none", keys |-> {}]
<1>1. r \in LoginRecords /\ r.step = "none" /\ login' = [login EXCEPT ![l] = r]
  BY DEF LoginRecords, End
<1> HIDE DEF r
<1> QED
  BY <1>1, UncountedMoves

LEMMA BeginBounded ==
    ASSUME LimitInv, NEW l \in Logins, NEW keys \in LoginKeys, BeginLogin(l, keys) PROVE LimitInv'
<1> DEFINE r == [step |-> "comparing", keys |-> keys]
<1>1. /\ r \in LoginRecords /\ r.keys = keys /\ login' = [login EXCEPT ![l] = r]
      /\ UNCHANGED attempts /\ LoginAttemptAllowed(keys)
  BY DEF LoginRecords, BeginLogin
<1> HIDE DEF r
<1>2. ASSUME NEW k \in DOMAIN attempts, ~attempts[k].expired
      PROVE  attempts[k].count + Cardinality(Uncounted(k)') <= Limit + Cardinality(Logins) - 1
  <2>1. /\ attempts[k].count \in Nat
        /\ attempts[k].count + Cardinality(Uncounted(k)) <= Limit + Cardinality(Logins) - 1
        /\ Uncounted(k) \in SUBSET Logins /\ Uncounted(k)' \in SUBSET Logins
    BY <1>1, <1>2, UncountedMoves DEF LimitInv, AttemptsBounded
  <2>2. CASE k \in keys
    <3>1. attempts[k].count < Limit
      BY <1>1, <1>2, <2>2 DEF LoginAttemptAllowed
    <3> QED
      BY <2>1, <3>1, Numbers
  <2>3. CASE k \notin keys
    <3>1. Uncounted(k)' \subseteq Uncounted(k)
      <4>1. k \notin r.keys
        BY <1>1, <2>3
      <4>2. Uncounted(k)' = Uncounted(k) \ {l}
        BY <1>1, <4>1, UncountedMoves
      <4> QED
        BY <4>2
    <3>2. Cardinality(Uncounted(k)') <= Cardinality(Uncounted(k))
      BY <2>1, <3>1, Numbers
    <3>3. Cardinality(Uncounted(k)') \in Nat /\ Cardinality(Uncounted(k)) \in Nat
      BY <2>1, Numbers
    <3> QED
      BY <2>1, <3>2, <3>3, Numbers
  <2> QED
    BY <2>2, <2>3
<1>3. login' \in [Logins -> LoginRecords]
  BY <1>1, UncountedMoves
<1> QED
  BY <1>1, <1>2, <1>3 DEF LimitInv, AttemptsBounded

\* A step that counts nothing new: windows close, logins end, entries go.
LEMMA FewerBounded ==
    ASSUME LimitInv, login' \in [Logins -> LoginRecords], DOMAIN attempts' \subseteq DOMAIN attempts,
           \A k \in DOMAIN attempts' : /\ attempts'[k].count = attempts[k].count
                                       /\ attempts'[k].expired \in {attempts[k].expired, TRUE}
                                       /\ attempts'[k] \in [count : Nat \ {0}, expired : BOOLEAN],
           \A k : Uncounted(k)' \subseteq Uncounted(k) /\ Uncounted(k) \in SUBSET Logins
    PROVE  LimitInv'
<1>1. ASSUME NEW k \in DOMAIN attempts', ~attempts'[k].expired
      PROVE  attempts'[k].count + Cardinality(Uncounted(k)') <= Limit + Cardinality(Logins) - 1
  <2>1. /\ attempts[k].count \in Nat /\ attempts'[k].count = attempts[k].count
        /\ attempts[k].count + Cardinality(Uncounted(k)) <= Limit + Cardinality(Logins) - 1
    BY <1>1 DEF LimitInv, AttemptsBounded
  <2>2. /\ Cardinality(Uncounted(k)') <= Cardinality(Uncounted(k))
        /\ Cardinality(Uncounted(k)') \in Nat /\ Cardinality(Uncounted(k)) \in Nat
    BY Numbers
  <2> QED
    BY <2>1, <2>2, Numbers
<1>2. /\ IsFiniteSet(DOMAIN attempts') /\ Cardinality(DOMAIN attempts') <= MaxKeys
  <2>1. IsFiniteSet(DOMAIN attempts) /\ Cardinality(DOMAIN attempts) <= MaxKeys
    BY DEF LimitInv, AttemptsBounded
  <2>2. /\ IsFiniteSet(DOMAIN attempts') /\ Cardinality(DOMAIN attempts') <= Cardinality(DOMAIN attempts)
        /\ Cardinality(DOMAIN attempts') \in Nat /\ Cardinality(DOMAIN attempts) \in Nat
    BY <2>1, FS_Subset, FS_CardinalityType
  <2> QED
    BY <2>1, <2>2, Numbers
<1> QED
  BY <1>1, <1>2 DEF LimitInv, AttemptsBounded

LEMMA FailureBounded ==
    ASSUME LimitInv, NEW l \in Logins, RecordLoginFailure(l) PROVE LimitInv'
<1> DEFINE keys == login[l].keys
           table == Swept \cup Admitted(Swept, keys)
<1>1. /\ keys \in LoginKeys \cup {{}} /\ login[l].step = "failed"
      /\ DOMAIN attempts' = table
      /\ \A k \in table : attempts'[k] = IF k \in keys THEN Counted(k) ELSE attempts[k]
      /\ login' \in [Logins -> LoginRecords] /\ \A k : Uncounted(k)' = Uncounted(k) \ {l}
  BY LoginEnds DEF RecordLoginFailure, LimitInv, LoginRecords
<1>2. /\ IsFiniteSet(table) /\ Cardinality(table) <= MaxKeys
      /\ \A k \in table : k \in DOMAIN attempts \/ k \in keys
  BY <1>1, TableBounded
<1> HIDE DEF keys, table
<1>3. ASSUME NEW k \in table
      PROVE  /\ attempts'[k] \in [count : Nat \ {0}, expired : BOOLEAN]
             /\ \/ /\ k \in keys /\ attempts'[k].count = 1
                \/ /\ k \in keys /\ k \in DOMAIN attempts /\ ~attempts[k].expired
                   /\ attempts'[k].count = attempts[k].count + 1
                \/ k \notin keys /\ k \in DOMAIN attempts /\ attempts'[k] = attempts[k]
  <2>1. k \in DOMAIN attempts => attempts[k] \in [count : Nat \ {0}, expired : BOOLEAN]
    BY DEF LimitInv
  <2>2. CASE k \notin keys
    BY <1>1, <1>2, <1>3, <2>1, <2>2
  <2>3. CASE k \in keys /\ k \in DOMAIN attempts /\ ~attempts[k].expired
    <3>1. attempts'[k] = [count |-> attempts[k].count + 1, expired |-> FALSE]
      BY <1>1, <1>3, <2>3 DEF Counted
    <3>2. attempts[k].count + 1 \in Nat \ {0}
      BY <2>1, <2>3
    <3> QED
      BY <2>3, <3>1, <3>2
  <2>4. CASE k \in keys /\ ~(k \in DOMAIN attempts /\ ~attempts[k].expired)
    <3>1. attempts'[k] = [count |-> 1, expired |-> FALSE]
      BY <1>1, <1>3, <2>4 DEF Counted
    <3> QED
      BY <2>4, <3>1
  <2> QED
    BY <2>2, <2>3, <2>4
<1>4. ASSUME NEW k \in table, ~attempts'[k].expired
      PROVE  attempts'[k].count + Cardinality(Uncounted(k)') <= Limit + Cardinality(Logins) - 1
  <2>1. /\ Uncounted(k) \in SUBSET Logins /\ Uncounted(k)' = Uncounted(k) \ {l}
        /\ Uncounted(k)' \in SUBSET Logins /\ l \notin Uncounted(k)'
        /\ k \in keys => l \in Uncounted(k)
    BY <1>1 DEF Uncounted, keys
  <2>2. /\ Cardinality(Uncounted(k)') \in Nat /\ Cardinality(Uncounted(k)) \in Nat
        /\ Cardinality(Uncounted(k)') <= Cardinality(Uncounted(k))
        /\ Cardinality(Uncounted(k)') + 1 <= Cardinality(Logins)
        /\ k \in keys => Cardinality(Uncounted(k)') = Cardinality(Uncounted(k)) - 1
    BY <2>1, Numbers
  <2>3. k \in DOMAIN attempts /\ ~attempts[k].expired =>
           /\ attempts[k].count \in Nat
           /\ attempts[k].count + Cardinality(Uncounted(k)) <= Limit + Cardinality(Logins) - 1
    BY DEF LimitInv, AttemptsBounded
  <2> QED
    BY <1>3, <1>4, <2>2, <2>3, Numbers
<1> QED
  BY <1>1, <1>2, <1>3, <1>4 DEF LimitInv, AttemptsBounded

LEMMA LimitKeeps ==
    ASSUME LimitInv, [LimitNext]_limitVars PROVE LimitInv'
<1>1. login \in [Logins -> LoginRecords] /\ \A k : Uncounted(k) \in SUBSET Logins
  BY DEF LimitInv, Uncounted
<1>2. ASSUME NEW l \in Logins, ComparePassword(l) PROVE LimitInv'
  <2>1. PICK result \in {"failed", "passed"} : login' = [login EXCEPT ![l].step = result]
    BY <1>2 DEF ComparePassword
  <2> DEFINE r == [login[l] EXCEPT !.step = result]
  <2>2. /\ r \in LoginRecords /\ r.keys = login[l].keys /\ login' = [login EXCEPT ![l] = r]
        /\ login[l].step = "comparing" /\ UNCHANGED attempts
    BY <1>1, <1>2, <2>1 DEF LoginRecords, ComparePassword
  <2> HIDE DEF r
  <2>3. login' \in [Logins -> LoginRecords] /\ \A k : Uncounted(k)' \subseteq Uncounted(k)
    BY <2>2, UncountedMoves
  <2> QED
    BY <1>1, <2>2, <2>3, FewerBounded DEF LimitInv
<1>3. ASSUME NEW l \in Logins, ClearLoginFailures(l) PROVE LimitInv'
  <2>1. /\ DOMAIN attempts' \subseteq DOMAIN attempts
        /\ \A k \in DOMAIN attempts' : attempts'[k] = attempts[k]
        /\ login' \in [Logins -> LoginRecords] /\ \A k : Uncounted(k)' \subseteq Uncounted(k)
    BY <1>3, LoginEnds DEF ClearLoginFailures
  <2> QED
    BY <1>1, <2>1, FewerBounded DEF LimitInv
<1>4. ASSUME NEW k, WindowExpires(k) PROVE LimitInv'
  <2>1. /\ DOMAIN attempts' = DOMAIN attempts /\ UNCHANGED login
        /\ \A j \in DOMAIN attempts : attempts'[j] = IF j = k THEN [attempts[j] EXCEPT !.expired = TRUE]
                                                              ELSE attempts[j]
    BY <1>4 DEF WindowExpires
  <2>2. \A j \in DOMAIN attempts : /\ attempts'[j].count = attempts[j].count
                                   /\ attempts'[j].expired \in {attempts[j].expired, TRUE}
                                   /\ attempts'[j] \in [count : Nat \ {0}, expired : BOOLEAN]
    BY <2>1 DEF LimitInv
  <2>3. \A j : Uncounted(j)' = Uncounted(j)
    BY <2>1 DEF Uncounted
  <2> QED
    BY <1>1, <2>1, <2>2, <2>3, FewerBounded
<1>5. CASE UNCHANGED limitVars
  BY <1>5 DEF limitVars, LimitInv, AttemptsBounded, Uncounted
<1> QED
  BY <1>2, <1>3, <1>4, <1>5, BeginBounded, FailureBounded DEF LimitNext

LEMMA LimitStart == LimitInit => LimitInv
<1> SUFFICES ASSUME LimitInit PROVE LimitInv
  OBVIOUS
<1>1. DOMAIN attempts = {} /\ login \in [Logins -> LoginRecords]
  BY DEF LimitInit, LoginRecords
<1> QED
  BY <1>1, FS_EmptySet, LimitConstants DEF LimitInv, AttemptsBounded

\* Test and count are two critical sections, so a key may fail more often than the limit: its
\* unexpired failures and the logins that will still be counted under it are less than the limit
\* and the number of logins together.  The table stays within its bound (auth.go:239, auth.go:255).
THEOREM AttemptsAlwaysBounded == LimitSpec => []AttemptsBounded
<1>1. LimitInit => LimitInv
  BY LimitStart
<1>2. LimitInv /\ [LimitNext]_limitVars => LimitInv'
  BY LimitKeeps
<1>3. LimitInv => AttemptsBounded
  BY DEF LimitInv
<1> QED
  BY <1>1, <1>2, <1>3, PTL DEF LimitSpec
\* The counters are those of addresses and user names.
LEMMA AttemptKeysKept ==
    ASSUME LimitInv, DOMAIN attempts \subseteq AttemptKeys, [LimitNext]_limitVars
    PROVE  DOMAIN attempts' \subseteq AttemptKeys
<1>1. ASSUME NEW l \in Logins, RecordLoginFailure(l) PROVE DOMAIN attempts' \subseteq AttemptKeys
  <2>1. login[l].keys \in LoginKeys \cup {{}}
    BY DEF LimitInv, LoginRecords
  <2>2. login[l].keys \subseteq AttemptKeys
    BY <2>1 DEF AttemptKeys
  <2>3. DOMAIN attempts' = Swept \cup Admitted(Swept, login[l].keys)
    BY <1>1 DEF RecordLoginFailure
  <2> QED
    BY <2>1, <2>2, <2>3, TableBounded
<1>2. ASSUME NEW l \in Logins, ComparePassword(l) \/ ClearLoginFailures(l)
      PROVE  DOMAIN attempts' \subseteq AttemptKeys
  BY <1>2 DEF ComparePassword, ClearLoginFailures
<1>3. ASSUME NEW l \in Logins, NEW keys \in LoginKeys, BeginLogin(l, keys)
      PROVE  DOMAIN attempts' \subseteq AttemptKeys
  BY <1>3 DEF BeginLogin
<1>4. ASSUME NEW k \in AttemptKeys, WindowExpires(k) PROVE DOMAIN attempts' \subseteq AttemptKeys
  BY <1>4 DEF WindowExpires
<1>5. CASE UNCHANGED limitVars
  BY <1>5 DEF limitVars
<1> QED
  BY <1>1, <1>2, <1>3, <1>4, <1>5 DEF LimitNext

\* The state of the limit has its type: a counter is never zero and never kept under a key
\* that no login has.
THEOREM LimitTypeCorrect == LimitSpec => []LimitTypeOK
<1>1. LimitInit => LimitInv /\ DOMAIN attempts \subseteq AttemptKeys
  BY LimitStart DEF LimitInit
<1>2. LimitInv /\ DOMAIN attempts \subseteq AttemptKeys /\ [LimitNext]_limitVars
      => (LimitInv /\ DOMAIN attempts \subseteq AttemptKeys)'
  BY LimitKeeps, AttemptKeysKept
<1>3. LimitInv /\ DOMAIN attempts \subseteq AttemptKeys => LimitTypeOK
  BY DEF LimitInv, LimitTypeOK, LoginRecords
<1> QED
  BY <1>1, <1>2, <1>3, PTL DEF LimitSpec

-----------------------------------------------------------------------------
(* WebsocketHub: the inductive invariant.                                  *)

Lines == Seq(Nat)
HubTyped ==
    /\ HubTypeOK
    /\ queue \in [Sockets -> Seq(Rooms \X Nat)]
    /\ heard \in [Sockets -> [Rooms -> Lines]]
    /\ sent \in [Rooms -> Nat] /\ cache \in Lines

\* What the goroutine of a room has in hand.
AtWork(r) ==
    /\ r \notin rooms => members[r] = {} /\ task[r] = Free
    /\ task[r].kind = "select" => task[r] = Free
    /\ task[r].kind \in {"admit", "replay", "queue"} <=> task[r].client # NoSocket
    /\ task[r].kind = "admit" => task[r].next = 1
    /\ task[r].kind = "replay" =>
          /\ r = "gamelog" /\ task[r].client \in members[r]
          /\ task[r].next \in 1..Len(cache) + 1
    /\ task[r].kind = "queue" => task[r].client \in members[r] \ task[r].todo
    /\ task[r].todo \subseteq members[r]
    /\ task[r].kind \notin {"deliver", "queue"} => task[r].todo = {}
    /\ task[r].kind \in {"deliver", "queue"} => sent[r] > 0

\* The last message that a room is done with, and the members still to get the next one.
Before(r) == IF task[r].kind \in {"deliver", "queue"} THEN sent[r] - 1 ELSE sent[r]
Behind(c, r) == c \in task[r].todo \/ (task[r].kind = "queue" /\ task[r].client = c)
Replaying(c, r) == task[r].kind = "replay" /\ task[r].client = c

EndsWith(h, n) == h # <<>> => h[Len(h)] = n

\* What a member has heard: up to the message before the one in delivery, up to that one,
\* or so much of the log as was replayed.
HasHeard(c, r) ==
    LET h == heard[c][r] IN
    /\ Consecutive(h)
    /\ Replaying(c, r) => Len(h) = task[r].next - 1 /\ \A i \in 1..Len(h) : h[i] = cache[i]
    /\ Behind(c, r) => EndsWith(h, sent[r] - 1)
    /\ ~Replaying(c, r) /\ ~Behind(c, r) =>
          EndsWith(h, sent[r]) /\ (r = "gamelog" /\ sent[r] > 0 => h # <<>>)

Logged ==
    /\ Consecutive(cache) /\ \A i \in 1..Len(cache) : cache[i] <= sent["gamelog"]
    /\ IF Before("gamelog") = 0 THEN cache = <<>>
       ELSE cache # <<>> /\ EndsWith(cache, Before("gamelog"))

\* A room that has a client that is gone will be asked to forget it.
Known(c) ==
    /\ reader[c].step \notin {"none", "register", "gone"} => c \in clients
    /\ reader[c].step \in {"none", "register"} => \A r \in Rooms : c \notin members[r] \cup {task[r].client}
    /\ reader[c].step = "gone" =>
          \A r \in Rooms : c \in members[r] \cup {task[r].client} =>
              leaving.client = c /\ r \in leaving.todo
    /\ leaving.client = c => reader[c].step = "gone"

\* The lines of the log that a client has or is about to get.
NothingNew(c) ==
    /\ \A i \in 1..Len(queue[c]) : queue[c][i][1] = "gamelog" =>
          queue[c][i][2] <= sent["gamelog"] /\ (~capable[c] => queue[c][i][2] <= limit[c])
    /\ task["gamelog"].kind \in {"replay", "queue"} /\ task["gamelog"].client = c /\ ~capable[c] =>
          sent["gamelog"] <= limit[c]

HubInv ==
    /\ HubTyped /\ Logged
    /\ \A r \in Rooms : AtWork(r) /\ \A c \in members[r] : HasHeard(c, r)
    /\ \A c \in Sockets : Known(c) /\ NothingNew(c)

-----------------------------------------------------------------------------
(* Lines of messages.                                                      *)

LEMMA OneMore ==
    ASSUME NEW h \in Lines, NEW n \in Nat, Consecutive(h), EndsWith(h, n - 1)
    PROVE  /\ Append(h, n) \in Lines /\ Append(h, n) # <<>> /\ Len(Append(h, n)) = Len(h) + 1
           /\ Consecutive(Append(h, n)) /\ EndsWith(Append(h, n), n)
           /\ \A i \in 1..Len(h) : Append(h, n)[i] = h[i]
           /\ Append(h, n)[Len(h) + 1] = n
<1>1. /\ Append(h, n) \in Lines /\ Len(Append(h, n)) = Len(h) + 1 /\ Len(h) \in Nat
      /\ \A i \in 1..Len(h) : Append(h, n)[i] = h[i]
      /\ Append(h, n)[Len(h) + 1] = n
  BY DEF Lines
<1>2. Append(h, n) # <<>> /\ EndsWith(Append(h, n), n)
  BY <1>1 DEF EndsWith, Lines
<1>3. ASSUME NEW i \in 1..Len(h) PROVE Append(h, n)[i + 1] = Append(h, n)[i] + 1
  <2>1. h[i] \in Nat /\ h # <<>>
    BY DEF Lines
  <2>2. CASE i = Len(h)
    BY <1>1, <2>1, <2>2 DEF EndsWith
  <2>3. CASE i < Len(h)
    BY <1>1, <2>3 DEF Consecutive
  <2> QED
    BY <1>1, <2>2, <2>3
<1> QED
  BY <1>1, <1>2, <1>3 DEF Consecutive

LEMMA NoLines == <<>> \in Lines /\ Len(<<>>) = 0 /\ Consecutive(<<>>) /\ \A n : EndsWith(<<>>, n)
BY DEF Lines, Consecutive, EndsWith

LEMMA NewestLines ==
    ASSUME NEW h \in Lines, NEW n \in Nat, h # <<>>, Consecutive(h), EndsWith(h, n),
           \A i \in 1..Len(h) : h[i] <= n, Len(h) <= CacheSize + 1
    PROVE  /\ Trimmed(h) \in Lines /\ Trimmed(h) # <<>> /\ Len(Trimmed(h)) <= CacheSize
           /\ Consecutive(Trimmed(h)) /\ EndsWith(Trimmed(h), n)
           /\ \A i \in 1..Len(Trimmed(h)) : Trimmed(h)[i] <= n
<1>1. CacheSize \in Nat \ {0} /\ Len(h) \in Nat
  BY HubConstants DEF Lines
<1>2. CASE Len(h) > CacheSize
  <2>1. /\ Tail(h) \in Lines /\ Len(Tail(h)) = Len(h) - 1
        /\ \A i \in 1..Len(h) - 1 : Tail(h)[i] = h[i + 1]
    BY <1>1, <1>2 DEF Lines
  <2>2. Tail(h) # <<>>
    <3>1. Len(Tail(h)) # 0
      BY <1>1, <1>2, <2>1
    <3> HIDE DEF Lines
    <3> QED
      BY ONLY <3>1, NoLines
  <2>3. Consecutive(Tail(h))
    BY <1>1, <2>1 DEF Consecutive
  <2>4. EndsWith(Tail(h), n) /\ \A i \in 1..Len(Tail(h)) : Tail(h)[i] <= n
    BY <1>1, <1>2, <2>1 DEF EndsWith
  <2>5. Trimmed(h) = Tail(h)
    BY <1>2 DEF Trimmed
  <2> QED
    BY <1>1, <2>1, <2>2, <2>3, <2>4, <2>5
<1>3. CASE ~(Len(h) > CacheSize)
  BY <1>1, <1>3 DEF Trimmed
<1> QED
  BY <1>2, <1>3

-----------------------------------------------------------------------------
(* What a step of one client or of one room leaves alone.                  *)

LEMMA HubInvParts ==
    ASSUME HubInv
    PROVE  /\ HubTyped /\ Logged
           /\ \A r \in Rooms : AtWork(r) /\ \A c \in members[r] : HasHeard(c, r)
           /\ \A c \in Sockets : Known(c) /\ NothingNew(c)
BY DEF HubInv

LEMMA KnownStays ==
    ASSUME NEW c \in Sockets, Known(c), UNCHANGED leaving, c \in clients => c \in clients',
           reader'[c].step \in {"none", "register"} => reader[c].step \in {"none", "register"},
           reader'[c].step \notin {"none", "register", "gone"} =>
               reader[c].step \notin {"none", "register", "gone"},
           reader'[c].step = "gone" <=> reader[c].step = "gone",
           \A r \in Rooms : c \in members'[r] \cup {task'[r].client} => c \in members[r] \cup {task[r].client}
    PROVE  Known(c)'
BY DEF Known

LEMMA NothingNewStays ==
    ASSUME HubTyped, HubTyped', NEW c \in Sockets, NothingNew(c), queue'[c] = queue[c],
           capable'[c] = capable[c], limit'[c] = limit[c],
           sent'["gamelog"] >= sent["gamelog"],
           task'["gamelog"].kind \in {"replay", "queue"} /\ task'["gamelog"].client = c /\ ~capable[c] =>
               /\ task["gamelog"].kind \in {"replay", "queue"} /\ task["gamelog"].client = c
               /\ sent'["gamelog"] = sent["gamelog"]
    PROVE  NothingNew(c)'
<1>1. "gamelog" \in Rooms /\ sent["gamelog"] \in Nat /\ sent'["gamelog"] \in Nat /\ queue[c] \in Seq(Rooms \X Nat)
  BY HubConstants DEF HubTyped
<1>2. \A i \in 1..Len(queue[c]) : queue[c][i][2] \in Nat
  BY <1>1
<1>3. \A i \in 1..Len(queue[c]) : queue[c][i][1] = "gamelog" =>
         queue[c][i][2] <= sent'["gamelog"] /\ (~capable[c] => queue[c][i][2] <= limit[c])
  BY <1>1, <1>2 DEF NothingNew
<1> QED
  BY <1>3 DEF NothingNew

LEMMA OutsideRooms ==
    ASSUME HubInv, UNCHANGED <<members, task, sent, cache, heard>>, rooms \subseteq rooms',
           HubTyped', \A c \in Sockets : Known(c)' /\ NothingNew(c)'
    PROVE  HubInv'
<1>1. Logged'
  BY DEF HubInv, Logged, Before
<1>2. ASSUME NEW r \in Rooms PROVE AtWork(r)' /\ \A c \in members'[r] : HasHeard(c, r)'
  <2>1. AtWork(r)'
    BY DEF HubInv, AtWork
  <2>2. \A c \in members'[r] : HasHeard(c, r)'
    BY DEF HubInv, HasHeard, Replaying, Behind
  <2> QED
    BY <2>1, <2>2
<1> QED
  BY <1>1, <1>2 DEF HubInv

LEMMA InsideARoom ==
    ASSUME HubInv, NEW r \in Rooms, UNCHANGED rooms,
           \A q \in Rooms : q # r =>
              /\ members'[q] = members[q] /\ task'[q] = task[q] /\ sent'[q] = sent[q]
              /\ \A c \in Sockets : heard'[c][q] = heard[c][q],
           r # "gamelog" => UNCHANGED cache,
           HubTyped', AtWork(r)', \A c \in members'[r] : HasHeard(c, r)', r = "gamelog" => Logged',
           \A c \in Sockets : Known(c)' /\ NothingNew(c)'
    PROVE  HubInv'
<1>1. Logged'
  BY HubConstants DEF HubInv, Logged, Before
<1>2. ASSUME NEW q \in Rooms, q # r PROVE AtWork(q)' /\ \A c \in members'[q] : HasHeard(c, q)'
  <2>1. AtWork(q) /\ (q = "gamelog" => UNCHANGED cache) /\ members[q] \subseteq Sockets
    BY <1>2 DEF HubInv, HubTyped, HubTypeOK
  <2>2. AtWork(q)'
    BY <1>2, <2>1 DEF AtWork
  <2>3. ASSUME NEW c \in members'[q] PROVE HasHeard(c, q)'
    <3>1. HasHeard(c, q) /\ c \in Sockets
      BY <1>2, <2>1 DEF HubInv
    <3>2. Replaying(c, q) => q = "gamelog"
      BY <2>1 DEF Replaying, AtWork
    <3>3. (Replaying(c, q)' <=> Replaying(c, q)) /\ (Behind(c, q)' <=> Behind(c, q))
      BY <1>2 DEF Replaying, Behind
    <3> QED
      BY <1>2, <2>1, <3>1, <3>2, <3>3 DEF HasHeard
  <2> QED
    BY <2>2, <2>3
<1>3. \A q \in Rooms : AtWork(q)' /\ \A c \in members'[q] : HasHeard(c, q)'
  BY <1>2
<1> QED
  BY <1>1, <1>3 DEF HubInv

LEMMA HubStart == HubInit => HubInv
<1> SUFFICES ASSUME HubInit PROVE HubInv
  OBVIOUS
<1>1. "gamelog" \in Rooms /\ Capacity \in Nat /\ CacheSize \in Nat /\ MaxMessages \in [Rooms -> Nat]
  BY HubConstants
<1>2. /\ \A c \in Sockets : /\ reader[c].step = "none" /\ queue[c] = <<>> /\ capable[c]
                            /\ \A r \in Rooms : heard[c][r] = <<>>
      /\ \A r \in Rooms : members[r] = {} /\ task[r] = Free /\ sent[r] = 0
      /\ cache = <<>> /\ leaving.client = NoSocket
  BY DEF HubInit
<1>3. HubTyped
  <2>1. HubTypeOK
    BY <1>1, NoLines DEF HubInit, HubTypeOK, Free
  <2> QED
    BY <1>1, <2>1, NoLines DEF HubInit, HubTyped, Lines
<1>4. /\ Free.kind = "select" /\ Free.client = NoSocket /\ Free.todo = {}
  BY DEF Free
<1>5. Logged
  BY <1>1, <1>2, <1>4, NoLines DEF Logged, Before
<1>6. ASSUME NEW r \in Rooms PROVE AtWork(r) /\ \A c \in members[r] : HasHeard(c, r)
  BY <1>2, <1>4 DEF AtWork
<1>7. ASSUME NEW c \in Sockets PROVE Known(c) /\ NothingNew(c)
  <2>1. c # NoSocket
    BY HubConstants
  <2>2. Known(c)
    BY <1>2, <1>4, <2>1 DEF Known
  <2>3. NothingNew(c)
    BY <1>2, NoLines DEF NothingNew
  <2> QED
    BY <2>2, <2>3
<1> QED
  BY <1>3, <1>5, <1>6, <1>7 DEF HubInv

-----------------------------------------------------------------------------
(* Clients, senders and the hub.                                           *)

\* Nothing changes in the rooms nor in what the clients have and are told.
RoomsStay == UNCHANGED <<members, task, sent, cache, heard, queue, capable, limit>>

LEMMA ClientMoves ==
    ASSUME HubInv, HubTyped', RoomsStay, rooms \subseteq rooms', UNCHANGED <<clients, leaving>>,
           \A c \in Sockets :
              /\ reader'[c].step \in {"none", "register"} => reader[c].step \in {"none", "register"}
              /\ reader'[c].step \notin {"none", "register", "gone"} =>
                    reader[c].step \notin {"none", "register", "gone"}
              /\ reader'[c].step = "gone" <=> reader[c].step = "gone"
    PROVE  HubInv'
<1>1. UNCHANGED <<members, task, sent, cache, heard, queue, capable, limit>>
  BY DEF RoomsStay
<1>2. ASSUME NEW c \in Sockets PROVE Known(c)'
  <2>1. Known(c)
    BY HubInvParts
  <2> QED
    BY <1>1, <2>1, KnownStays
<1>3. ASSUME NEW c \in Sockets PROVE NothingNew(c)'
  BY <1>1, HubInvParts DEF NothingNew
<1> QED
  BY <1>1, <1>2, <1>3, OutsideRooms

LEMMA RoomMade ==
    ASSUME HubInv, NEW r \in Rooms, MakeRoom(r)
    PROVE  UNCHANGED <<members, task>> /\ rooms' = rooms \cup {r} /\ rooms' \subseteq Rooms
<1>1. /\ rooms \subseteq Rooms /\ AtWork(r)
      /\ members = [q \in Rooms |-> members[q]] /\ task = [q \in Rooms |-> task[q]]
  BY HubInvParts DEF HubTyped, HubTypeOK
<1>2. CASE r \in rooms
  BY <1>1, <1>2 DEF MakeRoom
<1>3. CASE r \notin rooms
  <2>1. members[r] = {} /\ task[r] = Free
    BY <1>1, <1>3 DEF AtWork
  <2>2. /\ members' = [members EXCEPT ![r] = {}] /\ task' = [task EXCEPT ![r] = Free]
        /\ rooms' = rooms \cup {r}
    BY <1>3 DEF MakeRoom
  <2>3. members' = members
    BY <1>1, <2>1, <2>2
  <2>4. task' = task
    BY <1>1, <2>1, <2>2
  <2> QED
    BY <1>1, <2>2, <2>3, <2>4
<1> QED
  BY <1>2, <1>3

ReaderRecords ==
    [step : {"none", "register", "read", "find", "create", "join", "leave", "unregister", "gone"},
     room : Rooms, wish : {"join", "leave"}]
SenderRecords == [step : {"idle", "find", "create", "send"}, room : Rooms]

\* The types, when nothing changes but readers, senders, connections and the set of rooms.
LEMMA MovesTyped ==
    ASSUME HubTyped, RoomsStay, UNCHANGED leaving, reader' \in [Sockets -> ReaderRecords],
           writer' \in [Sockets -> {"none", "running", "gone"}],
           conn' \in [Sockets -> {"none", "open", "closed"}],
           sender' \in [Senders -> SenderRecords], rooms' \subseteq Rooms, clients' \subseteq Sockets
    PROVE  HubTyped'
BY DEF HubTyped, HubTypeOK, RoomsStay, ReaderRecords, SenderRecords

LEMMA ReaderMoves ==
    ASSUME HubInv, RoomsStay, UNCHANGED <<clients, leaving>>, NEW c \in Sockets,
           NEW x \in ReaderRecords, reader' = [reader EXCEPT ![c] = x],
           x.step \notin {"none", "register", "gone"}, reader[c].step \notin {"none", "register", "gone"},
           writer' = writer, conn' = conn, sender' \in [Senders -> SenderRecords],
           rooms \subseteq rooms', rooms' \subseteq Rooms
    PROVE  HubInv'
<1>1. reader \in [Sockets -> ReaderRecords]
  BY HubInvParts DEF HubTyped, HubTypeOK, ReaderRecords
<1>2. reader' \in [Sockets -> ReaderRecords] /\ reader'[c] = x
      /\ \A d \in Sockets : d # c => reader'[d] = reader[d]
  BY <1>1
<1>3. HubTyped'
  BY <1>2, HubInvParts, MovesTyped DEF HubTyped, HubTypeOK
<1> QED
  BY <1>2, <1>3, ClientMoves

LEMMA ReaderSteps ==
    ASSUME HubInv, NEW c \in Sockets
    PROVE  /\ reader \in [Sockets -> ReaderRecords] /\ sender \in [Senders -> SenderRecords]
           /\ reader[c] \in ReaderRecords /\ reader[c].room \in Rooms
           /\ reader[c].wish \in {"join", "leave"} /\ rooms \subseteq Rooms /\ clients \subseteq Sockets
BY HubInvParts DEF HubTyped, HubTypeOK, ReaderRecords, SenderRecords

LEMMA ReaderGoesTo ==
    ASSUME HubInv, NEW c \in Sockets,
           NEW step \in {"register", "read", "find", "create", "join", "leave", "unregister", "gone"},
           ReaderGoes(c, step)
    PROVE  \E x \in ReaderRecords : reader' = [reader EXCEPT ![c] = x] /\ x.step = step
<1> DEFINE x == [reader[c] EXCEPT !.step = step]
<1>1. x \in ReaderRecords /\ x.step = step
  BY ReaderSteps DEF ReaderRecords
<1>2. reader' = [reader EXCEPT ![c] = x]
  BY DEF ReaderGoes
<1> HIDE DEF x
<1> QED
  BY <1>1, <1>2

LEMMA ReadingKeeps ==
    ASSUME HubInv, NEW c \in Sockets,
           \/ ReadError(c) \/ ReaderFindsRoom(c) \/ ReaderMakesRoom(c)
           \/ \E r \in Rooms : ReadSubscribe(c, r) \/ ReadUnsubscribe(c, r)
    PROVE  HubInv'
<1>1. sender \in [Senders -> SenderRecords] /\ rooms \subseteq Rooms /\ reader[c].room \in Rooms
      /\ reader[c].wish \in {"join", "leave"}
  BY ReaderSteps
<1>2. ASSUME RoomsStay, UNCHANGED <<clients, leaving, writer, conn, sender>>, rooms \subseteq rooms',
             rooms' \subseteq Rooms, reader[c].step \notin {"none", "register", "gone"},
             NEW step \in {"read", "find", "create", "join", "leave", "unregister"},
             ReaderGoes(c, step)
      PROVE  HubInv'
  <2>1. PICK x \in ReaderRecords : reader' = [reader EXCEPT ![c] = x] /\ x.step = step
    BY <1>2, ReaderGoesTo
  <2> QED
    BY <1>1, <1>2, <2>1, ReaderMoves
<1>3. CASE ReadError(c)
  <2>1. /\ RoomsStay /\ UNCHANGED <<clients, leaving, writer, conn, sender, rooms>>
        /\ reader[c].step = "read" /\ ReaderGoes(c, "unregister")
    BY <1>3 DEF ReadError, RoomsStay, hubVars, roomVars
  <2> QED
    BY <1>1, <1>2, <2>1
<1>4. CASE ReaderFindsRoom(c)
  <2>1. /\ RoomsStay /\ UNCHANGED <<clients, leaving, writer, conn, sender, rooms>>
        /\ reader[c].step = "find" /\ ReaderGoes(c, Looked(reader[c].room, reader[c].wish))
    BY <1>4 DEF ReaderFindsRoom, RoomsStay, hubVars, roomVars
  <2>2. Looked(reader[c].room, reader[c].wish) \in {"create", "join", "leave"}
    BY <1>1 DEF Looked
  <2> QED
    BY <1>1, <1>2, <2>1, <2>2
<1>5. CASE ReaderMakesRoom(c)
  <2>1. UNCHANGED <<members, task>> /\ rooms' = rooms \cup {reader[c].room} /\ rooms' \subseteq Rooms
    BY <1>1, <1>5, RoomMade DEF ReaderMakesRoom
  <2>2. /\ RoomsStay /\ UNCHANGED <<clients, leaving, writer, conn, sender>>
        /\ reader[c].step = "create" /\ ReaderGoes(c, reader[c].wish)
    BY <1>5, <2>1 DEF ReaderMakesRoom, RoomsStay
  <2> QED
    BY <1>1, <1>2, <2>1, <2>2
<1>6. ASSUME NEW r \in Rooms, ReadSubscribe(c, r) \/ ReadUnsubscribe(c, r) PROVE HubInv'
  <2>1. /\ RoomsStay /\ UNCHANGED <<clients, leaving, writer, conn, sender, rooms>>
        /\ reader[c].step = "read"
    BY <1>6 DEF ReadSubscribe, ReadUnsubscribe, RoomsStay, hubVars, roomVars
  <2>2. PICK w \in {"join", "leave"} : reader' = [reader EXCEPT ![c] = [step |-> "find", room |-> r, wish |-> w]]
    BY <1>6 DEF ReadSubscribe, ReadUnsubscribe
  <2>3. [step |-> "find", room |-> r, wish |-> w] \in ReaderRecords
    BY DEF ReaderRecords
  <2> QED
    BY <1>1, <2>1, <2>2, <2>3, ReaderMoves
<1> QED
  BY <1>3, <1>4, <1>5, <1>6

LEMMA SendingKeeps ==
    ASSUME HubInv,
           \/ \E s \in Senders : SenderWorks(s) \/ \E r \in Rooms : PublishTo(s, r)
           \/ \E c \in Sockets, s \in Senders : ReadCommand(c, s)
    PROVE  HubInv'
<1>1. /\ sender \in [Senders -> SenderRecords] /\ rooms \subseteq Rooms /\ HubTyped
      /\ reader \in [Sockets -> ReaderRecords]
      /\ writer \in [Sockets -> {"none", "running", "gone"}]
      /\ conn \in [Sockets -> {"none", "open", "closed"}] /\ clients \subseteq Sockets
  BY HubInvParts DEF HubTyped, HubTypeOK, ReaderRecords, SenderRecords
<1>2. ASSUME RoomsStay, UNCHANGED <<clients, leaving, writer, conn, reader>>, rooms \subseteq rooms',
             rooms' \subseteq Rooms, sender' \in [Senders -> SenderRecords]
      PROVE  HubInv'
  <2>1. HubTyped'
    BY <1>1, <1>2, MovesTyped
  <2> QED
    BY <1>2, <2>1, ClientMoves
<1>3. ASSUME NEW s \in Senders, NEW step \in {"create", "send"}, SenderGoes(s, step)
      PROVE  sender' \in [Senders -> SenderRecords]
  BY <1>1, <1>3 DEF SenderGoes, SenderRecords
<1>4. ASSUME NEW s \in Senders, SenderFindsRoom(s) PROVE HubInv'
  <2>1. RoomsStay /\ UNCHANGED <<clients, leaving, writer, conn, reader, rooms>>
    BY <1>4 DEF SenderFindsRoom, RoomsStay, clientVars, hubVars, roomVars
  <2>2. sender' \in [Senders -> SenderRecords]
    BY <1>3, <1>4 DEF SenderFindsRoom, Looked
  <2> QED
    BY <1>1, <1>2, <2>1, <2>2
<1>5. ASSUME NEW s \in Senders, SenderMakesRoom(s) PROVE HubInv'
  <2>1. sender[s].room \in Rooms
    BY <1>1 DEF SenderRecords
  <2>2. UNCHANGED <<members, task>> /\ rooms' = rooms \cup {sender[s].room} /\ rooms' \subseteq Rooms
    BY <1>5, <2>1, RoomMade DEF SenderMakesRoom
  <2>3. RoomsStay /\ UNCHANGED <<clients, leaving, writer, conn, reader>>
    BY <1>5, <2>2 DEF SenderMakesRoom, RoomsStay, clientVars
  <2>4. sender' \in [Senders -> SenderRecords]
    BY <1>3, <1>5 DEF SenderMakesRoom
  <2> QED
    BY <1>2, <2>2, <2>3, <2>4
<1>6. ASSUME NEW s \in Senders, NEW r \in Rooms,
             PublishTo(s, r) \/ (r = "gamelog" /\ \E c \in Sockets : ReadCommand(c, s))
      PROVE  HubInv'
  <2>1. RoomsStay /\ UNCHANGED <<clients, leaving, writer, conn, reader, rooms>>
    BY <1>6 DEF PublishTo, ReadCommand, RoomsStay, clientVars, hubVars, roomVars
  <2>2. sender' = [sender EXCEPT ![s] = [step |-> "find", room |-> r]]
    BY <1>6 DEF PublishTo, ReadCommand
  <2>3. sender' \in [Senders -> SenderRecords]
    BY <1>1, <2>2 DEF SenderRecords
  <2> QED
    BY <1>1, <1>2, <2>1, <2>3
<1> QED
  BY <1>4, <1>5, <1>6, HubConstants DEF SenderWorks

\* What happens to a connection before its client is in the hub, and to an open one.
LEMMA ConnectionKeeps ==
    ASSUME HubInv, NEW c \in Sockets,
           ServeWs(c) \/ Disconnect(c) \/ WriteError(c) \/ HubRegisters(c)
    PROVE  HubInv'
<1>1. /\ sender \in [Senders -> SenderRecords] /\ rooms \subseteq Rooms /\ HubTyped
      /\ reader \in [Sockets -> ReaderRecords]
      /\ writer \in [Sockets -> {"none", "running", "gone"}]
      /\ conn \in [Sockets -> {"none", "open", "closed"}] /\ clients \subseteq Sockets
  BY HubInvParts DEF HubTyped, HubTypeOK, ReaderRecords, SenderRecords
<1>2. /\ RoomsStay /\ UNCHANGED <<leaving, sender, rooms>>
      /\ writer' \in [Sockets -> {"none", "running", "gone"}]
      /\ conn' \in [Sockets -> {"none", "open", "closed"}]
      /\ clients \subseteq clients' /\ clients' \subseteq Sockets
  BY <1>1 DEF ServeWs, Disconnect, WriteError, HubRegisters, RoomsStay, hubVars, roomVars
<1>3. CASE Disconnect(c) \/ WriteError(c)
  <2>1. UNCHANGED <<reader, clients>>
    BY <1>3 DEF Disconnect, WriteError, hubVars
  <2>2. HubTyped'
    BY <1>1, <1>2, <2>1, MovesTyped
  <2> QED
    BY <1>2, <2>1, <2>2, ClientMoves
<1>4. CASE ServeWs(c)
  <2>1. /\ reader[c].step = "none" /\ ReaderGoes(c, "register") /\ UNCHANGED clients
    BY <1>4 DEF ServeWs, hubVars
  <2>2. PICK x \in ReaderRecords : reader' = [reader EXCEPT ![c] = x] /\ x.step = "register"
    BY <2>1, ReaderGoesTo
  <2>3. /\ reader' \in [Sockets -> ReaderRecords] /\ reader'[c].step = "register"
        /\ \A d \in Sockets : d # c => reader'[d] = reader[d]
    BY <1>1, <2>2
  <2>4. HubTyped'
    BY <1>1, <1>2, <2>3, MovesTyped
  <2> QED
    BY <1>2, <2>1, <2>3, <2>4, ClientMoves
<1>5. CASE HubRegisters(c)
  <2>1. reader[c].step = "register" /\ ReaderGoes(c, "read") /\ clients' = clients \cup {c}
    BY <1>5 DEF HubRegisters
  <2>2. PICK x \in ReaderRecords : reader' = [reader EXCEPT ![c] = x] /\ x.step = "read"
    BY <2>1, ReaderGoesTo
  <2>3. /\ reader' \in [Sockets -> ReaderRecords] /\ reader'[c].step = "read"
        /\ \A d \in Sockets : d # c => reader'[d] = reader[d]
    BY <1>1, <2>2
  <2>4. HubTyped'
    BY <1>1, <1>2, <2>3, MovesTyped
  <2>5. UNCHANGED <<members, task, sent, cache, heard, queue, capable, limit>>
    BY <1>2 DEF RoomsStay
  <2>6. ASSUME NEW d \in Sockets PROVE Known(d)' /\ NothingNew(d)'
    <3>1. Known(d) /\ NothingNew(d)
      BY HubInvParts
    <3>2. NothingNew(d)'
      BY <2>5, <3>1 DEF NothingNew
    <3>5. UNCHANGED <<leaving, members, task>>
      BY <1>2, <2>5
    <3>3. CASE d = c
      <4>1. leaving'.client # c /\ c \in clients' /\ reader'[c].step = "read"
        BY <2>1, <2>3, <3>1, <3>3, <3>5 DEF Known
      <4> QED
        BY <3>2, <3>3, <4>1 DEF Known
    <3>4. CASE d # c
      <4>1. reader'[d] = reader[d] /\ (d \in clients => d \in clients')
        BY <1>2, <2>3, <3>4
      <4> QED
        BY <3>1, <3>2, <3>5, <4>1, KnownStays
    <3> QED
      BY <3>2, <3>3, <3>4
  <2> QED
    BY <1>2, <2>4, <2>5, <2>6, OutsideRooms
<1> QED
  BY <1>3, <1>4, <1>5

\* Revoked, the client has, of the log, lines that are no newer than the last one.
LEMMA RevokeKeeps == ASSUME HubInv, NEW c \in Sockets, Revoke(c) PROVE HubInv'
<1>1. /\ UNCHANGED <<members, task, sent, cache, heard, queue, reader, writer, conn, clients, leaving,
                     rooms, sender>>
      /\ capable' = [capable EXCEPT ![c] = FALSE] /\ limit' = [limit EXCEPT ![c] = sent["gamelog"]]
  BY DEF Revoke, hubVars, roomVars
<1>2. /\ HubTyped /\ capable \in [Sockets -> BOOLEAN] /\ limit \in [Sockets -> Nat]
      /\ sent["gamelog"] \in Nat
  BY HubInvParts, HubConstants DEF HubTyped, HubTypeOK
<1>3. /\ capable' \in [Sockets -> BOOLEAN] /\ limit' \in [Sockets -> Nat]
      /\ limit'[c] = sent["gamelog"]
      /\ \A d \in Sockets : d # c => capable'[d] = capable[d] /\ limit'[d] = limit[d]
  BY <1>1, <1>2
<1>4. HubTyped'
  BY <1>1, <1>2, <1>3 DEF HubTyped, HubTypeOK
<1>5. ASSUME NEW d \in Sockets PROVE Known(d)' /\ NothingNew(d)'
  <2>1. Known(d) /\ NothingNew(d)
    BY HubInvParts
  <2>2. Known(d)'
    BY <1>1, <2>1, KnownStays
  <2>3. NothingNew(d)'
    BY <1>1, <1>2, <1>3, <2>1 DEF NothingNew
  <2> QED
    BY <2>2, <2>3
<1> QED
  BY <1>1, <1>4, <1>5, OutsideRooms

LEMMA WriteKeeps == ASSUME HubInv, NEW c \in Sockets, WriteMessage(c) PROVE HubInv'
<1>1. /\ UNCHANGED <<members, task, sent, cache, heard, reader, writer, conn, clients, leaving,
                     rooms, sender, capable, limit>>
      /\ queue[c] # <<>> /\ queue' = [queue EXCEPT ![c] = Tail(queue[c])]
  BY DEF WriteMessage, hubVars, roomVars
<1>2. /\ HubTyped /\ queue \in [Sockets -> Seq(Rooms \X Nat)] /\ Capacity \in Nat
      /\ queue[c] \in Seq(Rooms \X Nat) /\ \A d \in Sockets : Len(queue[d]) <= Capacity
  BY HubInvParts, HubConstants DEF HubTyped, HubTypeOK
<1>3. /\ Tail(queue[c]) \in Seq(Rooms \X Nat) /\ Len(Tail(queue[c])) = Len(queue[c]) - 1
      /\ \A i \in 1..Len(queue[c]) - 1 : Tail(queue[c])[i] = queue[c][i + 1]
      /\ Len(queue[c]) \in Nat
  BY <1>1, <1>2
<1>4. /\ queue' \in [Sockets -> Seq(Rooms \X Nat)] /\ queue'[c] = Tail(queue[c])
      /\ \A d \in Sockets : d # c => queue'[d] = queue[d]
  BY <1>1, <1>2, <1>3
<1>5. HubTyped'
  <2>1. ASSUME NEW d \in Sockets PROVE Len(queue'[d]) <= Capacity
    BY <1>2, <1>3, <1>4
  <2> QED
    BY <1>1, <1>2, <1>4, <2>1 DEF HubTyped, HubTypeOK
<1>6. ASSUME NEW d \in Sockets PROVE Known(d)' /\ NothingNew(d)'
  <2>1. Known(d) /\ NothingNew(d)
    BY HubInvParts
  <2>2. Known(d)'
    BY <1>1, <2>1, KnownStays
  <2>5. UNCHANGED <<capable, limit, sent, task>>
    BY <1>1
  <2>3. CASE d # c
    <3>1. sent'["gamelog"] >= sent["gamelog"]
      BY <2>5, HubConstants, <1>2 DEF HubTyped
    <3>2. queue'[d] = queue[d]
      BY <1>4, <2>3
    <3> QED
      BY <1>2, <1>5, <2>1, <2>2, <2>5, <3>1, <3>2, NothingNewStays
  <2>4. CASE d = c
    <3>1. ASSUME NEW i \in 1..Len(queue'[c])
          PROVE  i + 1 \in 1..Len(queue[c]) /\ queue'[c][i] = queue[c][i + 1]
      BY <1>3, <1>4
    <3>2. \A i \in 1..Len(queue'[c]) : queue'[c][i][1] = "gamelog" =>
             queue'[c][i][2] <= sent["gamelog"] /\ (~capable[c] => queue'[c][i][2] <= limit[c])
      BY <2>1, <2>4, <3>1 DEF NothingNew
    <3>3. \A i \in 1..Len(queue'[c]) : queue'[c][i][1] = "gamelog" =>
             queue'[c][i][2] <= sent'["gamelog"] /\ (~capable'[c] => queue'[c][i][2] <= limit'[c])
      BY <2>5, <3>2
    <3> QED
      BY <2>1, <2>2, <2>4, <2>5, <3>3 DEF NothingNew
  <2> QED
    BY <2>2, <2>3, <2>4
<1> QED
  BY <1>1, <1>5, <1>6, OutsideRooms

\* A client that leaves will be forgotten by every room that there is; a room made later
\* has nobody.
LEMMA UnregisterKeeps == ASSUME HubInv, NEW c \in Sockets, HubUnregisters(c) PROVE HubInv'
<1>1. /\ RoomsStay /\ UNCHANGED <<writer, rooms, sender>> /\ leaving.client = NoSocket
      /\ reader[c].step = "unregister" /\ ReaderGoes(c, "gone")
      /\ conn' = [conn EXCEPT ![c] = "closed"]
  BY DEF HubUnregisters, HubFree, RoomsStay, roomVars
<1>2. /\ sender \in [Senders -> SenderRecords] /\ rooms \subseteq Rooms /\ HubTyped
      /\ reader \in [Sockets -> ReaderRecords] /\ c # NoSocket
      /\ writer \in [Sockets -> {"none", "running", "gone"}]
      /\ conn \in [Sockets -> {"none", "open", "closed"}] /\ clients \subseteq Sockets
  BY HubInvParts, HubConstants DEF HubTyped, HubTypeOK, ReaderRecords, SenderRecords
<1>3. c \in clients
  BY <1>1, HubInvParts DEF Known
<1>4. leaving' = [client |-> c, todo |-> rooms] /\ clients' = clients \ {c}
  BY <1>3 DEF HubUnregisters
<1>5. PICK x \in ReaderRecords : reader' = [reader EXCEPT ![c] = x] /\ x.step = "gone"
  BY <1>1, ReaderGoesTo
<1>6. /\ reader' \in [Sockets -> ReaderRecords] /\ reader'[c].step = "gone"
      /\ \A d \in Sockets : d # c => reader'[d] = reader[d]
      /\ conn' \in [Sockets -> {"none", "open", "closed"}]
  BY <1>1, <1>2, <1>5
<1>7. UNCHANGED <<members, task, sent, cache, heard, queue, capable, limit>>
  BY <1>1 DEF RoomsStay
<1>8. HubTyped'
  <2>1. leaving' \in [client : Sockets \cup {NoSocket}, todo : SUBSET Rooms]
    BY <1>2, <1>4
  <2> QED
    BY <1>1, <1>2, <1>4, <1>6, <1>7, <2>1 DEF HubTyped, HubTypeOK, ReaderRecords, SenderRecords
<1>9. ASSUME NEW d \in Sockets PROVE Known(d)' /\ NothingNew(d)'
  <2>1. Known(d) /\ NothingNew(d) /\ d # NoSocket
    BY HubInvParts, HubConstants
  <2>2. NothingNew(d)'
    BY <1>7, <2>1 DEF NothingNew
  <2>3. leaving'.client = c /\ leaving'.todo = rooms
    BY <1>4
  <2>4. CASE d = c
    <3>1. \A r \in Rooms : c \in members[r] \cup {task[r].client} => r \in rooms
      BY <1>2, HubInvParts DEF AtWork, Free
    <3>2. \A r \in Rooms : c \in members'[r] \cup {task'[r].client} =>
             leaving'.client = c /\ r \in leaving'.todo
      BY <1>7, <2>3, <3>1
    <3> QED
      BY <1>6, <2>2, <2>4, <3>2 DEF Known
  <2>5. CASE d # c
    <3>1. d \in clients => d \in clients'
      BY <1>4, <2>5
    <3>2. reader[d].step = "gone" => \A r \in Rooms : d \notin members[r] \cup {task[r].client}
      BY <1>1, <2>1 DEF Known
    <3>3. reader'[d] = reader[d] /\ leaving'.client # d /\ UNCHANGED <<members, task>>
      BY <1>6, <1>7, <2>3, <2>5
    <3> QED
      BY <2>1, <2>2, <3>1, <3>2, <3>3 DEF Known
  <2> QED
    BY <2>2, <2>4, <2>5
<1> QED
  BY <1>1, <1>7, <1>8, <1>9, OutsideRooms

LEMMA ForgotKeeps == ASSUME HubInv, HubForgot PROVE HubInv'
<1>1. /\ UNCHANGED <<clientVars, clients, rooms, roomVars, sender>> /\ leaving.todo = {}
      /\ leaving' = [leaving EXCEPT !.client = NoSocket]
  BY DEF HubForgot
<1>2. /\ HubTyped /\ leaving \in [client : Sockets \cup {NoSocket}, todo : SUBSET Rooms]
  BY HubInvParts DEF HubTyped, HubTypeOK
<1>3. /\ leaving' \in [client : Sockets \cup {NoSocket}, todo : SUBSET Rooms]
      /\ leaving'.client = NoSocket
  BY <1>1, <1>2
<1>4. HubTyped'
  BY <1>1, <1>2, <1>3 DEF HubTyped, HubTypeOK, clientVars, roomVars
<1>5. ASSUME NEW d \in Sockets PROVE Known(d)' /\ NothingNew(d)'
  <2>1. Known(d) /\ NothingNew(d) /\ d # NoSocket
    BY HubInvParts, HubConstants
  <2>2. NothingNew(d)'
    BY <1>1, <2>1 DEF NothingNew, clientVars, roomVars
  <2>3. Known(d)'
    BY <1>1, <1>3, <2>1 DEF Known, clientVars, roomVars
  <2> QED
    BY <2>2, <2>3
<1> QED
  BY <1>1, <1>4, <1>5, OutsideRooms DEF clientVars, roomVars

-----------------------------------------------------------------------------
(* The rooms.                                                              *)

TaskRecords == [kind : {"select", "admit", "replay", "deliver", "queue"},
                client : Sockets \cup {NoSocket}, todo : SUBSET Sockets, next : Nat]

LEMMA RoomTypes ==
    ASSUME HubTyped
    PROVE  /\ task \in [Rooms -> TaskRecords] /\ members \in [Rooms -> SUBSET Sockets]
           /\ heard \in [Sockets -> [Rooms -> Lines]]
           /\ queue \in [Sockets -> Seq(Rooms \X Nat)]
           /\ \A c \in Sockets : Len(queue[c]) <= Capacity
           /\ sent \in [Rooms -> Nat] /\ \A r \in Rooms : sent[r] \in 0..MaxMessages[r]
           /\ cache \in Lines /\ Len(cache) <= CacheSize
           /\ reader \in [Sockets -> ReaderRecords] /\ sender \in [Senders -> SenderRecords]
           /\ leaving \in [client : Sockets \cup {NoSocket}, todo : SUBSET Rooms]
           /\ rooms \subseteq Rooms
           /\ Free \in TaskRecords /\ Free.kind = "select" /\ Free.client = NoSocket
           /\ Free.todo = {} /\ Free.next = 1 /\ "gamelog" \in Rooms /\ NoSocket \notin Sockets
BY HubConstants DEF HubTyped, HubTypeOK, TaskRecords, ReaderRecords, SenderRecords, Free

LEMMA RoomStepTyped ==
    ASSUME HubTyped, UNCHANGED <<capable, writer, conn, limit, clients, rooms>>,
           reader' \in [Sockets -> ReaderRecords], sender' \in [Senders -> SenderRecords],
           leaving' \in [client : Sockets \cup {NoSocket}, todo : SUBSET Rooms],
           task' \in [Rooms -> TaskRecords], members' \in [Rooms -> SUBSET Sockets],
           heard' \in [Sockets -> [Rooms -> Lines]], queue' \in [Sockets -> Seq(Rooms \X Nat)],
           \A c \in Sockets : Len(queue'[c]) <= Capacity,
           sent' \in [Rooms -> Nat], \A r \in Rooms : sent'[r] \in 0..MaxMessages[r],
           cache' \in Lines, Len(cache') <= CacheSize
    PROVE  HubTyped'
BY DEF HubTyped, HubTypeOK, TaskRecords, ReaderRecords, SenderRecords

LEMMA TaskSet ==
    ASSUME HubTyped, NEW r \in Rooms, NEW t \in TaskRecords, task' = [task EXCEPT ![r] = t]
    PROVE  /\ task' \in [Rooms -> TaskRecords] /\ task'[r] = t
           /\ \A q \in Rooms : q # r => task'[q] = task[q]
BY RoomTypes

LEMMA Forgotten ==
    ASSUME HubTyped, NEW r \in Rooms, NEW c \in Sockets, Forget(r, c)
    PROVE  /\ members' \in [Rooms -> SUBSET Sockets] /\ members'[r] = members[r] \ {c}
           /\ \A q \in Rooms : q # r => members'[q] = members[q]
           /\ heard' \in [Sockets -> [Rooms -> Lines]] /\ heard'[c][r] = <<>>
           /\ \A d \in Sockets, q \in Rooms : d # c \/ q # r => heard'[d][q] = heard[d][q]
<1>1. members' = [members EXCEPT ![r] = members[r] \ {c}] /\ heard' = [heard EXCEPT ![c][r] = <<>>]
  BY DEF Forget
<1>2. /\ members \in [Rooms -> SUBSET Sockets] /\ heard \in [Sockets -> [Rooms -> Lines]]
      /\ <<>> \in Lines
  BY RoomTypes, NoLines
<1> HIDE DEF Lines
<1> QED
  BY <1>1, <1>2

LEMMA Offered ==
    ASSUME HubTyped, NEW r \in Rooms, NEW c \in Sockets, NEW n \in Nat, Offer(r, c, n)
    PROVE  /\ members' \in [Rooms -> SUBSET Sockets] /\ heard' \in [Sockets -> [Rooms -> Lines]]
           /\ queue' \in [Sockets -> Seq(Rooms \X Nat)]
           /\ \A d \in Sockets : Len(queue'[d]) <= Capacity
           /\ \A q \in Rooms : q # r => members'[q] = members[q]
           /\ \A d \in Sockets, q \in Rooms : d # c \/ q # r => heard'[d][q] = heard[d][q]
           /\ \A d \in Sockets : d # c => queue'[d] = queue[d]
           /\ IF Len(queue[c]) < Capacity
              THEN /\ members'[r] = members[r] /\ heard'[c][r] = Append(heard[c][r], n)
                   /\ queue'[c] = Append(queue[c], <<r, n>>)
              ELSE members'[r] = members[r] \ {c} /\ queue'[c] = queue[c]
<1>1. CASE Len(queue[c]) < Capacity
  <2>1. /\ queue' = [queue EXCEPT ![c] = Append(queue[c], <<r, n>>)]
        /\ heard' = [heard EXCEPT ![c][r] = Append(heard[c][r], n)] /\ UNCHANGED members
    BY <1>1 DEF Offer
  <2>2. /\ queue \in [Sockets -> Seq(Rooms \X Nat)] /\ queue[c] \in Seq(Rooms \X Nat)
        /\ heard \in [Sockets -> [Rooms -> Lines]] /\ heard[c][r] \in Lines /\ Capacity \in Nat
        /\ members \in [Rooms -> SUBSET Sockets] /\ \A d \in Sockets : Len(queue[d]) <= Capacity
    BY RoomTypes, HubConstants
  <2>3. Append(heard[c][r], n) \in Lines
    BY <2>2 DEF Lines
  <2>4. /\ Append(queue[c], <<r, n>>) \in Seq(Rooms \X Nat)
        /\ Len(Append(queue[c], <<r, n>>)) = Len(queue[c]) + 1
    BY <2>2
  <2>5. Len(Append(queue[c], <<r, n>>)) <= Capacity
    <3>1. Len(queue[c]) \in Nat
      BY <2>2
    <3> QED
      BY <1>1, <2>2, <2>4, <3>1
  <2> DEFINE line == Append(queue[c], <<r, n>>)
             lines == Append(heard[c][r], n)
  <2> HIDE DEF line, lines, Lines
  <2>6. /\ queue' \in [Sockets -> Seq(Rooms \X Nat)] /\ queue'[c] = line
        /\ \A d \in Sockets : d # c => queue'[d] = queue[d]
    BY <2>1, <2>2, <2>4 DEF line
  <2>7. /\ heard' \in [Sockets -> [Rooms -> Lines]] /\ heard'[c][r] = lines
        /\ \A d \in Sockets, q \in Rooms : d # c \/ q # r => heard'[d][q] = heard[d][q]
    <3>1. heard' = [heard EXCEPT ![c][r] = lines] /\ lines \in Lines
      BY <2>1, <2>3 DEF lines
    <3> QED
      BY <2>2, <3>1
  <2>8. \A d \in Sockets : Len(queue'[d]) <= Capacity
    <3>1. Len(line) <= Capacity
      BY <2>5 DEF line
    <3> QED
      BY <2>2, <2>6, <3>1
  <2> QED
    BY <1>1, <2>1, <2>2, <2>6, <2>7, <2>8 DEF line, lines
<1>2. CASE ~(Len(queue[c]) < Capacity)
  <2>1. Forget(r, c) /\ UNCHANGED queue
    BY <1>2 DEF Offer
  <2> QED
    BY <1>2, <2>1, Forgotten, RoomTypes
<1> QED
  BY <1>1, <1>2

LEMMA MemberStays ==
    ASSUME NEW r \in Rooms, NEW d, HasHeard(d, r), heard'[d][r] = heard[d][r], sent'[r] = sent[r],
           ~Replaying(d, r), ~Replaying(d, r)', Behind(d, r)' <=> Behind(d, r)
    PROVE  HasHeard(d, r)'
BY DEF HasHeard

\* A line that a client may still get.
LEMMA GetsALine ==
    ASSUME HubTyped, NEW r \in Rooms, NEW c \in Sockets, NEW n \in Nat, NothingNew(c),
           queue'[c] = Append(queue[c], <<r, n>>),
           r = "gamelog" => n <= sent["gamelog"] /\ (~capable[c] => n <= limit[c]),
           capable' = capable, limit' = limit, sent'["gamelog"] = sent["gamelog"],
           task'["gamelog"].kind \in {"replay", "queue"} /\ task'["gamelog"].client = c =>
               task["gamelog"].kind \in {"replay", "queue"} /\ task["gamelog"].client = c
    PROVE  NothingNew(c)'
<1>1. queue[c] \in Seq(Rooms \X Nat)
  BY RoomTypes
<1>2. /\ Len(queue'[c]) = Len(queue[c]) + 1 /\ Len(queue[c]) \in Nat
      /\ \A i \in 1..Len(queue[c]) : queue'[c][i] = queue[c][i]
      /\ queue'[c][Len(queue[c]) + 1] = <<r, n>>
  BY <1>1
<1>3. ASSUME NEW i \in 1..Len(queue'[c]), queue'[c][i][1] = "gamelog"
      PROVE  queue'[c][i][2] <= sent["gamelog"] /\ (~capable[c] => queue'[c][i][2] <= limit[c])
  <2>1. CASE i \in 1..Len(queue[c])
    BY <1>2, <1>3, <2>1 DEF NothingNew
  <2>2. CASE i = Len(queue[c]) + 1
    BY <1>2, <1>3, <2>2
  <2> QED
    BY <1>2, <2>1, <2>2
<1>4. task'["gamelog"].kind \in {"replay", "queue"} /\ task'["gamelog"].client = c /\ ~capable[c] =>
         sent["gamelog"] <= limit[c]
  BY DEF NothingNew
<1> QED
  BY <1>3, <1>4 DEF NothingNew

LEMMA JoinKeeps ==
    ASSUME HubInv, NEW r \in Rooms, NEW c \in Sockets, RoomReceivesJoin(r, c) PROVE HubInv'
<1> DEFINE t == [Free EXCEPT !.kind = "admit", !.client = c]
<1>1. /\ UNCHANGED <<capable, writer, conn, queue, heard, limit, clients, leaving, rooms, members,
                     sent, cache, sender>>
      /\ r \in rooms /\ task[r].kind = "select" /\ reader[c].step = "join" /\ ReaderBack(c)
      /\ task' = [task EXCEPT ![r] = t]
  BY DEF RoomReceivesJoin, RoomFree, hubVars
<1>2. HubTyped /\ AtWork(r) /\ \A d \in members[r] : HasHeard(d, r)
  BY HubInvParts
<1>3. /\ t \in TaskRecords /\ t.kind = "admit" /\ t.client = c /\ t.todo = {} /\ t.next = 1
  BY <1>2, RoomTypes DEF TaskRecords
<1> HIDE DEF t
<1>4. /\ task' \in [Rooms -> TaskRecords] /\ task'[r] = t
      /\ \A q \in Rooms : q # r => task'[q] = task[q]
  BY <1>1, <1>2, <1>3, TaskSet
<1>5. /\ reader' \in [Sockets -> ReaderRecords] /\ reader'[c].step = "read"
      /\ \A d \in Sockets : d # c => reader'[d] = reader[d]
  BY <1>1, <1>2, RoomTypes DEF ReaderBack, ReaderRecords
<1>6. HubTyped'
  BY <1>1, <1>2, <1>4, <1>5, RoomTypes, RoomStepTyped
<1>7. task[r] = Free /\ c # NoSocket
  BY <1>1, <1>2, RoomTypes DEF AtWork
<1>8. AtWork(r)'
  BY <1>1, <1>2, <1>3, <1>4, <1>7 DEF AtWork
<1>9. ASSUME NEW d \in members'[r] PROVE HasHeard(d, r)'
  BY <1>1, <1>2, <1>3, <1>4, <1>7, RoomTypes, MemberStays DEF Replaying, Behind
<1>10. r = "gamelog" => Logged'
  BY <1>1, <1>3, <1>4, HubInvParts DEF Logged, Before
<1>11. ASSUME NEW d \in Sockets PROVE Known(d)' /\ NothingNew(d)'
  <2>1. Known(d) /\ NothingNew(d)
    BY HubInvParts
  <2>2. NothingNew(d)'
    BY <1>1, <1>3, <1>4, <2>1, RoomTypes, <1>2 DEF NothingNew
  <2>3. CASE d = c
    <3>1. c \in clients /\ leaving.client # c
      BY <1>1, <2>1, <2>3 DEF Known
    <3> QED
      BY <1>1, <1>5, <2>2, <2>3, <3>1 DEF Known
  <2>4. CASE d # c
    <3>1. \A q \in Rooms : d \in members'[q] \cup {task'[q].client} => d \in members[q] \cup {task[q].client}
      BY <1>1, <1>3, <1>4, <2>4
    <3> QED
      BY <1>1, <1>5, <2>1, <2>2, <2>4, <3>1, KnownStays
  <2> QED
    BY <2>3, <2>4
<1> QED
  BY <1>1, <1>4, <1>6, <1>8, <1>9, <1>10, <1>11, InsideARoom

\* A step of a room that no client, sender nor the hub takes part in.
LEMMA RoomAlone ==
    ASSUME HubInv, NEW r \in Rooms, NEW t \in TaskRecords, task' = [task EXCEPT ![r] = t],
           UNCHANGED <<capable, reader, writer, conn, limit, clients, leaving, rooms, sent, sender>>,
           members' \in [Rooms -> SUBSET Sockets], heard' \in [Sockets -> [Rooms -> Lines]],
           queue' \in [Sockets -> Seq(Rooms \X Nat)], \A d \in Sockets : Len(queue'[d]) <= Capacity,
           \A q \in Rooms : q # r => members'[q] = members[q],
           \A q \in Rooms : q # r => \A d \in Sockets : heard'[d][q] = heard[d][q],
           cache' \in Lines, Len(cache') <= CacheSize, r # "gamelog" => cache' = cache,
           AtWork(r)', \A d \in members'[r] : HasHeard(d, r)', r = "gamelog" => Logged',
           members'[r] \subseteq members[r] \cup {task[r].client},
           t.client \in members[r] \cup {task[r].client, NoSocket},
           \A d \in Sockets : NothingNew(d)'
    PROVE  HubInv'
<1>1. HubTyped
  BY HubInvParts
<1>2. /\ task'[r] = t /\ task' \in [Rooms -> TaskRecords]
      /\ \A q \in Rooms : q # r => task'[q] = task[q]
  BY <1>1, TaskSet
<1>3. HubTyped'
  BY <1>1, <1>2, RoomTypes, RoomStepTyped
<1>4. ASSUME NEW d \in Sockets PROVE Known(d)'
  <2>1. d # NoSocket /\ Known(d)
    BY <1>1, RoomTypes, HubInvParts
  <2>2. \A q \in Rooms : d \in members'[q] \cup {task'[q].client} => d \in members[q] \cup {task[q].client}
    BY <1>2, <2>1
  <2> QED
    BY <2>1, <2>2, KnownStays
<1> QED
  BY <1>2, <1>3, <1>4, InsideARoom

\* What is told to nobody changes nothing for the revoked.
LEMMA NobodyTold ==
    ASSUME HubTyped, NEW r \in Rooms, NEW t \in TaskRecords, task' = [task EXCEPT ![r] = t],
           UNCHANGED <<capable, limit, queue, sent>>, NEW d \in Sockets, NothingNew(d),
           r = "gamelog" /\ t.kind \in {"replay", "queue"} /\ t.client = d /\ ~capable[d] =>
               task[r].kind \in {"replay", "queue"} /\ task[r].client = d
    PROVE  NothingNew(d)'
<1>1. /\ task'[r] = t /\ \A q \in Rooms : q # r => task'[q] = task[q]
  BY TaskSet
<1> QED
  BY <1>1, RoomTypes DEF NothingNew

LEMMA AdmitKeeps == ASSUME HubInv, NEW r \in Rooms, RoomAdmits(r) PROVE HubInv'
<1> DEFINE c == task[r].client
<1>1. /\ UNCHANGED <<capable, reader, writer, conn, queue, limit, clients, leaving, rooms, sent, cache,
                     sender>>
      /\ task[r].kind = "admit"
  BY DEF RoomAdmits, hubVars
<1>2. /\ HubTyped /\ AtWork(r) /\ \A d \in members[r] : HasHeard(d, r)
      /\ members[r] \subseteq Sockets /\ task[r] \in TaskRecords /\ Free \in TaskRecords
  BY HubInvParts, RoomTypes
<1>3. c \in Sockets /\ task[r].todo = {} /\ task[r].next = 1 /\ r \in rooms
  BY <1>1, <1>2, RoomTypes DEF AtWork, TaskRecords, Free
<1>4. CASE ~MaySubscribe(c, r)
  <2>1. task' = [task EXCEPT ![r] = Free] /\ UNCHANGED <<members, heard>>
    BY <1>4 DEF RoomAdmits
  <2>2. task'[r] = Free
    BY <1>2, <2>1, TaskSet
  <2>3. AtWork(r)'
    BY <1>1, <1>2, <1>3, <2>1, <2>2, RoomTypes DEF AtWork
  <2>4. \A d \in members'[r] : HasHeard(d, r)'
    BY <1>1, <1>2, <1>3, <2>1, <2>2, RoomTypes, MemberStays DEF Replaying, Behind
  <2>5. r = "gamelog" => Logged'
    BY <1>1, <1>2, <2>2, HubInvParts, RoomTypes DEF Logged, Before
  <2>6. \A d \in Sockets : NothingNew(d)'
    BY <1>1, <1>2, <2>1, HubInvParts, RoomTypes, NobodyTold
  <2> QED
    BY <1>1, <1>2, <2>1, <2>3, <2>4, <2>5, <2>6, RoomTypes, RoomAlone
<1>5. CASE MaySubscribe(c, r)
  <2> DEFINE t == IF r = "gamelog" THEN [task[r] EXCEPT !.kind = "replay"] ELSE Free
  <2>1. /\ members' = [members EXCEPT ![r] = members[r] \cup {c}]
        /\ heard' = [heard EXCEPT ![c][r] = <<>>] /\ task' = [task EXCEPT ![r] = t]
    BY <1>5 DEF RoomAdmits
  <2>2. /\ t \in TaskRecords /\ t.todo = {} /\ t.next = 1
        /\ r = "gamelog" => t.kind = "replay" /\ t.client = c
        /\ r # "gamelog" => t = Free
    BY <1>2, <1>3, RoomTypes DEF TaskRecords
  <2> HIDE DEF t
  <2>3. task'[r] = t
    BY <1>2, <2>1, <2>2, TaskSet
  <2>4. /\ members' \in [Rooms -> SUBSET Sockets] /\ members'[r] = members[r] \cup {c}
        /\ \A q \in Rooms : q # r => members'[q] = members[q]
    BY <1>2, <1>3, <2>1, RoomTypes
  <2>5. /\ heard' \in [Sockets -> [Rooms -> Lines]] /\ heard'[c][r] = <<>>
        /\ \A d \in Sockets, q \in Rooms : d # c \/ q # r => heard'[d][q] = heard[d][q]
    <3>1. heard \in [Sockets -> [Rooms -> Lines]] /\ <<>> \in Lines
      BY <1>2, RoomTypes, NoLines
    <3> HIDE DEF Lines
    <3> QED
      BY <1>3, <2>1, <3>1
  <2>6. AtWork(r)'
    <3>1. 1 \in 1..Len(cache) + 1
      BY <1>2, RoomTypes DEF Lines
    <3>2. CASE r = "gamelog"
      <4>1. /\ task'[r].kind = "replay" /\ task'[r].client = c /\ task'[r].todo = {}
            /\ task'[r].next = 1 /\ c \in members'[r] /\ c # NoSocket /\ r \in rooms' /\ cache' = cache
        BY <1>1, <1>2, <1>3, <2>2, <2>3, <2>4, <3>2, RoomTypes
      <4> QED
        BY <3>1, <3>2, <4>1 DEF AtWork
    <3>3. CASE r # "gamelog"
      <4>1. task'[r] = Free /\ r \in rooms'
        BY <1>1, <1>3, <2>2, <2>3, <3>3
      <4> QED
        BY <1>2, <4>1, RoomTypes DEF AtWork
    <3> QED
      BY <3>2, <3>3
  <2>7. ASSUME NEW d \in members'[r] PROVE HasHeard(d, r)'
    <3>1. ~Behind(d, r) /\ ~Behind(d, r)' /\ ~Replaying(d, r) /\ (Replaying(d, r)' <=> r = "gamelog" /\ d = c)
      BY <1>1, <1>2, <1>3, <2>2, <2>3, RoomTypes DEF Behind, Replaying
    <3>2. CASE d = c
      BY <1>1, <2>2, <2>3, <2>5, <3>1, <3>2, NoLines DEF HasHeard
    <3>3. CASE d # c
      <4>1. d \in members[r] /\ d \in Sockets
        BY <1>2, <2>4, <2>7, <3>3
      <4> QED
        BY <1>1, <1>2, <2>5, <3>1, <3>3, <4>1, MemberStays
    <3> QED
      BY <3>2, <3>3
  <2>8. r = "gamelog" => Logged'
    BY <1>1, <2>2, <2>3, HubInvParts DEF Logged, Before
  <2>9. ASSUME NEW d \in Sockets PROVE NothingNew(d)'
    <3>1. NothingNew(d)
      BY HubInvParts
    <3>2. r = "gamelog" /\ t.client = d => capable[d]
      BY <1>5, <2>2 DEF MaySubscribe
    <3> QED
      BY <1>1, <1>2, <2>1, <2>2, <3>1, <3>2, NobodyTold
  <2>10. t.client \in members[r] \cup {task[r].client, NoSocket}
    BY <2>2, RoomTypes, <1>2
  <2> QED
    BY <1>1, <1>2, <2>1, <2>2, <2>4, <2>5, <2>6, <2>7, <2>8, <2>9, <2>10, RoomTypes, RoomAlone
<1> QED
  BY <1>4, <1>5

LEMMA ReplayKeeps == ASSUME HubInv, NEW r \in Rooms, RoomReplays(r) PROVE HubInv'
<1> DEFINE c == task[r].client
           k == task[r].next
<1>1. /\ UNCHANGED <<capable, reader, writer, conn, limit, clients, leaving, rooms, sent, cache, sender>>
      /\ task[r].kind = "replay"
  BY DEF RoomReplays, hubVars
<1>2. /\ HubTyped /\ AtWork(r) /\ \A d \in members[r] : HasHeard(d, r)
      /\ members[r] \subseteq Sockets /\ task[r] \in TaskRecords /\ Free \in TaskRecords
      /\ cache \in Lines /\ Logged
  BY HubInvParts, RoomTypes
<1>3. /\ c \in Sockets /\ c \in members[r] /\ r = "gamelog" /\ k \in 1..Len(cache) + 1
      /\ task[r].todo = {} /\ r \in rooms
  BY <1>1, <1>2, RoomTypes DEF AtWork, Free
<1>4. /\ Consecutive(heard[c][r]) /\ Len(heard[c][r]) = k - 1 /\ heard[c][r] \in Lines
      /\ \A i \in 1..Len(heard[c][r]) : heard[c][r][i] = cache[i]
  BY <1>1, <1>2, <1>3, RoomTypes DEF HasHeard, Replaying
<1>5. Before(r) = sent[r] /\ \A d \in members[r] : ~Behind(d, r) /\ (Replaying(d, r) <=> d = c)
  BY <1>1, <1>3 DEF Before, Behind, Replaying
<1>6. \A d \in Sockets : NothingNew(d)
  BY HubInvParts
<1>7. CASE k > Len(cache)
  <2>1. task' = [task EXCEPT ![r] = Free] /\ UNCHANGED <<queue, heard, members>>
    BY <1>7 DEF RoomReplays
  <2>2. task'[r] = Free
    BY <1>2, <2>1, TaskSet
  <2>3. AtWork(r)'
    BY <1>1, <1>2, <1>3, <2>1, <2>2, RoomTypes DEF AtWork
  <2>4. ASSUME NEW d \in members'[r] PROVE HasHeard(d, r)'
    <3>1. ~Behind(d, r)' /\ ~Replaying(d, r)'
      BY <1>2, <2>1, <2>2, <2>4, RoomTypes DEF Behind, Replaying
    <3>2. CASE d # c
      BY <1>1, <1>2, <1>5, <2>1, <2>4, <3>1, <3>2, MemberStays
    <3>3. CASE d = c
      <4>1. Len(heard[c][r]) = Len(cache) /\ Len(cache) \in Nat
        BY <1>2, <1>3, <1>4, <1>7 DEF Lines
      <4>2. cache = <<>> => heard[c][r] = <<>>
        BY <1>4, <4>1, NoLines DEF Lines
      <4>3. heard[c][r] # <<>> => cache # <<>> /\ heard[c][r][Len(heard[c][r])] = cache[Len(cache)]
        BY <1>2, <1>4, <4>1, NoLines DEF Lines
      <4>4. EndsWith(heard[c][r], sent[r]) /\ (sent[r] > 0 => heard[c][r] # <<>>)
        <5>1. sent[r] > 0 => cache # <<>> /\ heard[c][r] # <<>>
          BY <1>2, <1>3, <1>5, <4>1, NoLines DEF Logged, Lines
        <5>2. cache # <<>> => cache[Len(cache)] = sent[r]
          BY <1>2, <1>3, <1>5 DEF Logged, EndsWith
        <5> QED
          BY <4>3, <5>1, <5>2 DEF EndsWith
      <4> QED
        BY <1>1, <1>4, <2>1, <3>1, <3>3, <4>4 DEF HasHeard
    <3> QED
      BY <3>2, <3>3
  <2>5. Logged'
    BY <1>1, <1>2, <1>3, <1>5, <2>2, RoomTypes DEF Logged, Before
  <2>6. \A d \in Sockets : NothingNew(d)'
    BY <1>1, <1>2, <1>6, <2>1, RoomTypes, NobodyTold
  <2> QED
    BY <1>1, <1>2, <2>1, <2>3, <2>4, <2>5, <2>6, RoomTypes, RoomAlone
<1>8. CASE ~(k > Len(cache))
  <2> DEFINE n == cache[k]
             t == IF Len(queue[c]) < Capacity THEN [task[r] EXCEPT !.next = k + 1] ELSE Free
  <2>1. Offer(r, c, n) /\ task' = [task EXCEPT ![r] = t]
    <3>1. /\ Offer(r, task[r].client, cache[task[r].next])
          /\ task' = [task EXCEPT ![r] = IF Len(queue[task[r].client]) < Capacity
                                         THEN [task[r] EXCEPT !.next = task[r].next + 1] ELSE Free]
      BY <1>8 DEF RoomReplays
    <3> QED
      BY <3>1
  <2>2. /\ n \in Nat /\ k \in 1..Len(cache) /\ n <= sent[r]
    BY <1>2, <1>3, <1>8 DEF Lines, Logged
  <2>3. /\ t \in TaskRecords /\ t.todo = {} /\ t.client \in {c, NoSocket}
        /\ Len(queue[c]) < Capacity => t.kind = "replay" /\ t.client = c /\ t.next = k + 1
        /\ ~(Len(queue[c]) < Capacity) => t = Free
    <3>1. k + 1 \in Nat
      BY <1>2, <2>2 DEF Lines
    <3>2. /\ [task[r] EXCEPT !.next = k + 1] \in TaskRecords
          /\ [task[r] EXCEPT !.next = k + 1].kind = task[r].kind
          /\ [task[r] EXCEPT !.next = k + 1].todo = task[r].todo
          /\ [task[r] EXCEPT !.next = k + 1].client = task[r].client
          /\ [task[r] EXCEPT !.next = k + 1].next = k + 1
      BY <1>2, <3>1 DEF TaskRecords
    <3>3. /\ Len(queue[c]) < Capacity => t = [task[r] EXCEPT !.next = k + 1]
          /\ ~(Len(queue[c]) < Capacity) => t = Free
      OBVIOUS
    <3> HIDE DEF t
    <3> QED
      BY <1>1, <1>2, <1>3, <3>2, <3>3, RoomTypes
  <2>4. n = cache[k]
    OBVIOUS
  <2> HIDE DEF t, n
  <2>5. task'[r] = t
    BY <1>2, <2>1, <2>3, TaskSet
  <2>6. /\ members' \in [Rooms -> SUBSET Sockets] /\ heard' \in [Sockets -> [Rooms -> Lines]]
        /\ queue' \in [Sockets -> Seq(Rooms \X Nat)]
        /\ \A d \in Sockets : Len(queue'[d]) <= Capacity
        /\ \A q \in Rooms : q # r => members'[q] = members[q]
        /\ \A d \in Sockets, q \in Rooms : d # c \/ q # r => heard'[d][q] = heard[d][q]
        /\ \A d \in Sockets : d # c => queue'[d] = queue[d]
        /\ IF Len(queue[c]) < Capacity
           THEN /\ members'[r] = members[r] /\ heard'[c][r] = Append(heard[c][r], n)
                /\ queue'[c] = Append(queue[c], <<r, n>>)
           ELSE members'[r] = members[r] \ {c} /\ queue'[c] = queue[c]
    BY <1>2, <1>3, <2>1, <2>2, Offered
  <2>7. members'[r] \subseteq members[r]
    BY <2>6
  <2>8. AtWork(r)'
    <3>1. CASE Len(queue[c]) < Capacity
      <4>1. /\ task'[r].kind = "replay" /\ task'[r].client = c /\ task'[r].todo = {}
            /\ task'[r].next = k + 1 /\ c \in members'[r] /\ c # NoSocket /\ r \in rooms' /\ cache' = cache
        BY <1>1, <1>2, <1>3, <2>3, <2>5, <2>6, <3>1, RoomTypes
      <4>2. k + 1 \in 1..Len(cache) + 1
        BY <1>2, <2>2 DEF Lines
      <4> QED
        BY <1>3, <4>1, <4>2 DEF AtWork
    <3>2. CASE ~(Len(queue[c]) < Capacity)
      <4>1. task'[r] = Free /\ r \in rooms'
        BY <1>1, <1>3, <2>3, <2>5, <3>2
      <4> QED
        BY <1>2, <4>1, RoomTypes DEF AtWork
    <3> QED
      BY <3>1, <3>2
  <2>9. ASSUME NEW d \in members'[r] PROVE HasHeard(d, r)'
    <3>1. d \in members[r] /\ d \in Sockets /\ HasHeard(d, r)
      BY <1>2, <2>7, <2>9
    <3>2. ~Behind(d, r)' /\ (Replaying(d, r)' => d = c)
      BY <2>3, <2>5, <3>1, <1>2, RoomTypes DEF Behind, Replaying
    <3>3. CASE d # c
      BY <1>1, <1>5, <2>6, <3>1, <3>2, <3>3, MemberStays
    <3>4. CASE d = c
      <4>1. /\ Len(queue[c]) < Capacity /\ Replaying(d, r)'
            /\ heard'[c][r] = Append(heard[c][r], n) /\ task'[r].next = k + 1
        BY <2>3, <2>5, <2>6, <2>9, <3>4 DEF Replaying
      <4>2. EndsWith(heard[c][r], n - 1)
        <5>1. ASSUME heard[c][r] # <<>> PROVE k > 1 /\ heard[c][r][k - 1] = cache[k - 1]
          BY <1>3, <1>4, <5>1 DEF Lines
        <5>2. k > 1 => cache[k] = cache[k - 1] + 1 /\ cache[k - 1] \in Nat
          <6>1. k > 1 => k - 1 \in 1..Len(cache) - 1
            BY <1>2, <2>2 DEF Lines
          <6> QED
            BY <1>2, <2>2, <6>1 DEF Logged, Consecutive, Lines
        <5> QED
          BY <1>4, <2>4, <5>1, <5>2 DEF EndsWith
      <4>3. /\ Consecutive(heard'[c][r]) /\ Len(heard'[c][r]) = Len(heard[c][r]) + 1
            /\ \A i \in 1..Len(heard[c][r]) : heard'[c][r][i] = heard[c][r][i]
            /\ heard'[c][r][Len(heard[c][r]) + 1] = n
        <5>1. /\ Consecutive(Append(heard[c][r], n))
              /\ Len(Append(heard[c][r], n)) = Len(heard[c][r]) + 1
              /\ \A i \in 1..Len(heard[c][r]) : Append(heard[c][r], n)[i] = heard[c][r][i]
              /\ Append(heard[c][r], n)[Len(heard[c][r]) + 1] = n
          BY <1>4, <2>2, <4>2, OneMore
        <5> QED
          BY <4>1, <5>1
      <4>4. Len(heard'[c][r]) = k /\ \A i \in 1..Len(heard'[c][r]) : heard'[c][r][i] = cache[i]
        <5>1. Len(heard'[c][r]) = k /\ Len(heard[c][r]) + 1 = k
          BY <1>3, <1>4, <2>2, <4>3
        <5>2. ASSUME NEW i \in 1..k PROVE heard'[c][r][i] = cache[i]
          <6>1. CASE i = k
            BY <2>4, <4>3, <5>1, <6>1
          <6>2. CASE i # k
            <7>1. i \in 1..Len(heard[c][r])
              BY <1>4, <5>1, <5>2, <6>2 DEF Lines
            <7> QED
              BY <1>4, <4>3, <7>1
          <6> QED
            BY <6>1, <6>2
        <5> QED
          BY <5>1, <5>2
      <4>5. task'[r].next - 1 = k
        BY <2>2, <4>1
      <4> QED
        BY <1>1, <3>2, <3>4, <4>1, <4>3, <4>4, <4>5 DEF HasHeard
    <3> QED
      BY <3>3, <3>4
  <2>10. Logged'
    <3>1. Before(r)' = sent[r]
      BY <1>1, <2>3, <2>5, RoomTypes, <1>2 DEF Before
    <3> QED
      BY <1>1, <1>2, <1>3, <1>5, <3>1 DEF Logged
  <2>11. ASSUME NEW d \in Sockets PROVE NothingNew(d)'
    <3>1. task'["gamelog"].kind \in {"replay", "queue"} /\ task'["gamelog"].client = d =>
             task["gamelog"].kind \in {"replay", "queue"} /\ task["gamelog"].client = d
      BY <1>1, <1>2, <1>3, <2>3, <2>5, RoomTypes
    <3>2. queue'[d] = queue[d] => NothingNew(d)'
      BY <1>1, <1>6, <3>1 DEF NothingNew
    <3>3. CASE queue'[d] # queue[d]
      <4>1. d = c /\ queue'[c] = Append(queue[c], <<r, n>>)
        BY <2>6, <3>3
      <4>2. ~capable[c] => n <= limit[c]
        <5>1. ~capable[c] => sent[r] <= limit[c]
          BY <1>1, <1>3, <1>6 DEF NothingNew
        <5>2. sent[r] \in Nat /\ limit[c] \in Nat
          BY <1>2, <1>3, RoomTypes DEF HubTyped, HubTypeOK
        <5> QED
          BY <2>2, <5>1, <5>2
      <4> QED
        BY <1>1, <1>2, <1>3, <1>6, <2>2, <3>1, <4>1, <4>2, GetsALine
    <3> QED
      BY <3>2, <3>3
  <2>12. t.client \in members[r] \cup {task[r].client, NoSocket}
    BY <2>3
  <2>13. \A q \in Rooms : q # r => \A d \in Sockets : heard'[d][q] = heard[d][q]
    BY <2>6
  <2>14. /\ members' \in [Rooms -> SUBSET Sockets] /\ heard' \in [Sockets -> [Rooms -> Lines]]
         /\ queue' \in [Sockets -> Seq(Rooms \X Nat)]
         /\ \A d \in Sockets : Len(queue'[d]) <= Capacity
         /\ \A q \in Rooms : q # r => members'[q] = members[q]
    BY <2>6
  <2>15. cache' \in Lines /\ Len(cache') <= CacheSize /\ cache' = cache
    BY <1>1, <1>2, RoomTypes
  <2> HIDE DEF c, k
  <2> QED
    BY <1>1, <1>3, <2>13, <2>14, <2>15, <2>1, <2>3, <2>7, <2>8, <2>9, <2>10, <2>11, <2>12, RoomAlone
<1> QED
  BY <1>7, <1>8

LEMMA LeaveKeeps == ASSUME HubInv, NEW r \in Rooms, RoomReceivesLeave(r) PROVE HubInv'
<1>1. /\ UNCHANGED <<capable, writer, conn, queue, limit, clients, rooms, task, sent, cache, sender>>
      /\ r \in rooms /\ task[r].kind = "select"
  BY DEF RoomReceivesLeave, RoomFree
<1>2. /\ HubTyped /\ AtWork(r) /\ \A d \in members[r] : HasHeard(d, r)
      /\ task[r] = Free /\ members[r] \subseteq Sockets
  BY <1>1, HubInvParts, RoomTypes DEF AtWork
<1>3. ASSUME NEW c \in Sockets, Forget(r, c), reader' \in [Sockets -> ReaderRecords],
             leaving' \in [client : Sockets \cup {NoSocket}, todo : SUBSET Rooms],
             \A d \in Sockets : Known(d)'
      PROVE  HubInv'
  <2>1. /\ members' \in [Rooms -> SUBSET Sockets] /\ members'[r] = members[r] \ {c}
        /\ \A q \in Rooms : q # r => members'[q] = members[q]
        /\ heard' \in [Sockets -> [Rooms -> Lines]] /\ heard'[c][r] = <<>>
        /\ \A d \in Sockets, q \in Rooms : d # c \/ q # r => heard'[d][q] = heard[d][q]
    BY <1>2, <1>3, Forgotten
  <2>2. HubTyped'
    BY <1>1, <1>2, <1>3, <2>1, RoomTypes, RoomStepTyped
  <2>3. AtWork(r)'
    BY <1>1, <1>2, <2>1, RoomTypes DEF AtWork
  <2>4. ASSUME NEW d \in members'[r] PROVE HasHeard(d, r)'
    <3>1. d \in members[r] /\ d # c /\ d \in Sockets
      BY <1>2, <2>1, <2>4
    <3>2. ~Replaying(d, r) /\ ~Replaying(d, r)' /\ ~Behind(d, r) /\ ~Behind(d, r)'
      BY <1>1, <1>2, RoomTypes DEF Replaying, Behind
    <3> QED
      BY <1>1, <1>2, <2>1, <3>1, <3>2, MemberStays
  <2>5. Logged'
    BY <1>1, HubInvParts DEF Logged, Before
  <2>6. \A d \in Sockets : NothingNew(d)'
    BY <1>1, HubInvParts DEF NothingNew
  <2> QED
    BY <1>1, <1>3, <2>1, <2>2, <2>3, <2>4, <2>5, <2>6, InsideARoom
<1>4. ASSUME NEW c \in Sockets, reader[c].step = "leave", ReaderBack(c), Forget(r, c), UNCHANGED leaving
      PROVE  HubInv'
  <2>1. /\ reader' \in [Sockets -> ReaderRecords] /\ reader'[c].step = "read"
        /\ \A d \in Sockets : d # c => reader'[d] = reader[d]
    BY <1>2, <1>4, RoomTypes DEF ReaderBack, ReaderRecords
  <2>2. /\ members'[r] = members[r] \ {c} /\ \A q \in Rooms : q # r => members'[q] = members[q]
    BY <1>2, <1>4, Forgotten
  <2>3. ASSUME NEW d \in Sockets PROVE Known(d)'
    <3>1. Known(d) /\ \A q \in Rooms : members'[q] \subseteq members[q]
      BY <2>2, HubInvParts
    <3>2. \A q \in Rooms : d \in members'[q] \cup {task'[q].client} => d \in members[q] \cup {task[q].client}
      BY <1>1, <3>1
    <3>3. /\ reader'[d].step \in {"none", "register"} => reader[d].step \in {"none", "register"}
          /\ reader'[d].step \notin {"none", "register", "gone"} =>
                reader[d].step \notin {"none", "register", "gone"}
          /\ reader'[d].step = "gone" <=> reader[d].step = "gone"
      BY <1>4, <2>1
    <3> QED
      BY <1>1, <1>4, <3>1, <3>2, <3>3, KnownStays
  <2> QED
    BY <1>2, <1>3, <1>4, <2>1, <2>3, RoomTypes
<1>5. ASSUME r \in leaving.todo, leaving' = [leaving EXCEPT !.todo = leaving.todo \ {r}],
             Forget(r, leaving.client), UNCHANGED reader
      PROVE  HubInv'
  <2>1. /\ leaving' \in [client : Sockets \cup {NoSocket}, todo : SUBSET Rooms]
        /\ leaving'.client = leaving.client /\ leaving'.todo = leaving.todo \ {r}
        /\ reader' \in [Sockets -> ReaderRecords]
    BY <1>2, <1>5, RoomTypes
  <2>2. CASE leaving.client \in Sockets
    <3>1. /\ members'[r] = members[r] \ {leaving.client}
          /\ \A q \in Rooms : q # r => members'[q] = members[q]
      BY <1>2, <1>5, <2>2, Forgotten
    <3>2. ASSUME NEW d \in Sockets PROVE Known(d)'
      <4>1. Known(d) /\ d # NoSocket /\ Free.client = NoSocket
        BY <1>2, HubInvParts, RoomTypes
      <4>2. ASSUME NEW q \in Rooms, d \in members'[q] \cup {task'[q].client}
            PROVE  d \in members[q] \cup {task[q].client} /\ (leaving.client = d => q # r)
        BY <1>1, <1>2, <3>1, <4>1, <4>2
      <4> QED
        BY <1>1, <1>5, <2>1, <4>1, <4>2 DEF Known
    <3> QED
      BY <1>3, <1>5, <2>1, <2>2, <3>2
  <2>3. CASE leaving.client \notin Sockets
    <3>1. /\ leaving.client = NoSocket /\ leaving.client \notin members[r] /\ NoSocket \notin Sockets
      BY <1>2, <2>3, RoomTypes
    <3>2. UNCHANGED <<members, heard>>
      <4>1. /\ members' = [members EXCEPT ![r] = members[r] \ {leaving.client}]
            /\ heard' = [heard EXCEPT ![leaving.client][r] = <<>>]
        BY <1>5 DEF Forget
      <4>2. members[r] \ {leaving.client} = members[r]
        BY <3>1
      <4>3. members' = members
        BY <1>2, <4>1, <4>2, RoomTypes
      <4>4. heard' = heard
        BY <1>2, <3>1, <4>1, RoomTypes
      <4> QED
        BY <4>3, <4>4
    <3>3. HubTyped'
      BY <1>1, <1>2, <1>5, <2>1, <3>2, RoomTypes, RoomStepTyped
    <3>4. ASSUME NEW d \in Sockets PROVE Known(d)' /\ NothingNew(d)'
      <4>1. Known(d) /\ NothingNew(d) /\ d # leaving.client
        BY <2>3, HubInvParts
      <4>2. Known(d)'
        BY <1>1, <1>5, <2>1, <3>2, <4>1 DEF Known
      <4>3. NothingNew(d)'
        BY <1>1, <4>1 DEF NothingNew
      <4> QED
        BY <4>2, <4>3
    <3> QED
      BY <1>1, <3>2, <3>3, <3>4, OutsideRooms
  <2> QED
    BY <2>2, <2>3
<1> QED
  BY <1>4, <1>5 DEF RoomReceivesLeave

\* A message is on its way: the members are behind by one.
LEMMA ReceiveKeeps ==
    ASSUME HubInv, NEW r \in Rooms, NEW s \in Senders, RoomReceivesMessage(r, s) PROVE HubInv'
<1> DEFINE t == [Free EXCEPT !.kind = "deliver", !.todo = members[r]]
<1>1. /\ UNCHANGED <<capable, reader, writer, conn, queue, heard, limit, clients, leaving, rooms,
                     members, cache>>
      /\ r \in rooms /\ task[r].kind = "select" /\ sent[r] < MaxMessages[r]
      /\ sent' = [sent EXCEPT ![r] = sent[r] + 1] /\ task' = [task EXCEPT ![r] = t]
      /\ sender' = [sender EXCEPT ![s] = [step |-> "idle", room |-> "gamelog"]]
  BY DEF RoomReceivesMessage, RoomFree, clientVars, hubVars
<1>2. /\ HubTyped /\ AtWork(r) /\ \A d \in members[r] : HasHeard(d, r)
      /\ task[r] = Free /\ members[r] \subseteq Sockets
  BY <1>1, HubInvParts, RoomTypes DEF AtWork
<1>3. /\ t \in TaskRecords /\ t.kind = "deliver" /\ t.client = NoSocket /\ t.todo = members[r]
  BY <1>2, RoomTypes DEF TaskRecords
<1> HIDE DEF t
<1>4. /\ task' \in [Rooms -> TaskRecords] /\ task'[r] = t
      /\ \A q \in Rooms : q # r => task'[q] = task[q]
  BY <1>1, <1>2, <1>3, TaskSet
<1>5. /\ sent' \in [Rooms -> Nat] /\ sent'[r] = sent[r] + 1
      /\ \A q \in Rooms : q # r => sent'[q] = sent[q]
      /\ \A q \in Rooms : sent'[q] \in 0..MaxMessages[q]
  <2>1. /\ sent \in [Rooms -> Nat] /\ \A q \in Rooms : sent[q] \in 0..MaxMessages[q]
        /\ MaxMessages \in [Rooms -> Nat]
    BY <1>2, RoomTypes, HubConstants
  <2>2. sent[r] + 1 \in 0..MaxMessages[r] /\ sent[r] + 1 \in Nat
    BY <1>1, <2>1
  <2> QED
    BY <1>1, <2>1, <2>2
<1>6. sender' \in [Senders -> SenderRecords]
  <2>1. [step |-> "idle", room |-> "gamelog"] \in SenderRecords
    BY HubConstants DEF SenderRecords
  <2> QED
    BY <1>1, <1>2, <2>1, RoomTypes
<1>7. HubTyped'
  BY <1>1, <1>2, <1>4, <1>5, <1>6, RoomTypes, RoomStepTyped
<1>8. AtWork(r)'
  <2>1. sent'[r] > 0
    BY <1>2, <1>5, RoomTypes
  <2> QED
    BY <1>1, <1>3, <1>4, <2>1 DEF AtWork
<1>9. ASSUME NEW d \in members'[r] PROVE HasHeard(d, r)'
  <2>1. HasHeard(d, r) /\ ~Replaying(d, r) /\ ~Behind(d, r) /\ d \in members[r]
    BY <1>1, <1>2, <1>9, RoomTypes DEF Replaying, Behind
  <2>2. ~Replaying(d, r)' /\ Behind(d, r)' /\ sent'[r] - 1 = sent[r]
    BY <1>2, <1>3, <1>4, <1>5, <2>1, RoomTypes DEF Replaying, Behind
  <2> QED
    BY <1>1, <2>1, <2>2 DEF HasHeard
<1>10. r = "gamelog" => Logged'
  <2>1. ASSUME r = "gamelog" PROVE Logged'
    <3>1. Before(r)' = Before(r) /\ Logged
      <4>1. sent[r] \in Nat /\ Logged
        BY <1>2, RoomTypes, HubInvParts
      <4>2. Before(r) = sent[r]
        BY <1>1 DEF Before
      <4>3. Before(r)' = sent'[r] - 1
        BY <1>3, <1>4 DEF Before
      <4> QED
        BY <1>5, <4>1, <4>2, <4>3
    <3>2. \A i \in 1..Len(cache) : cache[i] <= sent'[r]
      <4>1. \A i \in 1..Len(cache) : cache[i] \in Nat
        BY <1>2, RoomTypes DEF Lines
      <4> QED
        BY <1>2, <1>5, <2>1, <3>1, <4>1, RoomTypes DEF Logged
    <3> QED
      BY <1>1, <2>1, <3>1, <3>2 DEF Logged
  <2> QED
    BY <2>1
<1>11. ASSUME NEW d \in Sockets PROVE Known(d)' /\ NothingNew(d)'
  <2>1. Known(d) /\ NothingNew(d) /\ d # NoSocket
    BY <1>2, HubInvParts, RoomTypes
  <2>2. sent'["gamelog"] >= sent["gamelog"]
    <3>1. sent["gamelog"] \in Nat /\ "gamelog" \in Rooms
      BY <1>2, RoomTypes
    <3>2. sent'["gamelog"] = sent["gamelog"] \/ sent'["gamelog"] = sent["gamelog"] + 1
      BY <1>5, <3>1
    <3> QED
      BY <3>1, <3>2
  <2>3. task'["gamelog"].kind \in {"replay", "queue"} =>
           r # "gamelog" /\ task'["gamelog"] = task["gamelog"] /\ sent'["gamelog"] = sent["gamelog"]
    BY <1>2, <1>3, <1>4, <1>5, RoomTypes
  <2>4. NothingNew(d)'
    BY <1>1, <1>2, <1>7, <2>1, <2>2, <2>3, NothingNewStays
  <2>5. Known(d)'
    <3>1. \A q \in Rooms : d \in members'[q] \cup {task'[q].client} => d \in members[q] \cup {task[q].client}
      BY <1>1, <1>3, <1>4, <2>1
    <3> QED
      BY <1>1, <2>1, <3>1, KnownStays
  <2> QED
    BY <2>4, <2>5
<1> QED
  BY <1>1, <1>4, <1>5, <1>7, <1>8, <1>9, <1>10, <1>11, InsideARoom

\* The capability is tested again for every member, before the message is offered.
LEMMA CheckKeeps ==
    ASSUME HubInv, NEW r \in Rooms, NEW c \in Sockets, RoomChecks(r, c) PROVE HubInv'
<1>1. /\ UNCHANGED <<capable, reader, writer, conn, queue, limit, clients, leaving, rooms, sent, cache,
                     sender>>
      /\ task[r].kind = "deliver" /\ c \in task[r].todo
  BY DEF RoomChecks, hubVars
<1>2. /\ HubTyped /\ AtWork(r) /\ \A d \in members[r] : HasHeard(d, r)
      /\ members[r] \subseteq Sockets /\ task[r] \in TaskRecords /\ c # NoSocket
      /\ task \in [Rooms -> TaskRecords] /\ members \in [Rooms -> SUBSET Sockets]
      /\ heard \in [Sockets -> [Rooms -> Lines]]
  BY HubInvParts, RoomTypes
<1>3. /\ task[r].todo \subseteq members[r] /\ c \in members[r] /\ task[r].client = NoSocket
      /\ r \in rooms /\ sent[r] > 0
  BY <1>1, <1>2, RoomTypes DEF AtWork
<1>4. CASE MaySubscribe(c, r)
  <2> DEFINE t == [task[r] EXCEPT !.kind = "queue", !.client = c, !.todo = task[r].todo \ {c}]
  <2>1. UNCHANGED <<members, heard>> /\ task' = [task EXCEPT ![r] = t]
    BY <1>2, <1>4 DEF RoomChecks
  <2>2. /\ t \in TaskRecords /\ t.kind = "queue" /\ t.client = c /\ t.todo = task[r].todo \ {c}
    BY <1>2 DEF TaskRecords
  <2> HIDE DEF t
  <2>3. task'[r] = t
    BY <1>2, <2>1, <2>2, TaskSet
  <2>4. AtWork(r)'
    BY <1>1, <1>2, <1>3, <2>1, <2>2, <2>3 DEF AtWork
  <2>5. ASSUME NEW d \in members'[r] PROVE HasHeard(d, r)'
    <3>1. HasHeard(d, r) /\ ~Replaying(d, r) /\ ~Replaying(d, r)' /\ (Behind(d, r)' <=> Behind(d, r))
      BY <1>1, <1>2, <2>1, <2>2, <2>3, <2>5 DEF Replaying, Behind
    <3> QED
      BY <1>1, <2>1, <3>1, MemberStays
  <2>6. r = "gamelog" => Logged'
    BY <1>1, <2>2, <2>3, HubInvParts DEF Logged, Before
  <2>7. ASSUME NEW d \in Sockets PROVE NothingNew(d)'
    <3>1. r = "gamelog" /\ t.client = d => capable[d]
      BY <1>4, <2>2 DEF MaySubscribe
    <3> QED
      BY <1>1, <1>2, <2>1, <2>2, <3>1, HubInvParts, NobodyTold
  <2>8. t.client \in members[r] \cup {task[r].client, NoSocket}
    BY <1>3, <2>2
  <2> QED
    BY <1>1, <1>2, <2>1, <2>2, <2>4, <2>5, <2>6, <2>7, <2>8, RoomTypes, RoomAlone
<1>5. CASE ~MaySubscribe(c, r)
  <2> DEFINE t == [task[r] EXCEPT !.todo = task[r].todo \ {c}]
  <2>1. Forget(r, c) /\ task' = [task EXCEPT ![r] = t]
    BY <1>2, <1>5 DEF RoomChecks
  <2>2. /\ t \in TaskRecords /\ t.kind = "deliver" /\ t.client = NoSocket /\ t.todo = task[r].todo \ {c}
    BY <1>1, <1>2, <1>3 DEF TaskRecords
  <2> HIDE DEF t
  <2>3. task'[r] = t
    BY <1>2, <2>1, <2>2, TaskSet
  <2>9. /\ members' \in [Rooms -> SUBSET Sockets] /\ members'[r] = members[r] \ {c}
        /\ \A q \in Rooms : q # r => members'[q] = members[q]
        /\ heard' \in [Sockets -> [Rooms -> Lines]]
        /\ \A d \in Sockets, q \in Rooms : d # c \/ q # r => heard'[d][q] = heard[d][q]
    BY <1>2, <2>1, Forgotten
  <2>4. AtWork(r)'
    BY <1>1, <1>2, <1>3, <2>2, <2>3, <2>9 DEF AtWork
  <2>5. ASSUME NEW d \in members'[r] PROVE HasHeard(d, r)'
    <3>1. d \in members[r] /\ d # c /\ d \in Sockets
      BY <1>2, <2>5, <2>9
    <3>2. HasHeard(d, r) /\ ~Replaying(d, r) /\ ~Replaying(d, r)' /\ (Behind(d, r)' <=> Behind(d, r))
      BY <1>1, <1>2, <2>2, <2>3, <3>1 DEF Replaying, Behind
    <3> QED
      BY <1>1, <2>9, <3>1, <3>2, MemberStays
  <2>6. r = "gamelog" => Logged'
    BY <1>1, <2>2, <2>3, HubInvParts DEF Logged, Before
  <2>7. \A d \in Sockets : NothingNew(d)'
    BY <1>1, <1>2, <2>1, <2>2, HubInvParts, NobodyTold
  <2> QED
    BY <1>1, <1>2, <2>1, <2>2, <2>4, <2>5, <2>6, <2>7, <2>9, RoomTypes, RoomAlone
<1> QED
  BY <1>4, <1>5

LEMMA QueueKeeps == ASSUME HubInv, NEW r \in Rooms, RoomQueues(r) PROVE HubInv'
<1> DEFINE c == task[r].client
           t == [task[r] EXCEPT !.kind = "deliver", !.client = NoSocket]
<1>1. /\ UNCHANGED <<capable, reader, writer, conn, limit, clients, leaving, rooms, sent, cache, sender>>
      /\ task[r].kind = "queue" /\ Offer(r, c, sent[r])
  BY DEF RoomQueues, MayQueue, hubVars
<1>2. /\ HubTyped /\ AtWork(r) /\ \A d \in members[r] : HasHeard(d, r)
      /\ members[r] \subseteq Sockets /\ task[r] \in TaskRecords
      /\ task \in [Rooms -> TaskRecords] /\ sent[r] \in Nat
  BY HubInvParts, RoomTypes
<1>3. /\ c \in Sockets /\ c \in members[r] \ task[r].todo /\ r \in rooms /\ sent[r] > 0
      /\ task[r].todo \subseteq members[r]
  BY <1>1, <1>2, RoomTypes DEF AtWork, Free
<1>4. task' = [task EXCEPT ![r] = t]
  BY <1>2 DEF RoomQueues, MayQueue
<1>5. /\ t \in TaskRecords /\ t.kind = "deliver" /\ t.client = NoSocket /\ t.todo = task[r].todo
  BY <1>2 DEF TaskRecords
<1> HIDE DEF t
<1>6. task'[r] = t
  BY <1>2, <1>4, <1>5, TaskSet
<1>7. /\ members' \in [Rooms -> SUBSET Sockets] /\ heard' \in [Sockets -> [Rooms -> Lines]]
      /\ queue' \in [Sockets -> Seq(Rooms \X Nat)]
      /\ \A d \in Sockets : Len(queue'[d]) <= Capacity
      /\ \A q \in Rooms : q # r => members'[q] = members[q]
      /\ \A d \in Sockets, q \in Rooms : d # c \/ q # r => heard'[d][q] = heard[d][q]
      /\ \A d \in Sockets : d # c => queue'[d] = queue[d]
      /\ IF Len(queue[c]) < Capacity
         THEN /\ members'[r] = members[r] /\ heard'[c][r] = Append(heard[c][r], sent[r])
              /\ queue'[c] = Append(queue[c], <<r, sent[r]>>)
         ELSE members'[r] = members[r] \ {c} /\ queue'[c] = queue[c]
  BY <1>1, <1>2, <1>3, Offered
<1>8. /\ members'[r] \subseteq members[r] /\ members[r] \ {c} \subseteq members'[r]
      /\ \A q \in Rooms : q # r => \A d \in Sockets : heard'[d][q] = heard[d][q]
  BY <1>7
<1>9. AtWork(r)'
  BY <1>1, <1>3, <1>5, <1>6, <1>8 DEF AtWork
<1>10. ASSUME NEW d \in members'[r] PROVE HasHeard(d, r)'
  <2>1. d \in members[r] /\ d \in Sockets /\ HasHeard(d, r)
    BY <1>2, <1>8, <1>10
  <2>2. ~Replaying(d, r) /\ ~Replaying(d, r)'
    BY <1>1, <1>5, <1>6 DEF Replaying
  <2>3. CASE d # c
    <3>1. Behind(d, r)' <=> Behind(d, r)
      BY <1>1, <1>5, <1>6, <2>3 DEF Behind
    <3> QED
      BY <1>1, <1>7, <2>1, <2>2, <2>3, <3>1, MemberStays
  <2>4. CASE d = c
    <3>1. ~Behind(d, r)' /\ Behind(d, r)
      BY <1>1, <1>3, <1>5, <1>6, <2>4 DEF Behind
    <3>2. /\ heard'[d][r] = Append(heard[d][r], sent[r]) /\ heard[d][r] \in Lines
      BY <1>2, <1>7, <1>10, <2>1, <2>4, RoomTypes
    <3>3. Consecutive(heard[d][r]) /\ EndsWith(heard[d][r], sent[r] - 1)
      BY <2>1, <3>1 DEF HasHeard
    <3>4. /\ Append(heard[d][r], sent[r]) # <<>> /\ Consecutive(Append(heard[d][r], sent[r]))
          /\ EndsWith(Append(heard[d][r], sent[r]), sent[r])
      BY <1>2, <3>2, <3>3, OneMore
    <3> QED
      BY <1>1, <2>2, <3>1, <3>2, <3>4 DEF HasHeard
  <2> QED
    BY <2>3, <2>4
<1>11. r = "gamelog" => Logged'
  BY <1>1, <1>5, <1>6, HubInvParts DEF Logged, Before
<1>12. ASSUME NEW d \in Sockets PROVE NothingNew(d)'
  <2>1. NothingNew(d) /\ \A q \in Rooms : q # r => task'[q] = task[q]
    BY <1>2, <1>4, <1>5, HubInvParts, TaskSet
  <2>2. task'["gamelog"].kind \in {"replay", "queue"} /\ task'["gamelog"].client = d =>
           task["gamelog"].kind \in {"replay", "queue"} /\ task["gamelog"].client = d
    BY <1>2, <1>5, <1>6, <2>1, RoomTypes
  <2>3. CASE queue'[d] = queue[d]
    BY <1>1, <2>1, <2>2, <2>3 DEF NothingNew
  <2>4. CASE queue'[d] # queue[d]
    <3>1. d = c /\ queue'[c] = Append(queue[c], <<r, sent[r]>>)
      BY <1>7, <2>4
    <3>2. r = "gamelog" => sent[r] <= sent["gamelog"] /\ (~capable[d] => sent[r] <= limit[d])
      BY <1>1, <1>2, <2>1, <3>1 DEF NothingNew
    <3> QED
      BY <1>1, <1>2, <2>1, <2>2, <3>1, <3>2, RoomTypes, GetsALine
  <2> QED
    BY <2>3, <2>4
<1>13. t.client \in members[r] \cup {task[r].client, NoSocket} /\ members'[r] \subseteq members[r] \cup {task[r].client}
  BY <1>5, <1>8
<1>14. cache' \in Lines /\ Len(cache') <= CacheSize /\ cache' = cache
  BY <1>1, <1>2, RoomTypes
<1>15. /\ members' \in [Rooms -> SUBSET Sockets] /\ heard' \in [Sockets -> [Rooms -> Lines]]
       /\ queue' \in [Sockets -> Seq(Rooms \X Nat)]
       /\ \A d \in Sockets : Len(queue'[d]) <= Capacity
       /\ \A q \in Rooms : q # r => members'[q] = members[q]
  BY <1>7
<1> HIDE DEF c
<1> QED
  BY <1>1, <1>4, <1>5, <1>8, <1>9, <1>10, <1>11, <1>12, <1>13, <1>14, <1>15, RoomAlone

LEMMA DeliveredKeeps == ASSUME HubInv, NEW r \in Rooms, RoomDelivered(r) PROVE HubInv'
<1>1. /\ UNCHANGED <<capable, reader, writer, conn, queue, heard, limit, clients, leaving, rooms,
                     members, sent, sender>>
      /\ task[r].kind = "deliver" /\ task[r].todo = {} /\ task' = [task EXCEPT ![r] = Free]
      /\ cache' = IF r = "gamelog" THEN Trimmed(Append(cache, sent[r])) ELSE cache
  BY DEF RoomDelivered, clientVars, hubVars
<1>2. /\ HubTyped /\ AtWork(r) /\ \A d \in members[r] : HasHeard(d, r)
      /\ members \in [Rooms -> SUBSET Sockets] /\ sent[r] \in Nat /\ cache \in Lines
      /\ Len(cache) <= CacheSize /\ Free \in TaskRecords /\ Logged
  BY HubInvParts, RoomTypes
<1>3. r \in rooms /\ sent[r] > 0 /\ task'[r] = Free
  BY <1>1, <1>2, RoomTypes, TaskSet DEF AtWork
<1>4. AtWork(r)'
  BY <1>1, <1>2, <1>3, RoomTypes DEF AtWork
<1>5. ASSUME NEW d \in members'[r] PROVE HasHeard(d, r)'
  <2>1. /\ HasHeard(d, r) /\ ~Replaying(d, r) /\ ~Replaying(d, r)' /\ ~Behind(d, r) /\ ~Behind(d, r)'
    BY <1>1, <1>2, <1>3, <1>5, RoomTypes DEF Replaying, Behind
  <2> QED
    BY <1>1, <2>1, MemberStays
<1>6. ASSUME r = "gamelog"
      PROVE  Logged' /\ cache' \in Lines /\ Len(cache') <= CacheSize
  <2> DEFINE h == Append(cache, sent[r])
  <2>1. /\ Before(r) = sent[r] - 1 /\ Before(r)' = sent[r]
    BY <1>1, <1>2, <1>3, RoomTypes DEF Before
  <2>2. /\ Consecutive(cache) /\ EndsWith(cache, sent[r] - 1)
        /\ \A i \in 1..Len(cache) : cache[i] <= sent[r]
    BY <1>2, <1>6, <2>1 DEF Logged, EndsWith
  <2>3. /\ h \in Lines /\ h # <<>> /\ Len(h) = Len(cache) + 1 /\ Consecutive(h) /\ EndsWith(h, sent[r])
        /\ \A i \in 1..Len(cache) : h[i] = cache[i]
        /\ h[Len(cache) + 1] = sent[r]
    BY <1>2, <2>2, OneMore
  <2> HIDE DEF h
  <2>4. ASSUME NEW i \in 1..Len(h) PROVE h[i] <= sent[r]
    <3>1. CASE i = Len(cache) + 1
      BY <1>2, <2>3, <3>1
    <3>2. CASE i # Len(cache) + 1
      <4>1. i \in 1..Len(cache)
        BY <1>2, <2>3, <3>2 DEF Lines
      <4> QED
        BY <2>2, <2>3, <4>1
    <3> QED
      BY <3>1, <3>2
  <2>5. Len(h) <= CacheSize + 1
    BY <1>2, <2>3, HubConstants DEF Lines
  <2>6. /\ Trimmed(h) \in Lines /\ Trimmed(h) # <<>> /\ Len(Trimmed(h)) <= CacheSize
        /\ Consecutive(Trimmed(h)) /\ EndsWith(Trimmed(h), sent[r])
        /\ \A i \in 1..Len(Trimmed(h)) : Trimmed(h)[i] <= sent[r]
    BY <1>2, <2>3, <2>4, <2>5, NewestLines
  <2>7. cache' = Trimmed(h)
    BY <1>1, <1>6 DEF h
  <2> HIDE DEF Lines
  <2>8. Before("gamelog")' # 0 /\ Before("gamelog")' = sent'["gamelog"]
    BY <1>1, <1>2, <1>3, <1>6, <2>1
  <2>9. Logged'
    BY <1>1, <1>6, <2>6, <2>7, <2>8 DEF Logged
  <2> QED
    BY <2>6, <2>7, <2>9
<1>7. cache' \in Lines /\ Len(cache') <= CacheSize /\ (r # "gamelog" => cache' = cache)
  BY <1>1, <1>2, <1>6
<1>8. \A d \in Sockets : NothingNew(d)'
  BY <1>1, <1>2, HubInvParts, RoomTypes, NobodyTold
<1> QED
  BY <1>1, <1>2, <1>3, <1>4, <1>5, <1>6, <1>7, <1>8, RoomTypes, RoomAlone

LEMMA HubKeeps == HubInv /\ [HubNext]_wsVars => HubInv'
<1> SUFFICES ASSUME HubInv, [HubNext]_wsVars PROVE HubInv'
  OBVIOUS
<1>1. CASE UNCHANGED wsVars
  <2>1. /\ UNCHANGED <<members, task, sent, cache, heard, queue, capable, limit, clients, leaving, rooms>>
        /\ UNCHANGED <<reader, writer, conn, sender>>
    BY <1>1 DEF wsVars, clientVars, hubVars, roomVars
  <2>2. HubTyped'
    BY <2>1, HubInvParts DEF HubTyped, HubTypeOK
  <2> QED
    BY <2>1, <2>2, ClientMoves DEF RoomsStay
<1>2. ASSUME NEW c \in Sockets, ClientWorks(c) \/ ClientAsks(c) \/ HubRegisters(c) \/ HubUnregisters(c)
      PROVE  HubInv'
  <2>1. CASE ClientWorks(c)
    BY <2>1, ReadingKeeps, WriteKeeps, ConnectionKeeps DEF ClientWorks
  <2>2. CASE ClientAsks(c)
    <3>1. Wanted[c] \subseteq Rooms
      BY HubConstants
    <3> QED
      BY <2>2, <3>1, ConnectionKeeps, RevokeKeeps, ReadingKeeps, SendingKeeps DEF ClientAsks
  <2> QED
    BY <1>2, <2>1, <2>2, ConnectionKeeps, UnregisterKeeps
<1>3. ASSUME NEW r \in Rooms,
             \/ RoomWorks(r) \/ RoomReceivesLeave(r)
             \/ \E c \in Sockets : RoomReceivesJoin(r, c)
             \/ \E s \in Senders : RoomReceivesMessage(r, s)
      PROVE  HubInv'
  <2>1. CASE RoomWorks(r)
    BY <2>1, AdmitKeeps, ReplayKeeps, QueueKeeps, DeliveredKeeps, CheckKeeps DEF RoomWorks
  <2> QED
    BY <1>3, <2>1, LeaveKeeps, JoinKeeps, ReceiveKeeps
<1> QED
  BY <1>1, <1>2, <1>3, ForgotKeeps, SendingKeeps DEF HubNext, HubWorks

-----------------------------------------------------------------------------
(* The rooms that somebody has found or made are there.                    *)

RoomsThere ==
    /\ \A c \in Sockets : reader[c].step \in {"join", "leave"} => reader[c].room \in rooms
    /\ \A s \in Senders : sender[s].step = "send" => sender[s].room \in rooms
    /\ leaving.todo \subseteq rooms

\* A step keeps them there when no room goes, and whoever starts to wait for a room, or
\* to leave it, has one that is there.
LEMMA RoomsStayThere ==
    ASSUME RoomsThere, rooms \subseteq rooms', leaving'.todo \subseteq rooms,
           \A c \in Sockets : reader'[c].step \in {"join", "leave"} =>
               reader'[c] = reader[c] \/ reader'[c].room \in rooms',
           \A s \in Senders : sender'[s].step = "send" =>
               sender'[s] = sender[s] \/ sender'[s].room \in rooms'
    PROVE  RoomsThere'
BY DEF RoomsThere

LEMMA RoomsStartThere == HubInit => RoomsThere
BY DEF HubInit, RoomsThere

\* Somebody who looks for a room, or makes it, waits for it only when it is there.
LEMMA ReaderFindsThere ==
    ASSUME HubInv, RoomsThere, NEW c \in Sockets, ReaderFindsRoom(c) \/ ReaderMakesRoom(c)
    PROVE  RoomsThere'
<1>1. /\ reader \in [Sockets -> ReaderRecords] /\ reader[c].room \in Rooms
      /\ reader[c].wish \in {"join", "leave"} /\ leaving.todo \subseteq rooms
  BY ReaderSteps DEF RoomsThere
<1>2. CASE ReaderFindsRoom(c)
  <2>1. /\ UNCHANGED <<rooms, leaving, sender>>
        /\ reader' = [reader EXCEPT ![c].step = Looked(reader[c].room, reader[c].wish)]
    BY <1>2 DEF ReaderFindsRoom, ReaderGoes, hubVars
  <2>2. /\ reader'[c].room = reader[c].room
        /\ reader'[c].step = Looked(reader[c].room, reader[c].wish)
        /\ \A d \in Sockets : d # c => reader'[d] = reader[d]
    BY <1>1, <2>1 DEF ReaderRecords
  <2>3. reader'[c].step \in {"join", "leave"} => reader'[c].room \in rooms
    BY <2>2 DEF Looked
  <2> QED
    BY <1>1, <2>1, <2>2, <2>3, RoomsStayThere
<1>3. CASE ReaderMakesRoom(c)
  <2>1. /\ UNCHANGED <<leaving, sender>> /\ MakeRoom(reader[c].room)
        /\ reader' = [reader EXCEPT ![c].step = reader[c].wish]
    BY <1>3 DEF ReaderMakesRoom, ReaderGoes
  <2>2. rooms' = rooms \cup {reader[c].room}
    BY <1>1, <2>1, RoomMade
  <2>3. /\ reader'[c].room = reader[c].room
        /\ \A d \in Sockets : d # c => reader'[d] = reader[d]
    BY <1>1, <2>1 DEF ReaderRecords
  <2> QED
    BY <1>1, <2>1, <2>2, <2>3, RoomsStayThere
<1> QED
  BY <1>2, <1>3

LEMMA SenderFindsThere ==
    ASSUME HubInv, RoomsThere, NEW s \in Senders, SenderFindsRoom(s) \/ SenderMakesRoom(s)
    PROVE  RoomsThere'
<1>1. /\ sender \in [Senders -> SenderRecords] /\ sender[s].room \in Rooms
      /\ leaving.todo \subseteq rooms
  BY HubInvParts DEF HubTyped, HubTypeOK, SenderRecords, RoomsThere
<1>2. CASE SenderFindsRoom(s)
  <2>1. /\ UNCHANGED <<rooms, leaving, reader>>
        /\ sender' = [sender EXCEPT ![s].step = Looked(sender[s].room, "send")]
    BY <1>2 DEF SenderFindsRoom, SenderGoes, hubVars, clientVars
  <2>2. /\ sender'[s].room = sender[s].room
        /\ sender'[s].step = Looked(sender[s].room, "send")
        /\ \A d \in Senders : d # s => sender'[d] = sender[d]
    BY <1>1, <2>1 DEF SenderRecords
  <2>3. sender'[s].step = "send" => sender'[s].room \in rooms
    BY <2>2 DEF Looked
  <2> QED
    BY <1>1, <2>1, <2>2, <2>3, RoomsStayThere
<1>3. CASE SenderMakesRoom(s)
  <2>1. /\ UNCHANGED <<leaving, reader>> /\ MakeRoom(sender[s].room)
        /\ sender' = [sender EXCEPT ![s].step = "send"]
    BY <1>3 DEF SenderMakesRoom, SenderGoes, clientVars
  <2>2. rooms' = rooms \cup {sender[s].room}
    BY <1>1, <2>1, RoomMade
  <2>3. /\ sender'[s].room = sender[s].room
        /\ \A d \in Senders : d # s => sender'[d] = sender[d]
    BY <1>1, <2>1 DEF SenderRecords
  <2> QED
    BY <1>1, <2>1, <2>2, <2>3, RoomsStayThere
<1> QED
  BY <1>2, <1>3

\* Steps after which somebody waits for a room who did not before: none.
LEMMA NobodyElseWaits ==
    ASSUME HubInv, RoomsThere, UNCHANGED rooms, leaving'.todo \subseteq rooms,
           \/ UNCHANGED reader
           \/ \E c \in Sockets : \E step \in {"register", "read", "unregister", "gone"} : ReaderGoes(c, step)
           \/ \E c \in Sockets : ReaderBack(c)
           \/ \E c \in Sockets, r \in Rooms, w \in {"join", "leave"} :
                 reader' = [reader EXCEPT ![c] = [step |-> "find", room |-> r, wish |-> w]],
           \/ UNCHANGED sender
           \/ \E s \in Senders, r \in Rooms, step \in {"idle", "find"} :
                 sender' = [sender EXCEPT ![s] = [step |-> step, room |-> r]]
    PROVE  RoomsThere'
<1>1. /\ reader \in [Sockets -> ReaderRecords] /\ sender \in [Senders -> SenderRecords]
  BY HubInvParts DEF HubTyped, HubTypeOK, ReaderRecords, SenderRecords
<1>2. ASSUME NEW c \in Sockets, reader'[c].step \in {"join", "leave"} PROVE reader'[c] = reader[c]
  BY <1>1, <1>2 DEF ReaderGoes, ReaderBack, ReaderRecords
<1>3. ASSUME NEW s \in Senders, sender'[s].step = "send" PROVE sender'[s] = sender[s]
  BY <1>1, <1>3
<1> QED
  BY <1>2, <1>3, RoomsStayThere

LEMMA RoomsKeepThere == HubInv /\ RoomsThere /\ [HubNext]_wsVars => RoomsThere'
<1> SUFFICES ASSUME HubInv, RoomsThere, [HubNext]_wsVars PROVE RoomsThere'
  OBVIOUS
<1>1. leaving.todo \subseteq rooms /\ "gamelog" \in Rooms /\ \A c \in Sockets : Wanted[c] \subseteq Rooms
  BY HubConstants DEF RoomsThere
<1>2. ASSUME NEW c \in Sockets, ClientWorks(c) \/ ClientAsks(c) PROVE RoomsThere'
  <2>1. CASE ReaderFindsRoom(c) \/ ReaderMakesRoom(c)
    BY <2>1, ReaderFindsThere
  <2>2. CASE ReadError(c) \/ WriteMessage(c) \/ WriteError(c) \/ ServeWs(c) \/ Disconnect(c) \/ Revoke(c)
    BY <1>1, <2>2, NobodyElseWaits
       DEF ReadError, WriteMessage, WriteError, ServeWs, Disconnect, Revoke, hubVars
  <2>3. ASSUME NEW r \in Wanted[c], ReadSubscribe(c, r) \/ ReadUnsubscribe(c, r) PROVE RoomsThere'
    BY <1>1, <2>3, NobodyElseWaits DEF ReadSubscribe, ReadUnsubscribe, hubVars
  <2>4. ASSUME NEW s \in Senders, ReadCommand(c, s) PROVE RoomsThere'
    BY <1>1, <2>4, NobodyElseWaits DEF ReadCommand, hubVars, clientVars
  <2> QED
    BY <1>2, <2>1, <2>2, <2>3, <2>4 DEF ClientWorks, ClientAsks
<1>3. ASSUME NEW c \in Sockets, HubRegisters(c) \/ HubUnregisters(c) PROVE RoomsThere'
  <2>1. UNCHANGED <<rooms, sender>> /\ (ReaderGoes(c, "read") \/ ReaderGoes(c, "gone"))
    BY <1>3 DEF HubRegisters, HubUnregisters
  <2>2. leaving'.todo \subseteq rooms
    BY <1>1, <1>3 DEF HubRegisters, HubUnregisters
  <2> QED
    BY <2>1, <2>2, NobodyElseWaits
<1>4. CASE HubForgot
  <2>1. UNCHANGED <<rooms, sender, reader>> /\ leaving'.todo \subseteq rooms
    BY <1>1, <1>4, HubInvParts DEF HubForgot, HubTyped, HubTypeOK, clientVars
  <2> QED
    BY <2>1, NobodyElseWaits
<1>5. ASSUME NEW r \in Rooms, RoomWorks(r) PROVE RoomsThere'
  <2>1. UNCHANGED <<rooms, sender, reader, leaving>>
    BY <1>5 DEF RoomWorks, RoomAdmits, RoomReplays, RoomQueues, RoomDelivered, RoomChecks, hubVars, clientVars
  <2> QED
    BY <1>1, <2>1, NobodyElseWaits
<1>6. ASSUME NEW r \in Rooms, RoomReceivesLeave(r) PROVE RoomsThere'
  <2>1. UNCHANGED <<rooms, sender>> /\ (UNCHANGED reader \/ \E c \in Sockets : ReaderBack(c))
    BY <1>6 DEF RoomReceivesLeave
  <2>2. leaving'.todo \subseteq rooms
    BY <1>1, <1>6, HubInvParts DEF RoomReceivesLeave, HubTyped, HubTypeOK
  <2> QED
    BY <2>1, <2>2, NobodyElseWaits
<1>7. ASSUME NEW r \in Rooms, NEW c \in Sockets, RoomReceivesJoin(r, c) PROVE RoomsThere'
  BY <1>1, <1>7, NobodyElseWaits DEF RoomReceivesJoin, hubVars
<1>8. ASSUME NEW r \in Rooms, NEW s \in Senders, RoomReceivesMessage(r, s) PROVE RoomsThere'
  BY <1>1, <1>8, NobodyElseWaits DEF RoomReceivesMessage, hubVars, clientVars
<1>9. ASSUME NEW s \in Senders, SenderWorks(s) PROVE RoomsThere'
  BY <1>9, SenderFindsThere DEF SenderWorks
<1>10. ASSUME NEW s \in Senders, NEW r \in Rooms, PublishTo(s, r) PROVE RoomsThere'
  BY <1>1, <1>10, NobodyElseWaits DEF PublishTo, hubVars, clientVars
<1>11. CASE UNCHANGED wsVars
  BY <1>1, <1>11, NobodyElseWaits DEF wsVars, hubVars, clientVars
<1> QED
  BY <1>2, <1>3, <1>4, <1>5, <1>6, <1>7, <1>8, <1>9, <1>10, <1>11 DEF HubNext, HubWorks

-----------------------------------------------------------------------------

\* The state of the hub has its type; no queue and no cache outgrows its bound.
THEOREM HubTypeCorrect == HubSpec => []HubTypeOK
<1>1. HubInv => HubTypeOK
  BY DEF HubInv, HubTyped
<1> QED
  BY <1>1, HubStart, HubKeeps, PTL DEF HubSpec

\* The members of a room have heard every message since they joined, once and in order, the
\* cached lines of the log first, and a client that is gone is in no room, whoever joins,
\* leaves, is slow or is disconnected meanwhile (wshub.go:107, :178, :204); and nobody waits
\* in a circle: clients, senders and the hub wait for rooms that serve them (wshub.go:121,
\* :242).  For any clients, rooms, senders, messages and sizes of queue and cache.
THEOREM RoomsAlwaysWork == HubSpec => []RoomsWork
<1>1. HubInv => RoomsConsistent
  <2> SUFFICES ASSUME HubInv PROVE RoomsConsistent
    OBVIOUS
  <2>1. ASSUME NEW r \in Rooms, NEW c \in members[r]
        PROVE  /\ Consecutive(heard[c][r])
               /\ task[r].kind = "select" => UpToDate(c, r)
               /\ r = "gamelog" /\ task[r].kind = "select" /\ sent[r] > 0 => heard[c][r] # <<>>
    <3>1. HasHeard(c, r) /\ AtWork(r)
      BY HubInvParts
    <3>2. task[r].kind = "select" => ~Behind(c, r) /\ ~Replaying(c, r)
      BY <3>1, RoomTypes, HubInvParts DEF AtWork, Behind, Replaying
    <3> QED
      BY <3>1, <3>2 DEF HasHeard, UpToDate, EndsWith
  <2>2. ASSUME NEW c \in Sockets, reader[c].step = "gone", leaving.client # c, NEW r \in Rooms
        PROVE  c \notin members[r]
    BY <2>2, HubInvParts DEF Known
  <2> QED
    BY <2>1, <2>2 DEF RoomsConsistent
<1>2. HubInv /\ RoomsThere => NobodyStuck
  <2> SUFFICES ASSUME HubInv, RoomsThere PROVE NobodyStuck
    OBVIOUS
  <2>1. ASSUME NEW r \in rooms PROVE RoomServes(r)
    <3>1. task[r].kind \in {"select", "admit", "replay", "deliver", "queue"}
      BY HubInvParts DEF HubTyped, HubTypeOK
    <3> QED
      BY <3>1 DEF RoomServes, RoomFree, MayQueue
  <2> QED
    BY <2>1 DEF RoomsThere, NobodyStuck
<1>3. HubInv /\ RoomsThere => RoomsWork
  BY <1>1, <1>2 DEF RoomsWork
<1> QED
  BY <1>3, HubStart, HubKeeps, RoomsStartThere, RoomsKeepThere, PTL DEF HubSpec

\* A client whose account is gone or changed gets no line of the log that was accepted after
\* that, however its checks, the replay and the delivery overlap (API.md:143).
THEOREM RevokedNeverHear == HubSpec => []RevokedHearNothingNew
<1>1. HubInv => RevokedHearNothingNew
  BY HubInvParts DEF NothingNew, RevokedHearNothingNew
<1> QED
  BY <1>1, HubStart, HubKeeps, PTL DEF HubSpec
-----------------------------------------------------------------------------
(* The three side by side, as one run checks them: a step of one is a step *)
(* of its specification and changes nothing of the others.                 *)

LEMMA AccessParts == AccessSpec => AccountsSpec /\ LimitSpec /\ HubSpec
<1>1. AccessInit => AccountsInit /\ LimitInit /\ HubInit
  BY DEF AccessInit
<1>2. [AccessNext]_<<part, accountVars, limitVars, wsVars>> =>
          [AccountsNext]_accountVars /\ [LimitNext]_limitVars /\ [HubNext]_wsVars
  BY DEF AccessNext
<1> QED
  BY <1>1, <1>2, PTL DEF AccessSpec, AccountsSpec, LimitSpec, HubSpec

\* Accounts, limit and hub have their types side by side.
THEOREM AccessTypeCorrect == AccessSpec => []AccessTypes
<1>1. AccountsTypeOK /\ LimitTypeOK /\ HubTypeOK => AccessTypes
  BY DEF AccessTypes
<1> QED
  BY <1>1, AccessParts, AccountsTypeCorrect, LimitTypeCorrect, HubTypeCorrect, PTL
=============================================================================
