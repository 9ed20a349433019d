------------------------------ MODULE Accounts ------------------------------
(***************************************************************************)
(* The accounts of the manager (bootstrap/user.go, api/auth.go,            *)
(* api/user_handler.go): the migration of a legacy database, the first     *)
(* administrator, and the requests that log in, add, remove and change     *)
(* accounts side by side.  The limit on failed logins is LoginLimit.       *)
(*                                                                         *)
(* A secret stands for a password together with the salted hash stored for *)
(* it: each hashing issues a new one.  0 is the default password of the    *)
(* legacy program, which is never stored.                                  *)
(***************************************************************************)
EXTENDS Naturals, FiniteSets

CONSTANTS
    Names,          \* user names
    AdminName,      \* the name of the first administrator, "admin"
    Clients,        \* browsers: one cookie and one request at a time each
    LegacyCases,    \* legacy databases: functions from names to accounts
    Legacies,       \* the largest secret of a legacy database
    MaxSecrets,     \* bound: how many secrets are issued
    MaxCrashes,     \* bound: how often the manager dies
    None

ASSUME AccountConstants ==
    /\ AdminName \in Names
    /\ None \notin Names /\ None \notin Clients
    /\ Legacies \in Nat /\ MaxSecrets \in Nat
    /\ MaxCrashes \in Nat

Roles == {"admin", "Admin", "viewer"}    \* "Admin": another spelling of the role

ASSUME LegacyDatabases ==
    \A old \in LegacyCases :
        /\ DOMAIN old \subseteq Names
        /\ \A n \in DOMAIN old : old[n] \in [role : Roles, secret : 0..Legacies]

VARIABLES
    \* the database
    rows,           \* live rows by id: name, role and the stored secret
    lastId, issued, \* the last id and the last secret that were given out
    \* what lies beside it
    legacy,         \* the legacy database, never written
    migrating,      \* conf.json still names the legacy database
    credentials,    \* migrated-user-passwords.jsonl: pairs of name and secret
    torn,           \* a record of that file was cut short, and it no longer parses
    initial,        \* initial-admin-password.txt: a secret, or None
    generated,      \* the secrets that no user chose (history)
    \* the startup
    boot,           \* where the startup is, or "up", "down", "conflict"
    tx, todo,       \* the transaction of the migration, the accounts left
    fresh,          \* the generated password of the first administrator
    crashes,
    \* the requests
    req,            \* the request of each client and what it has read
    session,        \* the cookie of each client
    mutation        \* who holds authMutationMutex

disk     == <<legacy, migrating, credentials, torn, initial, generated>>
startup  == <<boot, tx, todo, fresh, crashes>>
requests == <<req, session, mutation>>
accountVars     == <<rows, lastId, issued, disk, startup, requests>>

Row     == [name : Names, role : Roles, secret : Nat]
Idle    == [step |-> "idle", name |-> AdminName, secret |-> 0, id |-> 0, row |-> None]
NoRows  == [id \in {} |-> None]

----------------------------------------------------------------------------
(* What the database answers.  The tag of Username (user.go:25) separates   *)
(* its settings by a comma where the library expects a semicolon, so there *)
(* is no unique index and addUser tests nothing: a name may have several   *)
(* rows.  A query for one row of a name finds the oldest.                  *)

Named(db, n) == {id \in DOMAIN db : db[id].name = n}
Found(db, n) == {id \in Named(db, n) : \A other \in Named(db, n) : id <= other}
Admins       == {id \in DOMAIN rows : rows[id].role = "admin"}
With(db, id, row) == [i \in DOMAIN db \cup {id} |-> IF i = id THEN row ELSE db[i]]
Without(db, id)   == [i \in DOMAIN db \ {id} |-> db[i]]

AccountsTypeOK ==
    /\ DOMAIN rows \subseteq 1..lastId /\ \A id \in DOMAIN rows : rows[id] \in Row
    /\ lastId \in Nat /\ issued \in Nat
    /\ legacy \in LegacyCases /\ migrating \in BOOLEAN
    /\ credentials \subseteq Names \X Nat /\ torn \in BOOLEAN /\ initial \in Nat \cup {None}
    /\ generated \subseteq Nat
    /\ boot \in {"down", "migrate", "save", "setup", "create", "ensure", "up", "conflict"}
    /\ DOMAIN tx \subseteq Nat /\ \A id \in DOMAIN tx : tx[id] \in Row
    /\ todo \subseteq Names /\ fresh \in Nat /\ crashes \in Nat
    /\ req \in [Clients -> [step : {"idle", "check", "load", "old", "take", "save",
                                    "refresh", "lock", "count", "delete", "viewer", "admin"},
                            name : Names, secret : Nat, id : Nat, row : Row \cup {None}]]
    /\ session \in [Clients -> [name : Names, version : Nat] \cup {None}]
    /\ mutation \in Clients \cup {None}

AccountsInit ==
    /\ rows = NoRows /\ lastId = 0 /\ issued = Legacies
    /\ legacy \in LegacyCases
    /\ migrating = (DOMAIN legacy # {})
    /\ credentials = {} /\ torn = FALSE /\ initial = None /\ generated = {}
    /\ boot = "down" /\ tx = NoRows /\ todo = {} /\ fresh = 0 /\ crashes = 0
    /\ req = [c \in Clients |-> Idle]
    /\ session = [c \in Clients |-> None]
    /\ mutation = None

Issue == issued < Legacies + MaxSecrets /\ issued' = issued + 1

----------------------------------------------------------------------------
(* The startup: updateConfigFile and MigrateLevelDBToSqlite, then SetupAuth *)

\* A conf.json that names a legacy database is migrated, in one transaction.
BeginBoot ==
    /\ boot = "down"
    /\ boot' = IF migrating THEN "migrate" ELSE "setup"
    /\ tx' = rows /\ todo' = IF migrating THEN DOMAIN legacy ELSE {}
    /\ UNCHANGED <<rows, lastId, issued, disk, fresh, crashes, requests>>

\* Mutant of Migrated: the credential file is not consulted.
MigratedExactly(n) ==
    \E id \in Found(tx, n) :
        tx[id].role = legacy[n].role /\ tx[id].secret = legacy[n].secret

\* An account of this name that the migration itself made before: same role,
\* and the legacy secret or one recorded in the credential file, which must parse.
Migrated(n) ==
    \E id \in Found(tx, n) :
        /\ tx[id].role = legacy[n].role
        /\ IF legacy[n].secret = 0 THEN ~torn /\ <<n, tx[id].secret>> \in credentials
                                   ELSE tx[id].secret = legacy[n].secret

\* A retry finds the account; any other account of the name is a conflict,
\* which rolls the transaction back and keeps the manager down.
MigrateExisting(n) ==
    /\ boot = "migrate" /\ n \in todo /\ Found(tx, n) # {}
    /\ boot' = IF Migrated(n) THEN "migrate" ELSE "conflict"
    /\ todo' = todo \ {n}
    /\ UNCHANGED <<rows, lastId, issued, disk, tx, fresh, crashes, requests>>

\* Other accounts are inserted.  A default password is replaced by a generated
\* one, which a synced file records before the row exists.
MigrateNew(n) ==
    /\ boot = "migrate" /\ n \in todo /\ Found(tx, n) = {}
    /\ IF legacy[n].secret = 0
       THEN /\ Issue
            /\ generated' = generated \cup {issued'}
            /\ credentials' = credentials \cup {<<n, issued'>>}
       ELSE UNCHANGED <<issued, generated, credentials>>
    /\ lastId' = lastId + 1
    /\ tx' = With(tx, lastId', [name |-> n, role |-> legacy[n].role,
                  secret |-> IF legacy[n].secret = 0 THEN issued' ELSE legacy[n].secret])
    /\ todo' = todo \ {n}
    /\ UNCHANGED <<rows, legacy, migrating, torn, initial, boot, fresh, crashes, requests>>

\* The disk is full or the manager dies within the record: the transaction is
\* rolled back, the manager stays down, and the part of the record stays.
TearRecord(n) ==
    /\ boot = "migrate" /\ n \in todo /\ Found(tx, n) = {} /\ legacy[n].secret = 0
    /\ crashes < MaxCrashes
    /\ crashes' = crashes + 1 /\ boot' = "down" /\ torn' = TRUE
    /\ tx' = NoRows /\ todo' = {} /\ fresh' = 0
    /\ UNCHANGED <<rows, lastId, issued, legacy, migrating, credentials, initial, generated,
                   requests>>

CommitMigration ==
    /\ boot = "migrate" /\ todo = {}
    /\ rows' = tx /\ boot' = "save"
    /\ UNCHANGED <<lastId, issued, disk, tx, todo, fresh, crashes, requests>>

\* conf.json is written after the commit; when that fails the manager stays
\* down and the next startup repeats the migration.
SaveConfiguration ==
    /\ boot = "save"
    /\ \/ migrating' = FALSE /\ boot' = "setup"
       \/ boot' = "down" /\ UNCHANGED migrating
    /\ UNCHANGED <<rows, lastId, issued, legacy, credentials, torn, initial, generated,
                   tx, todo, fresh, crashes, requests>>

\* Without any account a password is generated and written down first ...
StoreInitialCredential ==
    /\ boot = "setup" /\ DOMAIN rows = {}
    /\ Issue
    /\ fresh' = issued' /\ initial' = issued' /\ generated' = generated \cup {issued'}
    /\ boot' = "create"
    /\ UNCHANGED <<rows, lastId, legacy, migrating, credentials, torn, tx, todo, crashes,
                   requests>>

\* ... and then the account is created; when that fails the file is removed
\* and the manager does not come up.
CreateFirstAdministrator ==
    /\ boot = "create"
    /\ \/ /\ lastId' = lastId + 1
          /\ rows' = With(rows, lastId', [name |-> AdminName, role |-> "admin", secret |-> fresh])
          /\ boot' = "ensure"
          /\ UNCHANGED initial
       \/ /\ initial' = None /\ boot' = "down"
          /\ UNCHANGED <<rows, lastId>>
    /\ UNCHANGED <<issued, legacy, migrating, credentials, torn, generated, tx, todo, fresh,
                   crashes, requests>>

FindAccounts ==
    /\ boot = "setup" /\ DOMAIN rows # {}
    /\ boot' = "ensure"
    /\ UNCHANGED <<rows, lastId, issued, disk, tx, todo, fresh, crashes, requests>>

Spelled == {id \in DOMAIN rows : rows[id].role = "Admin"}

\* ensureAdministrativeUser writes one row at a time: every spelling of the
\* role is normalized, and only if there was none the oldest account is promoted.
NormalizeRole(id) ==
    /\ boot = "ensure" /\ id \in Spelled
    /\ rows' = [rows EXCEPT ![id].role = "admin"]
    /\ UNCHANGED <<lastId, issued, disk, startup, requests>>

EnsureAdministrator ==
    /\ boot = "ensure" /\ Spelled = {}
    /\ boot' = "up"
    /\ IF Admins = {}
       THEN \E oldest \in DOMAIN rows :
              /\ \A id \in DOMAIN rows : oldest <= id
              /\ rows' = [rows EXCEPT ![oldest].role = "admin"]
       ELSE UNCHANGED rows
    /\ UNCHANGED <<lastId, issued, disk, tx, todo, fresh, crashes, requests>>

\* The manager dies.  Cookies, the database and the files stay.
Crash ==
    /\ boot \notin {"down", "conflict"} /\ crashes < MaxCrashes
    /\ crashes' = crashes + 1 /\ boot' = "down"
    /\ tx' = NoRows /\ todo' = {} /\ fresh' = 0
    /\ req' = [c \in Clients |-> Idle] /\ mutation' = None
    /\ UNCHANGED <<rows, lastId, issued, disk, session>>

----------------------------------------------------------------------------
(* Requests.  Each step is one access to the database or to a shared table. *)

Up(c, step) == boot = "up" /\ req[c].step = step

Done(c) == req' = [req EXCEPT ![c] = Idle]
Go(c, step) == req' = [req EXCEPT ![c].step = step]
\* A step that changes nothing but requests and what they share.
Volatile == UNCHANGED <<rows, lastId, issued, disk, startup>>

\* AuthMiddleware: the cookie must carry the current secret of its account.
Current(c) ==
    IF session[c] = None THEN {}
    ELSE {id \in Found(rows, session[c].name) : rows[id].secret = session[c].version}
RequireAdministrator(c) == \E id \in Current(c) : rows[id].role = "admin"

LoginUser(c, n, s) ==
    /\ Up(c, "idle")
    /\ req' = [req EXCEPT ![c] = [Idle EXCEPT !.step = "check", !.name = n, !.secret = s]]
    /\ Volatile /\ UNCHANGED <<session, mutation>>

CheckPassword(c, next) ==
    IF \E id \in Found(rows, req[c].name) : rows[id].secret = req[c].secret
    THEN Go(c, next) ELSE Done(c)

CheckLogin(c) ==
    /\ Up(c, "check")
    /\ CheckPassword(c, "load")
    /\ Volatile /\ UNCHANGED <<session, mutation>>

\* Writing a cookie for the account as it is now; without it the request fails.
SaveSession(c) ==
    /\ session' \in { [session EXCEPT ![c] = [name |-> req[c].name, version |-> rows[id].secret]]
                        : id \in Found(rows, req[c].name) }
                    \cup (IF Found(rows, req[c].name) = {} THEN {session} ELSE {})

LoadUser(c) ==
    /\ Up(c, "load")
    /\ SaveSession(c) /\ Done(c)
    /\ Volatile /\ UNCHANGED mutation

LogoutUser(c) ==
    /\ Up(c, "idle") /\ session[c] # None
    /\ session' = [session EXCEPT ![c] = None]
    /\ Volatile /\ UNCHANGED <<req, mutation>>

\* ChangePassword: the account of the cookie, its old password, the row as it
\* is, and the whole row written back with a new secret.
ChangePassword(c, s) ==
    /\ Up(c, "idle") /\ Current(c) # {}
    /\ req' = [req EXCEPT ![c] = [Idle EXCEPT !.step = "old", !.name = session[c].name, !.secret = s]]
    /\ Volatile /\ UNCHANGED <<session, mutation>>

CheckOldPassword(c) ==
    /\ Up(c, "old")
    /\ CheckPassword(c, "take")
    /\ Volatile /\ UNCHANGED <<session, mutation>>

TakeRow(c) ==
    /\ Up(c, "take")
    /\ \/ /\ Found(rows, req[c].name) = {} /\ Done(c)
       \/ \E id \in Found(rows, req[c].name) :
            req' = [req EXCEPT ![c].step = "save", ![c].id = id, ![c].row = rows[id]]
    /\ Volatile /\ UNCHANGED <<session, mutation>>

\* The library's Save updates the row; when the row has been deleted it either
\* affects nothing or brings the row back, whoever has its name by then.
SaveRow(c) ==
    /\ Up(c, "save")
    /\ \/ /\ Issue /\ Go(c, "refresh")
          /\ \/ rows' = With(rows, req[c].id, [req[c].row EXCEPT !.secret = issued'])
             \/ req[c].id \notin DOMAIN rows /\ UNCHANGED rows
       \/ Done(c) /\ UNCHANGED <<rows, issued>>
    /\ UNCHANGED <<lastId, disk, startup, session, mutation>>

\* The request refreshes its own cookie and, for the first administrator,
\* removes the file with the initial password.
RefreshSession(c) ==
    /\ Up(c, "refresh")
    /\ SaveSession(c) /\ Done(c)
    /\ initial' = IF req[c].name = AdminName /\ Found(rows, AdminName) # {} THEN None ELSE initial
    /\ UNCHANGED <<rows, lastId, issued, legacy, migrating, credentials, torn, generated,
                   startup, mutation>>

AddUser(c, n, role) ==
    /\ Up(c, "idle") /\ RequireAdministrator(c)
    /\ req' = [req EXCEPT ![c] = [Idle EXCEPT !.step = role, !.name = n]]
    /\ Volatile /\ UNCHANGED <<session, mutation>>

\* Nothing asks whether the name is taken.
CreateRow(c) ==
    /\ Up(c, "admin") \/ Up(c, "viewer")
    /\ \/ /\ Issue
          /\ lastId' = lastId + 1
          /\ rows' = With(rows, lastId', [name |-> req[c].name, role |-> req[c].step, secret |-> issued'])
       \/ UNCHANGED <<rows, lastId, issued>>
    /\ Done(c)
    /\ UNCHANGED <<disk, startup, session, mutation>>

RemoveUser(c, n) ==
    /\ Up(c, "idle") /\ RequireAdministrator(c)
    /\ req' = [req EXCEPT ![c] = [Idle EXCEPT !.step = "lock", !.name = n]]
    /\ Volatile /\ UNCHANGED <<session, mutation>>

\* Mutant of LockMutation: deletions are not serialized.
LockNothing(c) ==
    /\ Up(c, "lock") /\ mutation' = c /\ Go(c, "count")
    /\ Volatile /\ UNCHANGED session

LockMutation(c) ==
    /\ Up(c, "lock") /\ mutation = None
    /\ mutation' = c /\ Go(c, "count")
    /\ Volatile /\ UNCHANGED session

\* The account is read and, for an administrator, the administrators are
\* counted: the last one is refused.
CountAdministrators(c) ==
    /\ Up(c, "count")
    /\ \/ \E id \in Found(rows, req[c].name) :
            /\ ~(rows[id].role = "admin" /\ Cardinality(Admins) <= 1)
            /\ req' = [req EXCEPT ![c].step = "delete", ![c].id = id]
            /\ UNCHANGED mutation
       \/ /\ \/ Found(rows, req[c].name) = {}
             \/ \E id \in Found(rows, req[c].name) : rows[id].role = "admin" /\ Cardinality(Admins) <= 1
          /\ Done(c) /\ mutation' = None
    /\ Volatile /\ UNCHANGED session

\* The transaction may still fail: another one wrote in between.
DeleteRow(c) ==
    /\ Up(c, "delete")
    /\ rows' \in {Without(rows, req[c].id), rows}
    /\ Done(c) /\ mutation' = None
    /\ UNCHANGED <<lastId, issued, disk, startup, session>>

----------------------------------------------------------------------------

Booting ==
    \/ BeginBoot \/ CommitMigration \/ SaveConfiguration \/ StoreInitialCredential
    \/ CreateFirstAdministrator \/ FindAccounts \/ EnsureAdministrator \/ Crash
    \/ \E n \in Names : MigrateExisting(n) \/ MigrateNew(n) \/ TearRecord(n)
    \/ \E id \in DOMAIN rows : NormalizeRole(id)

\* The password of the account or a wrong one: an earlier password opens nothing.
Presented(n) == {0} \cup {rows[id].secret : id \in Named(rows, n)}

Request(c) ==
    \/ \E n \in Names : \E s \in Presented(n) : LoginUser(c, n, s)
    \/ /\ session[c] # None
       /\ \E s \in Presented(session[c].name) : ChangePassword(c, s)
    \/ \E n \in Names, role \in {"admin", "viewer"} : AddUser(c, n, role)
    \/ \E n \in Names : RemoveUser(c, n)
    \/ LogoutUser(c)

Serve(c) ==
    \/ CheckLogin(c) \/ LoadUser(c)
    \/ CheckOldPassword(c) \/ TakeRow(c) \/ SaveRow(c) \/ RefreshSession(c)
    \/ CreateRow(c) \/ LockMutation(c) \/ CountAdministrators(c) \/ DeleteRow(c)

AccountsNext ==
    \/ Booting
    \/ \E c \in Clients : Request(c) \/ Serve(c)

AccountsSpec == AccountsInit /\ [][AccountsNext]_accountVars

----------------------------------------------------------------------------
(* Properties                                                              *)

\* A manager that is up always has an administrator's row: no migration, no failed
\* start and no two deletions at once (auth.go:287) leave it without one.
AdministratorRemains == boot = "up" => Admins # {}

\* What docs/API.md:26 and CHANGELOG.md:410 want of it: somebody can act as the
\* administrator that remains.  A second row of a name is counted and never found.
AdministratorCanAct ==
    boot = "up" => \E id \in Admins : id \in Found(rows, rows[id].name)

\* A password that nobody chose is written down for as long as it opens an
\* account, whatever fails or dies on the way, and a migration that is repeated
\* finds its own accounts unless a record was cut short (auth.go:106, user.go:110).
CredentialsKept ==
    /\ \A id \in DOMAIN rows :
         rows[id].secret \in generated =>
           \/ <<rows[id].name, rows[id].secret>> \in credentials
           \/ initial = rows[id].secret
    /\ boot = "conflict" => torn
=============================================================================
