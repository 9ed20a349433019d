------------------------------ MODULE MCAccess ------------------------------
(***************************************************************************)
(* Accounts, the login limit and the WebSocket hub share neither state nor *)
(* steps.  One run checks all three: its first state chooses the one that  *)
(* moves.                                                                  *)
(***************************************************************************)
EXTENDS Accounts, LoginLimit, WebsocketHub, TLC

CONSTANTS admin, bob

Account(role, secret) == [role |-> role, secret |-> secret]
OldDatabases ==
    { NoRows,
      bob :> Account("viewer", 1),
      bob :> Account("Admin", 0),
      admin :> Account("viewer", 0) @@ bob :> Account("viewer", 1) }

AllWanted  == [c \in Sockets |-> Rooms]
TwoEach    == [r \in Rooms |-> 2]

VARIABLE part   \* the module whose steps are taken

AccessInit ==
    /\ part \in {"accounts", "limit", "hub"}
    /\ AccountsInit /\ LimitInit /\ HubInit
    /\ part # "accounts" => legacy = NoRows

AccessNext ==
    /\ \/ part = "accounts" /\ AccountsNext /\ UNCHANGED <<limitVars, wsVars>>
       \/ part = "limit" /\ LimitNext /\ UNCHANGED <<accountVars, wsVars>>
       \/ part = "hub" /\ HubNext /\ UNCHANGED <<accountVars, limitVars>>
    /\ UNCHANGED part

AccessSpec == AccessInit /\ [][AccessNext]_<<part, accountVars, limitVars, wsVars>>

AccessTypes == AccountsTypeOK /\ LimitTypeOK /\ HubTypeOK

Symmetry == Permutations(Clients) \cup Permutations(Sockets)
=============================================================================
