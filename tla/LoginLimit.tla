----------------------------- MODULE LoginLimit -----------------------------
(***************************************************************************)
(* The limit on failed logins (api/auth.go): a table of counters, one per  *)
(* address and one per user name, read before and written after the slow   *)
(* comparison of a password.  A window expires at any moment, so the model *)
(* needs no clock; whether a password is right is left open.               *)
(***************************************************************************)
EXTENDS Naturals, FiniteSets

CONSTANTS
    Logins,         \* logins in progress, one per goroutine
    Addresses,
    UserNames,
    Limit,          \* loginAttemptLimit
    MaxKeys         \* maximumLoginAttemptKeys

ASSUME LimitConstants ==
    /\ IsFiniteSet(Logins)
    /\ Limit \in Nat \ {0} /\ MaxKeys \in Nat

VARIABLES
    attempts,       \* loginAttempts: count and age, for the keys in the table
    login           \* the step of each login and the keys it is counted under

limitVars == <<attempts, login>>

\* loginRateLimitKeys: a login is counted by address and by name.
LoginKeys == {{<<"ip", a>>, <<"user", n>>} : a \in Addresses, n \in UserNames}
AttemptKeys == UNION LoginKeys

LimitTypeOK ==
    /\ DOMAIN attempts \subseteq AttemptKeys
    /\ \A k \in DOMAIN attempts : attempts[k] \in [count : Nat \ {0}, expired : BOOLEAN]
    /\ login \in [Logins -> [step : {"none", "comparing", "failed", "passed"},
                             keys : LoginKeys \cup {{}}]]

LimitInit ==
    /\ attempts = [k \in {} |-> 0]
    /\ login = [l \in Logins |-> [step |-> "none", keys |-> {}]]

----------------------------------------------------------------------------

\* Mutant of LoginAttemptAllowed: one failure more.
AllowedOnceMore(keys) ==
    \A k \in keys \cap DOMAIN attempts : attempts[k].expired \/ attempts[k].count <= Limit

\* A key without a running window, or with failures to spare.
LoginAttemptAllowed(keys) ==
    \A k \in keys \cap DOMAIN attempts : attempts[k].expired \/ attempts[k].count < Limit

BeginLogin(l, keys) ==
    /\ login[l].step = "none" /\ LoginAttemptAllowed(keys)
    /\ login' = [login EXCEPT ![l] = [step |-> "comparing", keys |-> keys]]
    /\ UNCHANGED attempts

ComparePassword(l) ==
    /\ login[l].step = "comparing"
    /\ \E result \in {"failed", "passed"} : login' = [login EXCEPT ![l].step = result]
    /\ UNCHANGED attempts

End(l) == login' = [login EXCEPT ![l] = [step |-> "none", keys |-> {}]]

\* At capacity the expired windows are swept.
Swept == IF Cardinality(DOMAIN attempts) < MaxKeys THEN DOMAIN attempts
         ELSE {k \in DOMAIN attempts : ~attempts[k].expired}

\* The new keys that enter the table: when one place is left, the address.
Admitted(old, keys) ==
    LET new == keys \ old
    IN CASE Cardinality(old) + Cardinality(new) <= MaxKeys -> new
         [] Cardinality(old) + 1 = MaxKeys -> {k \in new : k[1] = "ip"}
         [] OTHER -> {}

Counted(k) ==
    IF k \in DOMAIN attempts /\ ~attempts[k].expired
    THEN [count |-> attempts[k].count + 1, expired |-> FALSE]
    ELSE [count |-> 1, expired |-> FALSE]

RecordLoginFailure(l) ==
    /\ login[l].step = "failed"
    /\ LET table == Swept \cup Admitted(Swept, login[l].keys)
       IN attempts' = [k \in table |-> IF k \in login[l].keys THEN Counted(k) ELSE attempts[k]]
    /\ End(l)

\* A success forgives the address and the name.
ClearLoginFailures(l) ==
    /\ login[l].step = "passed"
    /\ attempts' = [k \in DOMAIN attempts \ login[l].keys |-> attempts[k]]
    /\ End(l)

WindowExpires(k) ==
    /\ k \in DOMAIN attempts /\ ~attempts[k].expired
    /\ attempts' = [attempts EXCEPT ![k].expired = TRUE]
    /\ UNCHANGED login

LimitNext ==
    \/ \E l \in Logins :
         \/ \E keys \in LoginKeys : BeginLogin(l, keys)
         \/ ComparePassword(l) \/ RecordLoginFailure(l) \/ ClearLoginFailures(l)
    \/ \E k \in AttemptKeys : WindowExpires(k)

LimitSpec == LimitInit /\ [][LimitNext]_limitVars

----------------------------------------------------------------------------
(* Properties                                                              *)

\* The logins that passed the test and will be counted under a key.
Uncounted(k) == {l \in Logins : login[l].step \in {"comparing", "failed"} /\ k \in login[l].keys}

\* Logins between the test and the count exceed the limit by less than their
\* number, and the table never outgrows its bound (auth.go:239, auth.go:255).
AttemptsBounded ==
    /\ \A k \in DOMAIN attempts :
         ~attempts[k].expired =>
           attempts[k].count + Cardinality(Uncounted(k)) <= Limit + Cardinality(Logins) - 1
    /\ Cardinality(DOMAIN attempts) <= MaxKeys
=============================================================================
