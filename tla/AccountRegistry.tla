--------------------------- MODULE AccountRegistry ---------------------------
(***************************************************************************)
(* What the API promises of its accounts, without lookups, statements or    *)
(* tokens: each call is answered at one moment, by the accounts there are   *)
(* at that moment.                                                          *)
(***************************************************************************)
EXTENDS AccountCalls

CONSTANT CanSign    \* tokens can be signed

VARIABLES
    accounts,       \* set of [email, password]
    asked,          \* what each call asks for
    answer          \* what each call was answered, and about which account

registryVars == <<accounts, asked, answer, faults>>

Open == [outcome |-> "open", account |-> Null]

RegistryInit ==
    /\ accounts = {}
    /\ asked \in [Calls -> CallBodies]
    /\ answer = [c \in Calls |-> Open]
    /\ FaultsInit

Wants(c)    == [email |-> asked[c].email, password |-> asked[c].password]
(* The account that a login is for: addresses are told apart in lower case. *)
LogsInTo(c) == [Wants(c) EXCEPT !.email = LowerCase[@]]

Taken(email) == \E a \in accounts : a.email = email

Answer(c, outcome, account) ==
    /\ answer[c] = Open
    /\ answer' = [answer EXCEPT ![c] = [outcome |-> outcome, account |-> account]]
    /\ UNCHANGED asked

-----------------------------------------------------------------------------
AddAccount(c) ==
    /\ asked[c].kind = "register" /\ ~Taken(asked[c].email)
    /\ accounts' = accounts \cup {Wants(c)}

Register(c) == AddAccount(c) /\ Answer(c, "ok", Wants(c)) /\ UNCHANGED faults

RefuseRegister(c) ==
    /\ asked[c].kind = "register"
    /\ Taken(asked[c].email) \/ Taken(LowerCase[asked[c].email])
    /\ Answer(c, "failed", Null)
    /\ UNCHANGED <<accounts, faults>>

LogIn(c) ==
    /\ asked[c].kind = "login"
    /\ IF LogsInTo(c) \in accounts
       THEN IF CanSign THEN Answer(c, "ok", LogsInTo(c)) ELSE Answer(c, "failed", Null)
       ELSE Answer(c, "denied", Null)
    /\ UNCHANGED <<accounts, faults>>

(* A check is told about the account of some login, or is refused. *)
Check(c) ==
    /\ asked[c].kind = "check"
    /\ \/ \E l \in Calls :
            /\ asked[l].kind = "login" /\ answer[l].outcome = "ok"
            /\ Answer(c, "ok", answer[l].account)
       \/ Answer(c, "failed", Null)
    /\ UNCHANGED <<accounts, faults>>

(* After a fault a call is turned down, whether or not it had its effect. *)
TurnDown(c) ==
    /\ faults' > faults
    /\ AddAccount(c) \/ UNCHANGED accounts
    /\ \E outcome \in {"denied", "failed"} : Answer(c, outcome, Null)

RegistryNext ==
    \E c \in Calls :
        Register(c) \/ RefuseRegister(c) \/ LogIn(c) \/ Check(c) \/ TurnDown(c)

RegistrySpec == RegistryInit /\ [][RegistryNext]_registryVars
=============================================================================
