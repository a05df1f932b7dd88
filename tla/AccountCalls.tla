---------------------------- MODULE AccountCalls -----------------------------
(***************************************************************************)
(* What clients ask of the API's accounts: to register, to log in, or to be *)
(* told who a token belongs to (authcheck and /users/me).                   *)
(***************************************************************************)
EXTENDS Environment

CONSTANTS
    Calls,
    Emails,         \* addresses as they are typed
    LowerCase,      \* [Emails -> Emails]
    Passwords,
    CallBodies,     \* what calls may ask for
    Null

ASSUME LowerCaseAssumption ==
    /\ LowerCase \in [Emails -> Emails]
    /\ \A e \in Emails : LowerCase[LowerCase[e]] = LowerCase[e]

ASSUME CallBodiesAssumption ==
    CallBodies \subseteq
        [kind : {"register", "login"}, email : Emails, password : Passwords]
            \cup [kind : {"check"}, email : {Null}, password : {Null}]

ASSUME NullAssumption == Null \notin Calls
=============================================================================
