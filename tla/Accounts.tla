------------------------------ MODULE Accounts -------------------------------
(***************************************************************************)
(* The API's accounts: services/authentication.ts, authorization.ts and     *)
(* users.ts behind routes/v1/auth and routes/v1/users, over the User table. *)
(* A call is one request.  Calls interleave at every await.                 *)
(* No code changes or deletes a row, so a row read earlier is never stale.  *)
(***************************************************************************)
EXTENDS AccountCalls

CONSTANT TtlIsNumber    \* ACCESS_TOKEN_TTL is a count of seconds, not "1d" or "12h"

VARIABLES
    user,           \* the User rows; an id is the call that created the row
    call,           \* each call: where its handler stands and what it holds
    expired         \* logins whose token is past its exp claim

accountVars == <<user, call, expired, faults>>

ASSUME AccountsAssumption == TtlIsNumber \in BOOLEAN

(* Where a handler stands: before an await, or answered.
     sent              the first lookup; for a check, jwt.verify
     create            the insert of register
     compare           bcrypt.compare of login
     load, read        the two lookups by id of a check
     ok                200
     denied            "invalid credentials"
     failed            any other error                                      *)
OpenPoints == {"sent", "create", "compare", "load", "read"}

CallStates == [body : CallBodies, pc : OpenPoints \cup {"ok", "denied", "failed"},
               row : Calls \cup {Null}, token : Calls \cup {Null}]

TypeOK ==
    /\ DOMAIN user \subseteq Calls
    /\ user \in [DOMAIN user -> [email : Emails, password : Passwords]]
    /\ call \in [Calls -> CallStates]
    /\ \A c \in Calls : call[c].pc = "compare" => call[c].row \in DOMAIN user
    /\ expired \subseteq Calls
    /\ FaultsTypeOK

Init ==
    /\ user = [id \in {} |-> Null]
    /\ call \in [Calls -> [body : CallBodies, pc : {"sent"}, row : {Null}, token : {Null}]]
    /\ expired = {}
    /\ FaultsInit

Email(c)    == call[c].body.email
Password(c) == call[c].body.password

Asks(c, kind, pc) == call[c].body.kind = kind /\ call[c].pc = pc
Goes(c, pc)       == call' = [call EXCEPT ![c].pc = pc]
Holds(c, pc, row) == call' = [call EXCEPT ![c].pc = pc, ![c].row = row]

(* The token a login was answered with names the row it found. *)
Tokens == {t \in Calls : Asks(t, "login", "ok")}

RowsOf(email) == {id \in DOMAIN user : user[id].email = email}

-----------------------------------------------------------------------------
(* register: the lookup is by the address in lower case, the insert is not. *)
RegisterLookup(c) ==
    /\ Asks(c, "register", "sent")
    /\ Goes(c, IF RowsOf(LowerCase[Email(c)]) # {} THEN "failed" ELSE "create")
    /\ UNCHANGED <<user, expired, faults>>

(* Mutation: the column loses its unique index. *)
NoUniqueEmail(email) == FALSE

EmailTaken(email) == RowsOf(email) # {}

InsertUser(c) ==
    user' = [id \in DOMAIN user \cup {c} |->
                IF id = c THEN [email |-> Email(c), password |-> Password(c)] ELSE user[id]]

(* P2002 of a register that lost the race is answered 500. *)
RegisterCreate(c) ==
    /\ Asks(c, "register", "create")
    /\ \/ /\ ~EmailTaken(Email(c))
          /\ InsertUser(c)
          /\ Holds(c, "ok", c)
       \/ EmailTaken(Email(c)) /\ Goes(c, "failed") /\ UNCHANGED user
    /\ UNCHANGED <<expired, faults>>

-----------------------------------------------------------------------------
(* Mutation: the address is looked up as it was typed. *)
LoginFindAsTyped(c) ==
    /\ Asks(c, "login", "sent")
    /\ \/ \E id \in RowsOf(Email(c)) : Holds(c, "compare", id)
       \/ RowsOf(Email(c)) = {} /\ Goes(c, "denied")
    /\ UNCHANGED <<user, expired, faults>>

(* Mutation: findUnique for findUniqueOrThrow. *)
LoginFindOrNull(c) ==
    /\ Asks(c, "login", "sent")
    /\ \E id \in RowsOf(LowerCase[Email(c)]) \cup {Null} : Holds(c, "compare", id)
    /\ UNCHANGED <<user, expired, faults>>

LoginFind(c) ==
    /\ Asks(c, "login", "sent")
    /\ \/ \E id \in RowsOf(LowerCase[Email(c)]) : Holds(c, "compare", id)
       \/ RowsOf(LowerCase[Email(c)]) = {} /\ Goes(c, "denied")
    /\ UNCHANGED <<user, expired, faults>>

(* Mutation: validatePassword is not awaited, and a promise is truthy. *)
CompareNotAwaited(c) ==
    /\ Asks(c, "login", "compare")
    /\ Goes(c, IF TtlIsNumber THEN "ok" ELSE "failed")
    /\ UNCHANGED <<user, expired, faults>>

(* jwt.sign throws when expiresIn is NaN, which Number() of "1d" is. *)
LoginCompare(c) ==
    /\ Asks(c, "login", "compare")
    /\ Goes(c, IF user[call[c].row].password # Password(c) THEN "denied"
               ELSE IF TtlIsNumber THEN "ok" ELSE "failed")
    /\ UNCHANGED <<user, expired, faults>>

-----------------------------------------------------------------------------
(* verifyToken, then the handler of /auth/authcheck or /users/me: the row is
   read by the id in the token, and read again by the handler. *)
VerifyToken(c) ==
    /\ Asks(c, "check", "sent")
    /\ \/ \E t \in Tokens \ expired :
            call' = [call EXCEPT ![c].pc = "load", ![c].token = t]
       \/ Goes(c, "failed")
    /\ UNCHANGED <<user, expired, faults>>

LoadUser(c) ==
    /\ Asks(c, "check", "load")
    /\ Holds(c, "read", call[call[c].token].row)
    /\ UNCHANGED <<user, expired, faults>>

ReadUser(c) ==
    /\ Asks(c, "check", "read")
    /\ Goes(c, IF call[c].row \in DOMAIN user THEN "ok" ELSE "failed")
    /\ UNCHANGED <<user, expired, faults>>

(* The exp claim of a token passes. *)
TokenExpires(t) ==
    /\ t \in Tokens \ expired
    /\ expired' = expired \cup {t}
    /\ UNCHANGED <<user, call, faults>>

-----------------------------------------------------------------------------
(* A statement raises, or the process is killed.  login takes any error of its
   lookup for a missing account. *)
CallFails(c) ==
    /\ \/ Asks(c, "login", "sent") /\ Spend("db") /\ Goes(c, "denied")
       \/ /\ \/ Asks(c, "register", "sent") \/ call[c].pc \in {"create", "load", "read"}
          /\ Spend("db")
          /\ Goes(c, "failed")
       \/ call[c].pc \in OpenPoints /\ Spend("crash") /\ Goes(c, "failed")
    /\ UNCHANGED <<user, expired>>

(* The insert commits and its answer is lost. *)
CreateReplyLost(c) ==
    /\ Asks(c, "register", "create")
    /\ ~EmailTaken(Email(c))
    /\ InsertUser(c)
    /\ Goes(c, "failed")
    /\ Spend("dbReply")
    /\ UNCHANGED expired

(* What the API does with a call once it has it. *)
CallStep(c) ==
    \/ RegisterLookup(c) \/ RegisterCreate(c)
    \/ LoginFind(c) \/ LoginCompare(c)
    \/ VerifyToken(c) \/ LoadUser(c) \/ ReadUser(c)

CallFault(c) == CallFails(c) \/ CreateReplyLost(c)

Next == \E c \in Calls : CallStep(c) \/ CallFault(c) \/ TokenExpires(c)

Spec == Init /\ [][Next]_accountVars

-----------------------------------------------------------------------------
(* Registrations race between the lookup and the insert and are retried after
   lost answers: two that are both answered 200 never name one address. *)
RegisteredOnce ==
    \A r, s \in Calls :
        (r # s /\ Asks(r, "register", "ok") /\ Asks(s, "register", "ok"))
        => Email(r) # Email(s)

(* A token is only given to who typed the password of the account it names,
   under that account's address, and a check of it answers with that account. *)
TokensNameTheirOwner ==
    \A c \in Calls :
        /\ Asks(c, "login", "ok") =>
            user[call[c].row] = [email |-> LowerCase[Email(c)], password |-> Password(c)]
        /\ Asks(c, "check", "ok") =>
            call[c].token \in Tokens /\ call[c].row = call[call[c].token].row

(* Once a registration is answered 200, a login with its password and its
   address, in any case, is never turned down, unless the database fails
   under it: provided that the address was registered in lower case. *)
RegisteredCanLogIn ==
    [][\A r, c \in Calls :
        (/\ call[c].body.kind = "login" /\ call[c].pc \in OpenPoints
         /\ Asks(r, "register", "ok")
         /\ Email(r) = LowerCase[Email(c)] /\ Password(r) = Password(c))
        => call'[c].pc # "denied" \/ faults' > faults]_accountVars

-----------------------------------------------------------------------------
(* The registry that the accounts implement: a call is answered when its last
   step says so, about the row it then holds. *)
AnswerOf(c) ==
    [outcome |-> IF call[c].pc \in OpenPoints THEN "open" ELSE call[c].pc,
     account |-> IF call[c].pc = "ok" THEN user[call[c].row] ELSE Null]

Registry == INSTANCE AccountRegistry WITH
    CanSign <- TtlIsNumber,
    accounts <- {user[id] : id \in DOMAIN user},
    asked <- [c \in Calls |-> call[c].body],
    answer <- [c \in Calls |-> AnswerOf(c)]

(* However calls interleave, are retried and fail, every one of them looks as if
   it had been answered at one moment from the accounts of that moment. *)
ImplementsRegistry == Registry!RegistrySpec

-----------------------------------------------------------------------------
(* What a test says, and the code does not do. *)

(* authentication.test.ts: "throws when registering an existing user".  When a
   registration looks up an address that is registered already, in any spelling,
   it is refused there, or at the latest by the unique index. *)
ExistingUserIsRefused ==
    [][\A c \in Calls :
        (/\ Asks(c, "register", "sent")
         /\ \E id \in DOMAIN user : LowerCase[user[id].email] = LowerCase[Email(c)])
        => call'[c].pc # "create" \/ EmailTaken(Email(c))]_accountVars
=============================================================================
