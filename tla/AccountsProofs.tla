--------------------------- MODULE AccountsProofs ----------------------------
(***************************************************************************)
(* Theorems of Accounts for every set of calls, addresses and passwords and *)
(* under any database failures.  The invariant says what each call knows at *)
(* the point its handler stands (Knows) and that addresses are unique.      *)
(***************************************************************************)
EXTENDS Accounts, TLAPS

(* A registration that has not inserted has no row of its own, and one that is
   answered has the row it asked for. *)
RegisterKnows(c) ==
    call[c].body.kind = "register" =>
        /\ call[c].pc \in {"sent", "create"} => c \notin DOMAIN user
        /\ call[c].pc = "ok" =>
            /\ call[c].row = c /\ c \in DOMAIN user
            /\ user[c] = [email |-> Email(c), password |-> Password(c)]

LoginKnows(c) ==
    call[c].body.kind = "login" =>
        /\ call[c].pc \in {"compare", "ok"} =>
            call[c].row \in DOMAIN user /\ user[call[c].row].email = LowerCase[Email(c)]
        /\ call[c].pc = "ok" => user[call[c].row].password = Password(c)

CheckKnows(c) ==
    call[c].body.kind = "check" =>
        /\ call[c].pc \in {"load", "read", "ok"} => call[c].token \in Tokens
        /\ call[c].pc \in {"read", "ok"} => call[c].row = call[call[c].token].row

Knows(c) == RegisterKnows(c) /\ LoginKnows(c) /\ CheckKnows(c)

(* Each point belongs to one kind of call. *)
PointsOfKinds ==
    \A c \in Calls :
        /\ call[c].pc = "create" => call[c].body.kind = "register"
        /\ call[c].pc = "compare" => call[c].body.kind = "login"

UniqueEmails == \A i, j \in DOMAIN user : user[i].email = user[j].email => i = j

AccountInv == TypeOK /\ PointsOfKinds /\ UniqueEmails /\ \A c \in Calls : Knows(c)

-----------------------------------------------------------------------------
(* What every step of call c does to the calls: only an open one moves, and
   what it asked for stays. *)
Moves(c) ==
    /\ call[c].pc \in OpenPoints
    /\ call' \in [Calls -> CallStates]
    /\ call'[c].body = call[c].body
    /\ \A d \in Calls \ {c} : call'[d] = call[d]

(* What it does to the table: nothing, or it inserts its own row. *)
Inserts(c) ==
    \/ UNCHANGED user
    \/ c \notin DOMAIN user /\ ~EmailTaken(Email(c)) /\ InsertUser(c)

(* The forms in which a step changes its call. *)
LEMMA CallSet ==
    ASSUME TypeOK, NEW c \in Calls, call[c].pc \in OpenPoints,
           NEW t \in CallStates, t.body = call[c].body, call' = [call EXCEPT ![c] = t]
    PROVE  Moves(c) /\ call'[c] = t
<1>1. call \in [Calls -> CallStates]
  BY DEF TypeOK
<1>2. call'[c] = t /\ \A d \in Calls \ {c} : call'[d] = call[d]
  BY <1>1
<1>3. call' \in [Calls -> CallStates]
  BY <1>1
<1> QED BY <1>2, <1>3 DEF Moves

LEMMA PointMoves ==
    ASSUME TypeOK, NEW c \in Calls, call[c].pc \in OpenPoints,
           NEW pc \in OpenPoints \cup {"ok", "denied", "failed"}, Goes(c, pc)
    PROVE  /\ Moves(c)
           /\ call'[c].pc = pc /\ call'[c].row = call[c].row /\ call'[c].token = call[c].token
<1> DEFINE t == [call[c] EXCEPT !.pc = pc]
<1>1. call[c] \in CallStates
  BY DEF TypeOK
<1>2. /\ t \in CallStates /\ t.body = call[c].body
      /\ t.pc = pc /\ t.row = call[c].row /\ t.token = call[c].token
  BY <1>1 DEF CallStates
<1>3. call' = [call EXCEPT ![c] = t]
  BY DEF Goes
<1> HIDE DEF t
<1> QED BY <1>2, <1>3, CallSet

LEMMA RowMoves ==
    ASSUME TypeOK, NEW c \in Calls, call[c].pc \in OpenPoints,
           NEW pc \in OpenPoints \cup {"ok", "denied", "failed"}, NEW row \in Calls \cup {Null},
           Holds(c, pc, row)
    PROVE  /\ Moves(c)
           /\ call'[c].pc = pc /\ call'[c].row = row /\ call'[c].token = call[c].token
<1> DEFINE t == [call[c] EXCEPT !.pc = pc, !.row = row]
<1>1. call[c] \in CallStates /\ call \in [Calls -> CallStates]
  BY DEF TypeOK
<1>2. /\ t \in CallStates /\ t.body = call[c].body
      /\ t.pc = pc /\ t.row = row /\ t.token = call[c].token
  BY <1>1 DEF CallStates
<1>3. call' = [call EXCEPT ![c] = t]
  BY <1>1 DEF Holds
<1> HIDE DEF t
<1> QED BY <1>2, <1>3, CallSet

LEMMA TokenMoves ==
    ASSUME TypeOK, NEW c \in Calls, call[c].pc \in OpenPoints,
           NEW pc \in OpenPoints \cup {"ok", "denied", "failed"}, NEW token \in Calls \cup {Null},
           call' = [call EXCEPT ![c].pc = pc, ![c].token = token]
    PROVE  /\ Moves(c)
           /\ call'[c].pc = pc /\ call'[c].row = call[c].row /\ call'[c].token = token
<1> DEFINE t == [call[c] EXCEPT !.pc = pc, !.token = token]
<1>1. call[c] \in CallStates /\ call \in [Calls -> CallStates]
  BY DEF TypeOK
<1>2. /\ t \in CallStates /\ t.body = call[c].body
      /\ t.pc = pc /\ t.row = call[c].row /\ t.token = token
  BY <1>1 DEF CallStates
<1>3. call' = [call EXCEPT ![c] = t]
  BY <1>1
<1> HIDE DEF t
<1> QED BY <1>2, <1>3, CallSet

(* The insert keeps the table's type, its unique addresses and its rows. *)
LEMMA TableGrows ==
    ASSUME TypeOK, UniqueEmails, NEW c \in Calls, Inserts(c),
           Email(c) \in Emails, Password(c) \in Passwords
    PROVE  /\ DOMAIN user' \subseteq Calls
           /\ user' \in [DOMAIN user' -> [email : Emails, password : Passwords]]
           /\ UniqueEmails'
           /\ \A id \in DOMAIN user : id \in DOMAIN user' /\ user'[id] = user[id]
           /\ \A id \in DOMAIN user' : id # c => id \in DOMAIN user
<1>1. CASE UNCHANGED user
  BY <1>1 DEF TypeOK, UniqueEmails
<1>2. CASE c \notin DOMAIN user /\ ~EmailTaken(Email(c)) /\ InsertUser(c)
  <2>1. DOMAIN user' = DOMAIN user \cup {c}
    BY <1>2 DEF InsertUser
  <2>2. user'[c] = [email |-> Email(c), password |-> Password(c)]
    BY <1>2 DEF InsertUser
  <2>3. \A id \in DOMAIN user : user'[id] = user[id]
    BY <1>2 DEF InsertUser
  <2>4. \A id \in DOMAIN user : user[id].email # Email(c)
    BY <1>2 DEF EmailTaken, RowsOf
  <2>5. user' \in [DOMAIN user' -> [email : Emails, password : Passwords]]
    BY <1>2, <2>1 DEF InsertUser, TypeOK
  <2>6. UniqueEmails'
    BY <2>1, <2>2, <2>3, <2>4 DEF UniqueEmails
  <2> QED BY <2>1, <2>3, <2>5, <2>6 DEF TypeOK
<1> QED BY <1>1, <1>2 DEF Inserts

(* A call knows what it knew after a step of another. *)
LEMMA OthersKnow ==
    ASSUME TypeOK, NEW c \in Calls, NEW d \in Calls, Knows(d), Moves(c), d # c,
           \A id \in DOMAIN user : id \in DOMAIN user' /\ user'[id] = user[id],
           \A id \in DOMAIN user' : id # c => id \in DOMAIN user
    PROVE  Knows(d)'
<1>1. call'[d] = call[d]
  BY DEF Moves
<1>2. \A t \in Tokens : t \in Tokens' /\ call'[t] = call[t]
  BY DEF Moves, Tokens, Asks, OpenPoints
<1>3. RegisterKnows(d)'
  BY <1>1 DEF Knows, RegisterKnows, Email, Password
<1>4. LoginKnows(d)'
  BY <1>1 DEF Knows, LoginKnows, Email, Password
<1>5. CheckKnows(d)'
  BY <1>1, <1>2 DEF Knows, CheckKnows
<1> QED BY <1>3, <1>4, <1>5 DEF Knows

(* What is left to show of a step: how it moves its call, what it inserts, and
   what the call then knows. *)
LEMMA StepKeeps ==
    ASSUME AccountInv, NEW c \in Calls, Moves(c), Inserts(c),
           UNCHANGED user \/ call[c].body.kind = "register",
           Knows(c)', expired' \subseteq Calls, FaultsTypeOK',
           call'[c].pc = "create" => call[c].body.kind = "register",
           call'[c].pc = "compare" => call[c].body.kind = "login"
    PROVE  AccountInv'
<1>0. TypeOK /\ UniqueEmails /\ PointsOfKinds /\ call[c].body \in CallBodies
  BY DEF AccountInv, TypeOK, CallStates
<1>1. /\ DOMAIN user' \subseteq Calls
      /\ user' \in [DOMAIN user' -> [email : Emails, password : Passwords]]
      /\ UniqueEmails'
      /\ \A id \in DOMAIN user : id \in DOMAIN user' /\ user'[id] = user[id]
      /\ \A id \in DOMAIN user' : id # c => id \in DOMAIN user
  <2>1. CASE UNCHANGED user
    BY <1>0, <2>1 DEF TypeOK, UniqueEmails
  <2>2. CASE call[c].body.kind = "register"
    <3>1. Email(c) \in Emails /\ Password(c) \in Passwords
      BY <1>0, <2>2, CallBodiesAssumption DEF Email, Password
    <3> QED BY <1>0, <3>1, TableGrows
  <2> QED BY <2>1, <2>2
<1>2. \A d \in Calls : Knows(d)'
  BY <1>0, <1>1, OthersKnow DEF AccountInv
<1>3. PointsOfKinds'
  BY <1>0 DEF PointsOfKinds, Moves
<1>4. \A d \in Calls : call'[d].pc = "compare" => call'[d].row \in DOMAIN user'
  BY <1>2, <1>3 DEF Knows, LoginKnows, PointsOfKinds
<1>5. TypeOK'
  BY <1>1, <1>4 DEF TypeOK, Moves
<1> QED BY <1>1, <1>2, <1>3, <1>5 DEF AccountInv

-----------------------------------------------------------------------------
(* A call that has been answered with an error knows nothing. *)
LEMMA ErrorKnows ==
    ASSUME NEW c \in Calls, call'[c].pc \in {"denied", "failed"}
    PROVE  Knows(c)'
BY DEF Knows, RegisterKnows, LoginKnows, CheckKnows

(* Steps that only end a call with an error. *)
LEMMA ErrorKeeps ==
    ASSUME AccountInv, NEW c \in Calls, call[c].pc \in OpenPoints, NEW pc \in {"denied", "failed"},
           Goes(c, pc), UNCHANGED user, expired' \subseteq Calls, FaultsTypeOK'
    PROVE  AccountInv'
<1>0. TypeOK /\ call[c].row \in Calls \cup {Null} /\ call[c].token \in Calls \cup {Null}
  BY DEF AccountInv, TypeOK, CallStates
<1>1. Moves(c) /\ call'[c].pc = pc
  BY <1>0, PointMoves
<1> QED BY <1>1, ErrorKnows, StepKeeps DEF Inserts

(* A fault that is spent stays within its bound. *)
LEMMA FaultsStay == FaultsTypeOK /\ (UNCHANGED faults \/ \E f \in FaultKinds : Spend(f)) => FaultsTypeOK'
BY FaultsAssumption DEF FaultsTypeOK, Spend

(* The two steps of register. *)
LEMMA RegisterKeeps ==
    ASSUME AccountInv, NEW c \in Calls,
           RegisterLookup(c) \/ RegisterCreate(c) \/ CreateReplyLost(c)
    PROVE  AccountInv'
<1>0. /\ TypeOK /\ Knows(c) /\ FaultsTypeOK /\ expired' \subseteq Calls
      /\ call[c] \in CallStates
      /\ call[c].row \in Calls \cup {Null} /\ call[c].token \in Calls \cup {Null}
      /\ call[c].body.kind = "register" /\ call[c].pc \in OpenPoints
      /\ c \notin DOMAIN user
  BY DEF AccountInv, TypeOK, CallStates, RegisterLookup, RegisterCreate, CreateReplyLost, Asks,
         OpenPoints, Knows, RegisterKnows
<1>f. FaultsTypeOK'
  BY <1>0, FaultsStay DEF RegisterLookup, RegisterCreate, CreateReplyLost, FaultKinds
<1>1. CASE RegisterLookup(c)
  <2>1. CASE Goes(c, "failed")
    BY <1>0, <1>1, <1>f, <2>1, ErrorKeeps DEF RegisterLookup
  <2>2. CASE Goes(c, "create")
    <3>1. Moves(c) /\ call'[c].pc = "create"
      BY <1>0, <2>2, PointMoves DEF OpenPoints
    <3>2. UNCHANGED user
      BY <1>1 DEF RegisterLookup
    <3>3. Knows(c)'
      BY <1>0, <3>1, <3>2 DEF Knows, RegisterKnows, LoginKnows, CheckKnows, Moves
    <3> QED BY <1>0, <1>f, <3>1, <3>2, <3>3, StepKeeps DEF Inserts
  <2> QED BY <1>1, <2>1, <2>2 DEF RegisterLookup
<1>2. CASE RegisterCreate(c) /\ EmailTaken(Email(c))
  BY <1>0, <1>2, <1>f, ErrorKeeps DEF RegisterCreate
<1>3. CASE RegisterCreate(c) /\ ~EmailTaken(Email(c))
  <2>1. Moves(c) /\ call'[c].pc = "ok" /\ call'[c].row = c
    BY <1>0, <1>3, RowMoves DEF RegisterCreate
  <2>2. Inserts(c) /\ InsertUser(c)
    BY <1>0, <1>3 DEF RegisterCreate, Inserts
  <2>3. c \in DOMAIN user' /\ user'[c] = [email |-> Email(c), password |-> Password(c)]
    BY <2>2 DEF InsertUser
  <2>4. Email(c)' = Email(c) /\ Password(c)' = Password(c)
    BY <2>1 DEF Email, Password, Moves
  <2>5. Knows(c)'
    BY <1>0, <2>1, <2>3, <2>4 DEF Knows, RegisterKnows, LoginKnows, CheckKnows, Moves
  <2> QED BY <1>0, <1>f, <2>1, <2>2, <2>5, StepKeeps
<1>4. CASE CreateReplyLost(c)
  <2>1. Moves(c) /\ call'[c].pc = "failed"
    BY <1>0, <1>4, PointMoves DEF CreateReplyLost
  <2>2. Inserts(c)
    BY <1>0, <1>4 DEF CreateReplyLost, Inserts
  <2> QED BY <1>0, <1>f, <2>1, <2>2, ErrorKnows, StepKeeps
<1> QED BY <1>1, <1>2, <1>3, <1>4

(* The two steps of login. *)
LEMMA LoginKeeps ==
    ASSUME AccountInv, NEW c \in Calls, LoginFind(c) \/ LoginCompare(c)
    PROVE  AccountInv'
<1>0. /\ TypeOK /\ Knows(c) /\ FaultsTypeOK' /\ expired' \subseteq Calls
      /\ call[c].row \in Calls \cup {Null} /\ call[c].token \in Calls \cup {Null}
      /\ call[c].body.kind = "login" /\ call[c].pc \in OpenPoints
      /\ UNCHANGED user /\ DOMAIN user \subseteq Calls
  BY DEF AccountInv, TypeOK, CallStates, LoginFind, LoginCompare, Asks, OpenPoints, FaultsTypeOK
<1>1. ASSUME NEW id \in RowsOf(LowerCase[Email(c)]),
             Holds(c, "compare", id)
      PROVE  AccountInv'
  <2>1. id \in DOMAIN user /\ user[id].email = LowerCase[Email(c)] /\ id \in Calls
    BY <1>0, <1>1 DEF RowsOf
  <2>2. Moves(c) /\ call'[c].pc = "compare" /\ call'[c].row = id
    BY <1>0, <1>1, <2>1, RowMoves DEF OpenPoints
  <2>3. Email(c)' = Email(c) /\ call'[c].body.kind = "login"
    BY <1>0, <2>2 DEF Email, Moves
  <2>4. Knows(c)'
    BY <1>0, <2>1, <2>2, <2>3 DEF Knows, RegisterKnows, LoginKnows, CheckKnows
  <2> QED BY <1>0, <2>2, <2>4, StepKeeps DEF Inserts
<1>2. ASSUME NEW pc \in {"denied", "failed"}, Goes(c, pc)
      PROVE  AccountInv'
  BY <1>0, <1>2, ErrorKeeps
<1>3. ASSUME LoginCompare(c), Goes(c, "ok"), user[call[c].row].password = Password(c)
      PROVE  AccountInv'
  <2>1. Moves(c) /\ call'[c].pc = "ok" /\ call'[c].row = call[c].row
    BY <1>0, <1>3, PointMoves
  <2>2. Email(c)' = Email(c) /\ Password(c)' = Password(c) /\ call'[c].body.kind = "login"
    BY <1>0, <2>1 DEF Email, Password, Moves
  <2>3. call[c].row \in DOMAIN user /\ user[call[c].row].email = LowerCase[Email(c)]
    BY <1>0, <1>3 DEF LoginCompare, Asks, Knows, LoginKnows
  <2>4. Knows(c)'
    BY <1>0, <1>3, <2>1, <2>2, <2>3 DEF Knows, RegisterKnows, LoginKnows, CheckKnows
  <2> QED BY <1>0, <2>1, <2>4, StepKeeps DEF Inserts
<1> QED BY <1>1, <1>2, <1>3 DEF LoginFind, LoginCompare

(* The steps of a check. *)
LEMMA CheckKeeps ==
    ASSUME AccountInv, NEW c \in Calls, VerifyToken(c) \/ LoadUser(c) \/ ReadUser(c)
    PROVE  AccountInv'
<1>0. /\ TypeOK /\ Knows(c) /\ FaultsTypeOK' /\ expired' \subseteq Calls
      /\ call \in [Calls -> CallStates]
      /\ call[c].row \in Calls \cup {Null} /\ call[c].token \in Calls \cup {Null}
      /\ call[c].body.kind = "check" /\ call[c].pc \in OpenPoints
      /\ UNCHANGED user
  BY DEF AccountInv, TypeOK, CallStates, VerifyToken, LoadUser, ReadUser, Asks, OpenPoints,
         FaultsTypeOK
<1>t. ASSUME Moves(c), NEW t \in Tokens PROVE t \in Tokens' /\ call'[t] = call[t]
  <2>1. t \in Calls /\ t # c
    BY <1>0 DEF Tokens, Asks, OpenPoints
  <2>2. call'[t] = call[t]
    BY <1>t, <2>1 DEF Moves
  <2> QED BY <2>1, <2>2 DEF Tokens, Asks
<1>1. ASSUME NEW t \in Tokens, call' = [call EXCEPT ![c].pc = "load", ![c].token = t]
      PROVE  AccountInv'
  <2> PICK pc \in OpenPoints : pc = "load"
    BY DEF OpenPoints
  <2>0. t \in Calls \cup {Null} /\ TypeOK /\ call[c].pc \in OpenPoints
        /\ call' = [call EXCEPT ![c].pc = pc, ![c].token = t]
    BY <1>0, <1>1 DEF Tokens
  <2>1. Moves(c) /\ call'[c].pc = "load" /\ call'[c].token = t
    BY <2>0, TokenMoves
  <2>2. t \in Tokens' /\ call'[c].body.kind = "check"
    BY <1>0, <1>t, <2>1 DEF Moves
  <2>3. Knows(c)'
    BY <2>1, <2>2 DEF Knows, RegisterKnows, LoginKnows, CheckKnows
  <2> QED BY <1>0, <2>1, <2>3, StepKeeps DEF Inserts
<1>2. CASE LoadUser(c)
  <2> DEFINE t == call[c].token
             id == call[t].row
  <2>1. t \in Tokens /\ id \in Calls \cup {Null}
    BY <1>0, <1>2 DEF LoadUser, Asks, Knows, CheckKnows, Tokens, CallStates
  <2>2. Moves(c) /\ call'[c].pc = "read" /\ call'[c].row = id /\ call'[c].token = t
    BY <1>0, <1>2, <2>1, RowMoves DEF LoadUser, OpenPoints
  <2>3. t \in Tokens' /\ call'[t] = call[t] /\ call'[c].body.kind = "check"
    BY <1>0, <1>t, <2>1, <2>2 DEF Moves
  <2>4. Knows(c)'
    BY <2>2, <2>3 DEF Knows, RegisterKnows, LoginKnows, CheckKnows
  <2> QED BY <1>0, <2>2, <2>4, StepKeeps DEF Inserts
<1>3. ASSUME NEW pc \in {"denied", "failed"}, Goes(c, pc)
      PROVE  AccountInv'
  BY <1>0, <1>3, ErrorKeeps
<1>4. ASSUME ReadUser(c), Goes(c, "ok")
      PROVE  AccountInv'
  <2> DEFINE t == call[c].token
  <2>1. t \in Tokens /\ call[c].row = call[t].row
    BY <1>0, <1>4 DEF ReadUser, Asks, Knows, CheckKnows
  <2>2. Moves(c) /\ call'[c].pc = "ok" /\ call'[c].row = call[c].row /\ call'[c].token = t
    BY <1>0, <1>4, PointMoves
  <2>3. t \in Tokens' /\ call'[t] = call[t] /\ call'[c].body.kind = "check"
    BY <1>0, <1>t, <2>1, <2>2 DEF Moves
  <2>4. Knows(c)'
    BY <2>1, <2>2, <2>3 DEF Knows, RegisterKnows, LoginKnows, CheckKnows
  <2> QED BY <1>0, <2>2, <2>4, StepKeeps DEF Inserts
<1> QED BY <1>1, <1>2, <1>3, <1>4 DEF VerifyToken, ReadUser

(* The calls and the table alone decide what the invariant says of them. *)
LEMMA AccountsStay ==
    ASSUME AccountInv, UNCHANGED <<user, call>>, expired' \subseteq Calls, FaultsTypeOK'
    PROVE  AccountInv'
<1>1. TypeOK'
  BY DEF AccountInv, TypeOK
<1>2. PointsOfKinds' /\ UniqueEmails'
  BY DEF AccountInv, PointsOfKinds, UniqueEmails
<1>3. ASSUME NEW c \in Calls PROVE Knows(c)'
  <2>1. Knows(c) /\ Email(c)' = Email(c) /\ Password(c)' = Password(c) /\ Tokens' = Tokens
    BY DEF AccountInv, Email, Password, Tokens, Asks
  <2>2. RegisterKnows(c)'
    BY <2>1 DEF Knows, RegisterKnows
  <2>3. LoginKnows(c)'
    BY <2>1 DEF Knows, LoginKnows
  <2>4. CheckKnows(c)'
    BY <2>1 DEF Knows, CheckKnows
  <2> QED BY <2>2, <2>3, <2>4 DEF Knows
<1> QED BY <1>1, <1>2, <1>3 DEF AccountInv

(* A call that fails, and a token that expires. *)
LEMMA OtherKeeps ==
    ASSUME AccountInv, NEW c \in Calls, CallFails(c) \/ TokenExpires(c)
    PROVE  AccountInv'
<1>0. FaultsTypeOK /\ TypeOK
  BY DEF AccountInv, TypeOK
<1>1. CASE CallFails(c)
  <2>1. FaultsTypeOK'
    BY <1>0, <1>1, FaultsStay DEF CallFails, FaultKinds
  <2>2. call[c].pc \in OpenPoints /\ UNCHANGED user /\ expired' \subseteq Calls
    BY <1>0, <1>1 DEF CallFails, Asks, OpenPoints, TypeOK
  <2>3. Goes(c, "denied") \/ Goes(c, "failed")
    BY <1>1 DEF CallFails
  <2> QED BY <2>1, <2>2, <2>3, ErrorKeeps
<1>2. CASE TokenExpires(c)
  <2>1. UNCHANGED <<user, call, faults>> /\ expired' \subseteq Calls
    BY <1>0, <1>2 DEF TokenExpires, Tokens, TypeOK
  <2>2. FaultsTypeOK'
    BY <1>0, <2>1 DEF TypeOK, FaultsTypeOK
  <2> QED BY <2>1, <2>2, AccountsStay
<1> QED BY <1>1, <1>2

(* The invariant holds at first and is kept. *)
LEMMA InitAccountInv == Init => AccountInv
<1> SUFFICES ASSUME Init PROVE AccountInv
  OBVIOUS
<1>1. DOMAIN user = {} /\ user \in [DOMAIN user -> [email : Emails, password : Passwords]]
  BY DEF Init
<1>2. FaultsTypeOK
  BY FaultsAssumption DEF Init, FaultsInit, FaultsTypeOK
<1>3. \A c \in Calls : call[c].pc = "sent"
  BY DEF Init
<1>4. call \in [Calls -> CallStates] /\ expired = {}
  BY DEF Init, CallStates, OpenPoints
<1>5. TypeOK
  BY <1>1, <1>2, <1>3, <1>4 DEF TypeOK
<1> QED BY <1>1, <1>3, <1>5 DEF AccountInv, PointsOfKinds, UniqueEmails, Knows, RegisterKnows,
                                LoginKnows, CheckKnows

LEMMA NextAccountInv == AccountInv /\ [Next]_accountVars => AccountInv'
<1> SUFFICES ASSUME AccountInv, [Next]_accountVars PROVE AccountInv'
  OBVIOUS
<1>1. CASE UNCHANGED accountVars
  BY <1>1, AccountsStay DEF accountVars, AccountInv, TypeOK, FaultsTypeOK
<1>2. CASE Next
  BY <1>2, RegisterKeeps, LoginKeeps, CheckKeeps, OtherKeeps DEF Next, CallStep, CallFault
<1> QED BY <1>1, <1>2

-----------------------------------------------------------------------------
(* Every variable keeps its type, and a login compares with a row that exists. *)
THEOREM TypeCorrect == Spec => []TypeOK
<1>1. AccountInv => TypeOK
  BY DEF AccountInv
<1> QED BY <1>1, InitAccountInv, NextAccountInv, PTL DEF Spec

(* However registrations race, fail and are retried, one address is answered
   200 at most once. *)
THEOREM RegistersOnce == Spec => []RegisteredOnce
<1>1. AccountInv => RegisteredOnce
  <2> SUFFICES ASSUME AccountInv, NEW r \in Calls, NEW s \in Calls, r # s,
                      Asks(r, "register", "ok"), Asks(s, "register", "ok"),
                      Email(r) = Email(s)
               PROVE  FALSE
    BY DEF RegisteredOnce
  <2>1. ASSUME NEW c \in Calls, Asks(c, "register", "ok")
        PROVE  c \in DOMAIN user /\ user[c].email = Email(c)
    <3>1. RegisterKnows(c)
      BY DEF AccountInv, Knows
    <3>2. c \in DOMAIN user /\ user[c] = [email |-> Email(c), password |-> Password(c)]
      BY <2>1, <3>1 DEF RegisterKnows, Asks
    <3> QED BY <3>2
  <2>2. user[r].email = user[s].email /\ r \in DOMAIN user /\ s \in DOMAIN user
    BY <2>1
  <2> QED BY <2>2 DEF AccountInv, UniqueEmails
<1> QED BY <1>1, InitAccountInv, NextAccountInv, PTL DEF Spec

(* Tokens go to who knows the password, and name the account it belongs to. *)
THEOREM TokensAreTheirs == Spec => []TokensNameTheirOwner
<1>1. AccountInv => TokensNameTheirOwner
  <2> SUFFICES ASSUME AccountInv, NEW c \in Calls
               PROVE  /\ Asks(c, "login", "ok") =>
                            user[call[c].row] = [email |-> LowerCase[Email(c)],
                                                 password |-> Password(c)]
                      /\ Asks(c, "check", "ok") =>
                            call[c].token \in Tokens /\ call[c].row = call[call[c].token].row
    BY DEF TokensNameTheirOwner
  <2>1. Knows(c) /\ user \in [DOMAIN user -> [email : Emails, password : Passwords]]
    BY DEF AccountInv, TypeOK
  <2>2. \A id \in DOMAIN user :
            user[id] = [email |-> user[id].email, password |-> user[id].password]
    BY <2>1
  <2> QED BY <2>1, <2>2 DEF Knows, LoginKnows, CheckKnows, Asks
<1> QED BY <1>1, InitAccountInv, NextAccountInv, PTL DEF Spec

(* Who was told that the account exists can log in, if the address was
   registered in lower case and the database answers. *)
THEOREM RegisteredLogsIn == Spec => RegisteredCanLogIn
<1> DEFINE P(r, c) == (/\ call[c].body.kind = "login" /\ call[c].pc \in OpenPoints
                       /\ Asks(r, "register", "ok")
                       /\ Email(r) = LowerCase[Email(c)] /\ Password(r) = Password(c))
                      => call'[c].pc # "denied" \/ faults' > faults
<1>1. AccountInv /\ [Next]_accountVars => [\A r, c \in Calls : P(r, c)]_accountVars
  <2> SUFFICES ASSUME AccountInv, Next, NEW r \in Calls, NEW c \in Calls,
                      call[c].body.kind = "login", call[c].pc \in OpenPoints,
                      Asks(r, "register", "ok"),
                      Email(r) = LowerCase[Email(c)], Password(r) = Password(c),
                      call'[c].pc = "denied"
               PROVE  faults' > faults
    OBVIOUS
  <2>0. /\ TypeOK /\ Knows(c) /\ Knows(r) /\ UniqueEmails /\ PointsOfKinds
        /\ call \in [Calls -> CallStates] /\ faults \in Nat
    BY FaultsAssumption DEF AccountInv, TypeOK, FaultsTypeOK
  <2>1. r \in RowsOf(LowerCase[Email(c)]) /\ user[r].password = Password(c)
    BY <2>0 DEF Knows, RegisterKnows, Asks, RowsOf
  <2>2. \A id \in RowsOf(LowerCase[Email(c)]) : id = r
    BY <2>0, <2>1 DEF UniqueEmails, RowsOf
  <2>3. call[c].pc # "denied"
    BY DEF OpenPoints
  <2>4. ASSUME NEW d \in Calls, d # c,
               \/ RegisterLookup(d) \/ RegisterCreate(d) \/ LoginFind(d) \/ LoginCompare(d)
               \/ VerifyToken(d) \/ LoadUser(d) \/ ReadUser(d) \/ TokenExpires(d)
               \/ CallFails(d) \/ CreateReplyLost(d)
        PROVE  FALSE
    <3>1. call'[c] = call[c]
      BY <2>0, <2>4 DEF RegisterLookup, RegisterCreate, LoginFind, LoginCompare, VerifyToken,
                        LoadUser, ReadUser, TokenExpires, CallFails, CreateReplyLost, Goes, Holds
    <3> QED BY <2>3, <3>1
  <2>5. ASSUME LoginFind(c) PROVE FALSE
    <3>1. PICK id \in RowsOf(LowerCase[Email(c)]) : Holds(c, "compare", id)
      BY <2>1, <2>5 DEF LoginFind
    <3>2. call'[c].pc = "compare"
      BY <2>0, <3>1 DEF Holds, CallStates
    <3> QED BY <3>2
  <2>6. ASSUME LoginCompare(c) PROVE FALSE
    <3>1. call[c].row = r
      BY <2>0, <2>2, <2>6 DEF LoginCompare, Asks, Knows, LoginKnows, RowsOf
    <3>2. Goes(c, IF TtlIsNumber THEN "ok" ELSE "failed")
      BY <2>1, <2>6, <3>1 DEF LoginCompare
    <3>3. call'[c].pc = IF TtlIsNumber THEN "ok" ELSE "failed"
      BY <2>0, <3>2 DEF Goes, CallStates
    <3> QED BY <3>3
  <2>7. ASSUME CallFails(c) PROVE faults' > faults
    BY <2>0, <2>7 DEF CallFails, Spend
  <2>8. ~TokenExpires(c)
    BY DEF TokenExpires, Tokens, Asks, OpenPoints
  <2>9. /\ ~RegisterLookup(c) /\ ~RegisterCreate(c) /\ ~CreateReplyLost(c)
        /\ ~VerifyToken(c) /\ ~LoadUser(c) /\ ~ReadUser(c)
    BY DEF RegisterLookup, RegisterCreate, CreateReplyLost, VerifyToken, LoadUser, ReadUser, Asks
  <2> QED BY <2>4, <2>5, <2>6, <2>7, <2>8, <2>9 DEF Next, CallStep, CallFault
<1> QED BY <1>1, InitAccountInv, NextAccountInv, PTL DEF Spec, RegisteredCanLogIn
=============================================================================
