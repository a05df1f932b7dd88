------------------------- MODULE AccountsRefinement --------------------------
(***************************************************************************)
(* Accounts implements AccountRegistry: the step that answers a call maps   *)
(* to the registry's answer, and every other step to none.                  *)
(***************************************************************************)
EXTENDS AccountsProofs

(* An answered call holds a row, the registration of its own. *)
LEMMA AnsweredRow ==
    ASSUME AccountInv, NEW c \in Calls, call[c].pc = "ok"
    PROVE  call[c].row \in DOMAIN user
<1>1. Knows(c) /\ call[c].body \in CallBodies
  BY DEF AccountInv, TypeOK, CallStates
<1>2. call[c].body.kind \in {"register", "login", "check"}
  BY <1>1, CallBodiesAssumption
<1>3. CASE call[c].body.kind = "check"
  <2>1. call[c].token \in Tokens /\ call[c].row = call[call[c].token].row
    BY <1>1, <1>3 DEF Knows, CheckKnows
  <2>2. Knows(call[c].token)
    BY <2>1 DEF AccountInv, Tokens
  <2> QED BY <2>1, <2>2 DEF Knows, LoginKnows, Tokens, Asks
<1> QED BY <1>1, <1>2, <1>3 DEF Knows, RegisterKnows, LoginKnows

(* Rows stay when a call moves. *)
RowsStay == \A id \in DOMAIN user : id \in DOMAIN user' /\ user'[id] = user[id]

LEMMA OthersAnswers ==
    ASSUME AccountInv, RowsStay, NEW c \in Calls, Moves(c), NEW d \in Calls \ {c}
    PROVE  AnswerOf(d)' = AnswerOf(d)
<1>1. call'[d] = call[d]
  BY DEF Moves
<1>2. call[d].pc = "ok" => user'[call[d].row] = user[call[d].row]
  BY AnsweredRow DEF RowsStay
<1> QED BY <1>1, <1>2 DEF AnswerOf

(* A step that leaves its call open is none of the registry's. *)
LEMMA OpenSteps ==
    ASSUME AccountInv, NEW c \in Calls, Moves(c), call'[c].pc \in OpenPoints,
           UNCHANGED <<user, faults>>
    PROVE  UNCHANGED Registry!registryVars
<1>1. \A d \in Calls \ {c} : AnswerOf(d)' = AnswerOf(d)
  BY OthersAnswers DEF RowsStay
<1>2. AnswerOf(c)' = AnswerOf(c)
  BY DEF AnswerOf, Moves, OpenPoints
<1>3. \A d \in Calls : call'[d].body = call[d].body
  BY DEF Moves
<1> QED BY <1>1, <1>2, <1>3 DEF Registry!registryVars

(* A step that answers its call is the registry's answer. *)
LEMMA AnswerSteps ==
    ASSUME AccountInv, RowsStay, NEW c \in Calls, Moves(c),
           NEW outcome \in {"ok", "denied", "failed"}, call'[c].pc = outcome
    PROVE  Registry!Answer(c, outcome, IF outcome = "ok" THEN user'[call'[c].row] ELSE Null)
<1>1. \A d \in Calls \ {c} : AnswerOf(d)' = AnswerOf(d)
  BY OthersAnswers
<1>2. AnswerOf(c)' = [outcome |-> outcome,
                      account |-> IF outcome = "ok" THEN user'[call'[c].row] ELSE Null]
  BY DEF AnswerOf, OpenPoints
<1>3. AnswerOf(c) = [outcome |-> "open", account |-> Null]
  BY DEF AnswerOf, Moves, OpenPoints
<1>4. \A d \in Calls : call'[d].body = call[d].body
  BY DEF Moves
<1> QED BY <1>1, <1>2, <1>3, <1>4 DEF Registry!Answer, Registry!Open

(* What the registry's words stand for. *)
LEMMA Words ==
    ASSUME AccountInv, NEW c \in Calls
    PROVE  /\ Registry!Wants(c) = [email |-> Email(c), password |-> Password(c)]
           /\ Registry!LogsInTo(c) = [email |-> LowerCase[Email(c)], password |-> Password(c)]
           /\ \A email : Registry!Taken(email) <=> RowsOf(email) # {}
BY DEF Registry!Wants, Registry!LogsInTo, Registry!Taken, RowsOf, Email, Password

(* The insert of a registration adds its account. *)
LEMMA InsertAdds ==
    ASSUME AccountInv, NEW c \in Calls, call[c].body.kind = "register",
           c \notin DOMAIN user, ~EmailTaken(Email(c)), InsertUser(c)
    PROVE  /\ Registry!AddAccount(c) /\ RowsStay
           /\ user'[c] = [email |-> Email(c), password |-> Password(c)]
<1>1. /\ DOMAIN user' = DOMAIN user \cup {c}
      /\ user'[c] = [email |-> Email(c), password |-> Password(c)]
      /\ RowsStay
  BY DEF InsertUser, RowsStay
<1>2. {user'[id] : id \in DOMAIN user'} =
        {user[id] : id \in DOMAIN user} \cup {[email |-> Email(c), password |-> Password(c)]}
  BY <1>1 DEF RowsStay
<1>3. ~Registry!Taken(Email(c))
  BY Words DEF EmailTaken
<1> QED BY <1>1, <1>2, <1>3, Words DEF Registry!AddAccount, Email

-----------------------------------------------------------------------------
(* What every call has to go by. *)
LEMMA CallFacts ==
    ASSUME AccountInv, NEW c \in Calls
    PROVE  /\ TypeOK /\ UniqueEmails /\ Knows(c)
           /\ call[c].body \in CallBodies
           /\ call[c].row \in Calls \cup {Null} /\ call[c].token \in Calls \cup {Null}
BY DEF AccountInv, TypeOK, CallStates

LEMMA RegisterMaps ==
    ASSUME AccountInv, NEW c \in Calls, RegisterLookup(c) \/ RegisterCreate(c)
    PROVE  [Registry!RegistryNext]_(Registry!registryVars)
<1>0. /\ TypeOK /\ Knows(c) /\ call[c].pc \in OpenPoints /\ UNCHANGED faults
      /\ call[c].body.kind = "register" /\ c \notin DOMAIN user
  BY CallFacts DEF RegisterLookup, RegisterCreate, Asks, OpenPoints, Knows, RegisterKnows
<1>1. ASSUME Goes(c, "create"), UNCHANGED user
      PROVE  UNCHANGED Registry!registryVars
  BY <1>0, <1>1, PointMoves, OpenSteps DEF OpenPoints
<1>2. ASSUME Goes(c, "failed"), UNCHANGED user,
             RowsOf(LowerCase[Email(c)]) # {} \/ EmailTaken(Email(c))
      PROVE  Registry!RefuseRegister(c)
  <2>1. Moves(c) /\ call'[c].pc = "failed" /\ RowsStay
    BY <1>0, <1>2, PointMoves DEF RowsStay
  <2>2. Registry!Answer(c, "failed", Null)
    BY <2>1, AnswerSteps
  <2>3. Registry!Taken(Email(c)) \/ Registry!Taken(LowerCase[Email(c)])
    BY <1>2, Words DEF EmailTaken
  <2> QED BY <1>0, <1>2, <2>2, <2>3 DEF Registry!RefuseRegister, Email
<1>3. ASSUME ~EmailTaken(Email(c)), InsertUser(c), Holds(c, "ok", c)
      PROVE  Registry!Register(c)
  <2>1. Registry!AddAccount(c) /\ RowsStay
        /\ user'[c] = [email |-> Email(c), password |-> Password(c)]
    BY <1>0, <1>3, InsertAdds
  <2>2. Moves(c) /\ call'[c].pc = "ok" /\ call'[c].row = c
    BY <1>0, <1>3, RowMoves
  <2>3. Registry!Answer(c, "ok", user'[c])
    BY <2>1, <2>2, AnswerSteps
  <2> QED BY <1>0, <2>1, <2>3, Words DEF Registry!Register
<1> QED BY <1>1, <1>2, <1>3 DEF RegisterLookup, RegisterCreate, Registry!RegistryNext

(* An address has one row: whether the account that a login is for exists can
   be seen from the row it found. *)
LEMMA LoginMaps ==
    ASSUME AccountInv, NEW c \in Calls, LoginFind(c) \/ LoginCompare(c)
    PROVE  [Registry!RegistryNext]_(Registry!registryVars)
<1> DEFINE wanted == [email |-> LowerCase[Email(c)], password |-> Password(c)]
           rows   == {user[id] : id \in DOMAIN user}
<1>0. /\ TypeOK /\ UniqueEmails /\ Knows(c) /\ call[c].pc \in OpenPoints
      /\ UNCHANGED <<user, faults>> /\ RowsStay
      /\ call[c].body.kind = "login" /\ call[c].row \in Calls \cup {Null}
  BY CallFacts DEF LoginFind, LoginCompare, Asks, OpenPoints, RowsStay
<1>1. ASSUME NEW id \in RowsOf(LowerCase[Email(c)]), Holds(c, "compare", id)
      PROVE  UNCHANGED Registry!registryVars
  <2>1. id \in Calls
    BY <1>0, <1>1 DEF RowsOf, TypeOK
  <2> QED BY <1>0, <1>1, <2>1, RowMoves, OpenSteps DEF OpenPoints
<1>2. ASSUME Goes(c, "denied"), wanted \notin rows
      PROVE  Registry!LogIn(c)
  <2>1. Registry!Answer(c, "denied", Null)
    BY <1>0, <1>2, PointMoves, AnswerSteps
  <2> HIDE DEF wanted
  <2> QED BY <1>0, <1>2, <2>1, Words DEF Registry!LogIn, wanted
<1>3. ASSUME RowsOf(LowerCase[Email(c)]) = {}
      PROVE  wanted \notin rows
  BY <1>3 DEF RowsOf
<1>4. ASSUME LoginCompare(c)
      PROVE  /\ call[c].row \in DOMAIN user
             /\ wanted \in rows <=> user[call[c].row].password = Password(c)
             /\ wanted \in rows => wanted = user[call[c].row]
  <2>1. call[c].row \in DOMAIN user /\ user[call[c].row].email = LowerCase[Email(c)]
    BY <1>0, <1>4 DEF LoginCompare, Asks, Knows, LoginKnows
  <2>2. user[call[c].row] = [email |-> user[call[c].row].email,
                             password |-> user[call[c].row].password]
    BY <1>0, <2>1 DEF TypeOK
  <2>3. \A id \in DOMAIN user : user[id] = wanted => id = call[c].row
    BY <1>0, <2>1 DEF UniqueEmails
  <2> QED BY <2>1, <2>2, <2>3
<1>5. ASSUME Goes(c, "ok"), wanted \in rows, wanted = user[call[c].row], TtlIsNumber
      PROVE  Registry!LogIn(c)
  <2>1. Moves(c) /\ call'[c].pc = "ok" /\ call'[c].row = call[c].row
    BY <1>0, <1>5, PointMoves
  <2>2. Registry!Answer(c, "ok", wanted)
    BY <1>0, <1>5, <2>1, AnswerSteps
  <2> HIDE DEF wanted
  <2> QED BY <1>0, <1>5, <2>2, Words DEF Registry!LogIn, wanted
<1>6. ASSUME Goes(c, "failed"), wanted \in rows, ~TtlIsNumber
      PROVE  Registry!LogIn(c)
  <2>1. Registry!Answer(c, "failed", Null)
    BY <1>0, <1>6, PointMoves, AnswerSteps
  <2> HIDE DEF wanted
  <2> QED BY <1>0, <1>6, <2>1, Words DEF Registry!LogIn, wanted
<1> HIDE DEF wanted, rows
<1>7. CASE LoginFind(c)
  BY <1>1, <1>2, <1>3, <1>7 DEF LoginFind, Registry!RegistryNext
<1>8. CASE LoginCompare(c)
  BY <1>2, <1>4, <1>5, <1>6, <1>8 DEF LoginCompare, Registry!RegistryNext
<1> QED BY <1>7, <1>8

LEMMA CheckMaps ==
    ASSUME AccountInv, NEW c \in Calls, VerifyToken(c) \/ LoadUser(c) \/ ReadUser(c)
    PROVE  [Registry!RegistryNext]_(Registry!registryVars)
<1>0. /\ TypeOK /\ Knows(c) /\ call[c].pc \in OpenPoints
      /\ UNCHANGED <<user, faults>> /\ RowsStay /\ call[c].body.kind = "check"
      /\ \A t \in Tokens : call[t].row \in Calls \cup {Null}
  BY CallFacts DEF VerifyToken, LoadUser, ReadUser, Asks, OpenPoints, RowsStay, Tokens
<1>1. ASSUME NEW t \in Tokens, call' = [call EXCEPT ![c].pc = "load", ![c].token = t]
      PROVE  UNCHANGED Registry!registryVars
  BY <1>0, <1>1, TokenMoves, OpenSteps DEF OpenPoints, Tokens
<1>2. CASE LoadUser(c)
  <2>1. call[c].token \in Tokens
    BY <1>0, <1>2 DEF LoadUser, Asks, Knows, CheckKnows
  <2>2. Moves(c) /\ call'[c].pc = "read"
    BY <1>0, <1>2, <2>1, RowMoves DEF LoadUser, OpenPoints
  <2>3. UNCHANGED Registry!registryVars
    BY <1>0, <2>2, OpenSteps DEF OpenPoints
  <2> QED BY <2>3
<1>3. ASSUME Goes(c, "failed") PROVE Registry!Check(c)
  <2>1. Registry!Answer(c, "failed", Null)
    BY <1>0, <1>3, PointMoves, AnswerSteps
  <2> QED BY <1>0, <2>1 DEF Registry!Check
<1>4. ASSUME ReadUser(c), Goes(c, "ok") PROVE Registry!Check(c)
  <2>1. call[c].token \in Tokens /\ call[c].row = call[call[c].token].row
    BY <1>0, <1>4 DEF ReadUser, Asks, Knows, CheckKnows
  <2>2. Moves(c) /\ call'[c].pc = "ok" /\ call'[c].row = call[c].row
    BY <1>0, <1>4, PointMoves
  <2>3. Registry!Answer(c, "ok", user[call[call[c].token].row])
    BY <1>0, <2>1, <2>2, AnswerSteps
  <2>4. /\ call[c].token \in Calls /\ call[call[c].token].body.kind = "login"
        /\ AnswerOf(call[c].token) =
              [outcome |-> "ok", account |-> user[call[call[c].token].row]]
    BY <2>1 DEF Tokens, Asks, AnswerOf, OpenPoints
  <2> QED BY <1>0, <2>3, <2>4 DEF Registry!Check
<1> QED BY <1>1, <1>2, <1>3, <1>4 DEF VerifyToken, ReadUser, Registry!RegistryNext

LEMMA FaultMaps ==
    ASSUME AccountInv, NEW c \in Calls, CallFault(c)
    PROVE  Registry!TurnDown(c)
<1>0. TypeOK /\ Knows(c) /\ faults \in Nat
  BY CallFacts, FaultsAssumption DEF TypeOK, FaultsTypeOK
<1>1. faults' > faults /\ call[c].pc \in OpenPoints
  BY <1>0 DEF CallFault, CallFails, CreateReplyLost, Spend, Asks, OpenPoints
<1>2. \E pc \in {"denied", "failed"} : Goes(c, pc)
  BY DEF CallFault, CallFails, CreateReplyLost
<1>3. RowsStay /\ (Registry!AddAccount(c) \/ UNCHANGED {user[id] : id \in DOMAIN user})
  <2>1. CASE CallFails(c)
    BY <2>1 DEF CallFails, RowsStay
  <2>2. CASE CreateReplyLost(c)
    BY <1>0, <2>2, InsertAdds DEF CreateReplyLost, Asks, Knows, RegisterKnows
  <2> QED BY <2>1, <2>2 DEF CallFault
<1>4. PICK pc \in {"denied", "failed"} : Goes(c, pc)
  BY <1>2
<1>5. Registry!Answer(c, pc, Null)
  BY <1>0, <1>1, <1>3, <1>4, PointMoves, AnswerSteps
<1> QED BY <1>1, <1>3, <1>5 DEF Registry!TurnDown

LEMMA InitMaps == Init => Registry!RegistryInit
<1> SUFFICES ASSUME Init PROVE Registry!RegistryInit
  OBVIOUS
<1>1. {user[id] : id \in DOMAIN user} = {}
  BY DEF Init
<1>2. [c \in Calls |-> call[c].body] \in [Calls -> CallBodies]
  BY DEF Init
<1>3. \A c \in Calls : AnswerOf(c) = [outcome |-> "open", account |-> Null]
  BY DEF Init, AnswerOf, OpenPoints
<1>4. FaultsInit
  BY DEF Init
<1> QED BY <1>1, <1>2, <1>3, <1>4
        DEF Registry!RegistryInit, Registry!Open, Registry!FaultsInit, FaultsInit

LEMMA NextMaps ==
    AccountInv /\ [Next]_accountVars => [Registry!RegistryNext]_(Registry!registryVars)
<1> SUFFICES ASSUME AccountInv, [Next]_accountVars
             PROVE  [Registry!RegistryNext]_(Registry!registryVars)
  OBVIOUS
<1>1. CASE UNCHANGED <<user, call, faults>>
  BY <1>1 DEF Registry!registryVars, AnswerOf
<1>2. ASSUME NEW c \in Calls, CallStep(c)
      PROVE  [Registry!RegistryNext]_(Registry!registryVars)
  BY <1>2, RegisterMaps, LoginMaps, CheckMaps DEF CallStep
<1>3. ASSUME NEW c \in Calls, CallFault(c)
      PROVE  Registry!RegistryNext
  BY <1>3, FaultMaps DEF Registry!RegistryNext
<1> QED BY <1>1, <1>2, <1>3 DEF Next, accountVars, TokenExpires

(* Every behaviour of the accounts is one of the registry: each call is answered
   at one moment, from the accounts there are then. *)
THEOREM AccountsImplementRegistry == Spec => ImplementsRegistry
BY InitMaps, NextMaps, InitAccountInv, NextAccountInv, PTL
   DEF Spec, ImplementsRegistry, Registry!RegistrySpec
=============================================================================
