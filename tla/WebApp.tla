------------------------------- MODULE WebApp --------------------------------
(***************************************************************************)
(* The web app and the API's accounts, composed: the login and register     *)
(* forms of the tabs send calls, and their answers move the session.  The   *)
(* web app never sends its token, so that checks of one, and its exp claim, *)
(* are left to Accounts alone.                                              *)
(***************************************************************************)
EXTENDS Accounts, Session

VARIABLE sent       \* calls a form has sent

tables  == <<user, call, expired>>
webVars == <<tables, sessionVars, sent, faults>>

WebInit == Init /\ SessionInit /\ sent = {}

SubmitForm(t, c) ==
    /\ c \notin sent /\ call[c].body.kind = tab[t].page
    /\ Submit(t, c)
    /\ sent' = sent \cup {c}
    /\ UNCHANGED tables

(* Mutation: the thunk does not look at the status of the answer. *)
AnyAnswerFulfils(t, c) ==
    \/ /\ call[c].pc \notin OpenPoints
       /\ IF call[c].body.kind = "login" THEN LoginFulfilled(t) ELSE RegisterFulfilled(t)
       /\ UNCHANGED faults
    \/ Spend("net") /\ Rejected(t)

(* The thunk is fulfilled by a 200 and rejected by any other answer, or by
   none. *)
Settle(t, c) ==
    \/ Asks(c, "login", "ok") /\ LoginFulfilled(t) /\ UNCHANGED faults
    \/ Asks(c, "register", "ok") /\ RegisterFulfilled(t) /\ UNCHANGED faults
    \/ call[c].pc \in {"denied", "failed"} /\ Rejected(t) /\ UNCHANGED faults
    \/ Spend("net") /\ Rejected(t)

ReceiveAnswer(t) ==
    /\ tab[t].wait # Null
    /\ Settle(t, tab[t].wait)
    /\ UNCHANGED <<tables, sent>>

ApiStep(c) == c \in sent /\ (CallStep(c) \/ CallFault(c))

WebNext ==
    \/ \E t \in Tabs, c \in Calls : SubmitForm(t, c)
    \/ \E t \in Tabs : ReceiveAnswer(t)
    \/ \E t \in Tabs : TabStep(t) /\ UNCHANGED <<tables, sent>>
    \/ CookieExpires /\ UNCHANGED <<tables, sent>>
    \/ \E c \in Calls : ApiStep(c) /\ UNCHANGED <<sessionVars, sent>>

WebSpec == WebInit /\ [][WebNext]_webVars

-----------------------------------------------------------------------------
(* While a call of a tab is unanswered its forms are disabled: rehydration,
   which may bring back any slice, never lets it send a second one. *)
OneCallPerTab == \A t \in Tabs : tab[t].wait # Null => tab[t].ready /\ tab[t].auth.loading

(* Whatever the tabs and the stores exchange, no copy of a session is there
   that was not earned in this browser: by a call of its forms that gave the
   address and the password of the account it shows. *)
Copies == {cookie} \cup {session[t] : t \in Tabs} \cup {tab[t].auth.token : t \in Tabs}
            \cup (IF stored = Null THEN {} ELSE {stored.token})

SessionsAreEarned ==
    \A c \in Copies \ {Null} :
        /\ c \in sent /\ call[c].body.kind = "login"
        /\ call[c].row \in DOMAIN user
        /\ user[call[c].row].email = LowerCase[Email(c)]
        /\ user[call[c].row].password = Password(c)

(* With one tab, and no page left before its slice is written, the four copies
   agree: who the dashboard shows is who the cookie lets in, and a logout leaves
   no copy behind, through reloads, failed logins, a closed tab and an expired
   cookie. *)
OnlyTab(t) == \A u \in Tabs \ {t} : tab[u].page = "new"

CopiesAgree ==
    ~torn =>
    \A t \in Tabs :
        (OnlyTab(t) /\ tab[t].ready) =>
            LET token == tab[t].auth.token IN
            /\ cookie \in {token, Null}
            /\ session[t] \in {token, Null}
            /\ tab[t].dirty \/ stored.token = token

(* No session comes back: the cookie names a login only from the moment its
   answer arrives, and not again once it was given up. *)
NoSessionComesBack ==
    [][cookie' \notin {cookie, Null} => \E t \in Tabs : tab[t].wait = cookie']_webVars

-----------------------------------------------------------------------------
(* What the documents say, and the code does not do. *)

(* apps/app/README.md: /login and /register are public.  Their forms can be
   used whenever no call is on its way. *)
FormsUnlock ==
    (\A t \in Tabs : tab[t].wait = Null) =>
        \A t \in Tabs : tab[t].page \in PublicPages /\ tab[t].ready => CanSubmit(t)
=============================================================================
