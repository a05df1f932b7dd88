---------------------------- MODULE WebAppProofs -----------------------------
(***************************************************************************)
(* Theorems of WebApp for every set of tabs, calls, addresses and passwords *)
(* and any faults.  A step moves one tab: what it leaves the tab with, and  *)
(* what the stores then hold, is enough to see that the invariant is kept   *)
(* (TabKeeps).                                                              *)
(***************************************************************************)
EXTENDS WebApp, AccountsProofs

(* What a token may be: none, or a login that was sent and answered 200. *)
Earned == {Null} \cup {c \in sent : Asks(c, "login", "ok")}

(* All copies are earned, and what is awaited was sent. *)
EarnedInv ==
    /\ sent \subseteq Calls
    /\ \A t \in Tabs :
        /\ session[t] \in Earned /\ tab[t].auth.token \in Earned
        /\ tab[t].wait \in sent \cup {Null}
    /\ stored # Null => stored.token \in Earned
    /\ cookie \in Earned

(* A tab without a page runs nothing. *)
Idle(s) == ~s.ready /\ ~s.dirty /\ s.wait = Null /\ s.going = Null

IdleInv == \A t \in Tabs : tab[t].page \notin Pages => Idle(tab[t])

(* How a tab s with sessionStorage e agrees with localStorage l and cookie k:
   before it is rehydrated by what it will find there, and then by its slice. *)
Kept(l) == IF l = Null THEN Null ELSE l.token

Agree(s, e, l, k) ==
    \/ /\ s.ready
       /\ k \in {s.auth.token, Null} /\ e \in {s.auth.token, Null}
       /\ s.dirty \/ (l # Null /\ l.token = s.auth.token)
    \/ /\ ~s.ready /\ ~s.dirty
       /\ s.auth.token = e
       /\ k \in {Kept(l), Null} /\ e \in {Kept(l), Null}

AgreeInv ==
    ~torn => \A t \in Tabs : OnlyTab(t) => Agree(tab[t], session[t], stored, cookie)

WebInv ==
    AccountInv /\ SessionTypeOK /\ OneCallPerTab /\ EarnedInv /\ IdleInv /\ AgreeInv

-----------------------------------------------------------------------------
(* A session that is earned stays so. *)
LEMMA EarnedGrows ==
    ASSUME UNCHANGED call, sent \subseteq sent'
    PROVE  Earned \subseteq Earned'
BY DEF Earned, Asks

(* The accounts do not mind what tabs do. *)
LEMMA TablesStay ==
    ASSUME AccountInv, UNCHANGED tables, FaultsTypeOK'
    PROVE  AccountInv'
BY AccountsStay DEF tables, AccountInv, TypeOK

(* What is left to show of a step that moves tab t to state s. *)
LEMMA TabKeeps ==
    ASSUME WebInv, AccountInv', Earned \subseteq Earned', sent \subseteq sent', sent' \subseteq Calls,
           NEW t \in Tabs, NEW s \in TabStates, tab' = [tab EXCEPT ![t] = s],
           s.page # "new", s.page \notin Pages => Idle(s) /\ session'[t] = Null,
           s.wait # Null => s.ready /\ s.auth.loading,
           s.wait \in sent' \cup {Null}, s.auth.token \in Earned',
           NEW e \in Earned' \cap TokenOrNone, session' = [session EXCEPT ![t] = e],
           stored' \in AuthState \cup {Null}, stored' # Null => stored'.token \in Earned',
           cookie' \in Earned' \cap TokenOrNone,
           torn' \in BOOLEAN, torn => torn',
           ~torn' /\ OnlyTab(t) => Agree(s, e, stored', cookie')
    PROVE  WebInv'
<1>0. /\ SessionTypeOK /\ OneCallPerTab /\ EarnedInv /\ IdleInv
      /\ tab \in [Tabs -> TabStates] /\ session \in [Tabs -> TokenOrNone]
  BY DEF WebInv, SessionTypeOK
<1>1. /\ tab'[t] = s /\ session'[t] = e
      /\ \A u \in Tabs \ {t} : tab'[u] = tab[u] /\ session'[u] = session[u]
      /\ tab' \in [Tabs -> TabStates] /\ session' \in [Tabs -> TokenOrNone]
  BY <1>0
<1>2. SessionTypeOK'
  BY <1>0, <1>1 DEF SessionTypeOK
<1>3. OneCallPerTab'
  BY <1>0, <1>1 DEF OneCallPerTab
<1>4. EarnedInv'
  BY <1>0, <1>1 DEF EarnedInv
<1>5. IdleInv'
  BY <1>0, <1>1 DEF IdleInv
<1>6. AgreeInv'
  <2> SUFFICES ASSUME ~torn', NEW u \in Tabs, OnlyTab(u)'
               PROVE  Agree(tab'[u], session'[u], stored', cookie')
    BY DEF AgreeInv
  <2>1. u = t
    BY <1>1 DEF OnlyTab
  <2>2. OnlyTab(t)
    BY <1>1, <2>1 DEF OnlyTab
  <2> QED BY <1>1, <2>1, <2>2
<1> QED BY <1>2, <1>3, <1>4, <1>5, <1>6 DEF WebInv

(* What a tab knows. *)
LEMMA TabFacts ==
    ASSUME WebInv, NEW t \in Tabs
    PROVE  /\ tab \in [Tabs -> TabStates] /\ session \in [Tabs -> TokenOrNone]
           /\ tab[t] \in TabStates /\ tab[t].page \in Pages \cup {"new", "closed"}
           /\ tab[t].auth \in AuthState /\ tab[t].auth.token \in Earned \cap TokenOrNone
           /\ tab[t].auth.loading \in BOOLEAN
           /\ tab[t].wait \in sent \cup {Null} /\ tab[t].wait \in TokenOrNone
           /\ tab[t].ready \in BOOLEAN /\ tab[t].dirty \in BOOLEAN
           /\ tab[t].going \in Pages \cup {Null}
           /\ tab[t].wait # Null => tab[t].ready /\ tab[t].auth.loading
           /\ session[t] \in Earned \cap TokenOrNone
           /\ stored \in AuthState \cup {Null} /\ (stored # Null => stored.token \in Earned)
           /\ cookie \in Earned \cap TokenOrNone
           /\ torn \in BOOLEAN /\ sent \subseteq Calls
           /\ tab[t].page \notin Pages => Idle(tab[t]) /\ session[t] = Null
           /\ ~torn /\ OnlyTab(t) => Agree(tab[t], session[t], stored, cookie)
           /\ session = [session EXCEPT ![t] = session[t]]
BY DEF WebInv, SessionTypeOK, OneCallPerTab, EarnedInv, IdleInv, AgreeInv, TabStates, AuthState

-----------------------------------------------------------------------------
(* A page is left torn, or with nothing to write. *)
LEMMA LeaveFacts ==
    ASSUME WebInv, NEW t \in Tabs, Leave(t)
    PROVE  /\ FaultsTypeOK' /\ torn' \in BOOLEAN /\ (torn => torn')
           /\ ~torn' => ~torn /\ ~tab[t].dirty
<1>1. FaultsTypeOK /\ torn \in BOOLEAN /\ tab[t].dirty \in BOOLEAN
  BY TabFacts DEF WebInv, AccountInv, TypeOK
<1> QED BY <1>1, FaultsStay DEF Leave, FaultKinds

LEMMA LoadKeeps ==
    ASSUME WebInv, NEW t \in Tabs, NEW page \in Pages, Load(t, page), UNCHANGED <<tables, sent>>
    PROVE  WebInv'
<1> DEFINE s == Loaded(Proxy(page), session[t])
<1>1. Proxy(page) \in Pages /\ session[t] \in TokenOrNone
  BY TabFacts DEF Proxy, Pages, PublicPages
<1>2. s \in TabStates /\ s.page = Proxy(page) /\ s.auth.token = session[t] /\ s.wait = Null
      /\ ~s.ready /\ ~s.dirty
  BY <1>1 DEF Loaded, TabStates, AuthState, TokenOrNone
<1>3. tab' = [tab EXCEPT ![t] = s] /\ UNCHANGED <<session, stored, cookie>>
  BY DEF Load, stores
<1>4. AccountInv' /\ Earned' = Earned
  BY LeaveFacts, TablesStay DEF Load, WebInv, Earned, tables, Asks
<1> HIDE DEF s
<1>5. ~torn' /\ OnlyTab(t) => Agree(s, session[t], stored', cookie')
  BY <1>2, <1>3, TabFacts, LeaveFacts DEF Load, Agree, Kept
<1>6. /\ s.page \in Pages /\ s.page # "new" /\ session[t] \in Earned' \cap TokenOrNone
      /\ session' = [session EXCEPT ![t] = session[t]] /\ s.wait = Null /\ s.auth.token \in Earned'
      /\ stored' \in AuthState \cup {Null} /\ (stored' # Null => stored'.token \in Earned')
      /\ cookie' \in Earned' \cap TokenOrNone /\ sent' = sent /\ sent \subseteq Calls
  BY <1>1, <1>2, <1>3, <1>4, TabFacts DEF Pages, PublicPages
<1>7. torn' \in BOOLEAN /\ (torn => torn')
  BY LeaveFacts DEF Load
<1> QED BY <1>2, <1>3, <1>4, <1>5, <1>6, <1>7, TabKeeps

LEMMA CloseKeeps ==
    ASSUME WebInv, NEW t \in Tabs, Close(t), UNCHANGED <<tables, sent>>
    PROVE  WebInv'
<1> DEFINE s == Loaded("closed", Null)
<1>2. s \in TabStates /\ s.page = "closed" /\ s.auth.token = Null /\ Idle(s)
  BY DEF Loaded, TabStates, AuthState, TokenOrNone, Idle
<1>3. tab' = [tab EXCEPT ![t] = s] /\ session' = [session EXCEPT ![t] = Null]
      /\ UNCHANGED <<stored, cookie>>
  BY DEF Close
<1>4. AccountInv' /\ Earned' = Earned
  BY LeaveFacts, TablesStay DEF Close, WebInv, Earned, tables, Asks
<1> HIDE DEF s
<1>5. ~torn' /\ OnlyTab(t) => Agree(s, Null, stored', cookie')
  BY <1>2, <1>3, TabFacts, LeaveFacts DEF Close, Agree, Kept, Idle
<1>6. Null \in Earned' \cap TokenOrNone /\ session'[t] = Null
  BY <1>3, TabFacts DEF Earned, TokenOrNone
<1>7. /\ s.page # "new" /\ s.wait = Null /\ s.auth.token \in Earned'
      /\ stored' \in AuthState \cup {Null} /\ (stored' # Null => stored'.token \in Earned')
      /\ cookie' \in Earned' \cap TokenOrNone /\ sent' = sent /\ sent \subseteq Calls
  BY <1>2, <1>3, <1>4, <1>6, TabFacts DEF Idle
<1>8. Leave(t)
  BY DEF Close
<1> QED BY <1>2, <1>3, <1>4, <1>5, <1>6, <1>7, <1>8, LeaveFacts, TabKeeps

(* What steps that leave the faults alone share. *)
LEMMA QuietFacts ==
    ASSUME WebInv, UNCHANGED <<tables, faults>>, sent \subseteq sent'
    PROVE  AccountInv' /\ Earned \subseteq Earned'
<1>1. FaultsTypeOK'
  BY DEF WebInv, AccountInv, TypeOK, FaultsTypeOK
<1> QED BY <1>1, TablesStay, EarnedGrows DEF WebInv, tables

(* Steps on an open page that write neither sessionStorage nor the cookie. *)
LEMMA PageKeeps ==
    ASSUME WebInv, NEW t \in Tabs, NEW s \in TabStates, tab' = [tab EXCEPT ![t] = s],
           s.page \in Pages, UNCHANGED <<session, cookie, torn, faults>>, UNCHANGED tables,
           sent \subseteq sent', sent' \subseteq Calls,
           s.wait # Null => s.ready /\ s.auth.loading, s.wait \in sent' \cup {Null},
           s.auth.token \in Earned, stored' \in AuthState \cup {Null},
           stored' # Null => stored'.token \in Earned,
           ~torn /\ OnlyTab(t) => Agree(s, session[t], stored', cookie)
    PROVE  WebInv'
<1>1. AccountInv' /\ Earned \subseteq Earned'
  BY QuietFacts
<1>2. /\ session[t] \in Earned /\ session[t] \in TokenOrNone
      /\ cookie \in Earned /\ cookie \in TokenOrNone
      /\ torn \in BOOLEAN /\ session = [session EXCEPT ![t] = session[t]]
  BY TabFacts
<1>3. /\ s.page # "new" /\ session[t] \in Earned' \cap TokenOrNone
      /\ session' = [session EXCEPT ![t] = session[t]]
      /\ s.auth.token \in Earned' /\ (stored' # Null => stored'.token \in Earned')
      /\ cookie' \in Earned' \cap TokenOrNone /\ torn' \in BOOLEAN /\ (torn => torn')
  BY <1>1, <1>2 DEF Pages, PublicPages
<1>4. ~torn' /\ OnlyTab(t) => Agree(s, session[t], stored', cookie')
  OBVIOUS
<1> QED BY <1>1, <1>3, <1>4, TabKeeps

LEMMA RehydrateKeeps ==
    ASSUME WebInv, NEW t \in Tabs, Rehydrate(t), UNCHANGED <<tables, sent>>
    PROVE  WebInv'
<1> DEFINE auth == IF stored = Null THEN tab[t].auth ELSE stored
           s == [tab[t] EXCEPT !.auth = auth, !.ready = TRUE, !.dirty = TRUE]
<1>1. auth \in AuthState /\ auth.token \in Earned
  BY TabFacts
<1> HIDE DEF auth
<1>2. /\ s \in TabStates /\ s.page = tab[t].page /\ s.auth = auth /\ s.wait = tab[t].wait
      /\ s.ready /\ s.dirty
  BY <1>1, TabFacts DEF TabStates
<1>3. tab' = [tab EXCEPT ![t] = s] /\ UNCHANGED <<session, stored, cookie, torn, faults>>
  BY TabFacts DEF Rehydrate, stores, auth
<1>4. tab[t].page \in Pages /\ tab[t].wait = Null /\ ~tab[t].ready
  BY TabFacts DEF Rehydrate, IsOpen
<1> HIDE DEF s
<1>5. ~torn /\ OnlyTab(t) => Agree(s, session[t], stored', cookie)
  BY <1>2, <1>3, <1>4, TabFacts DEF Agree, Kept, auth
<1>6. /\ stored' \in AuthState \cup {Null} /\ (stored' # Null => stored'.token \in Earned)
      /\ sent \subseteq sent' /\ sent' \subseteq Calls
  BY <1>3, TabFacts
<1> QED BY <1>1, <1>2, <1>3, <1>4, <1>5, <1>6, PageKeeps

LEMMA FlushKeeps ==
    ASSUME WebInv, NEW t \in Tabs, Flush(t), UNCHANGED <<tables, sent>>
    PROVE  WebInv'
<1> DEFINE s == [tab[t] EXCEPT !.dirty = FALSE]
<1>1. tab[t].dirty /\ tab[t].page \in Pages
  BY TabFacts DEF Flush, Idle
<1>2. /\ s \in TabStates /\ s.page = tab[t].page /\ s.auth = tab[t].auth /\ s.wait = tab[t].wait
      /\ s.ready = tab[t].ready /\ ~s.dirty
  BY TabFacts DEF TabStates
<1>3. tab' = [tab EXCEPT ![t] = s] /\ stored' = tab[t].auth
      /\ UNCHANGED <<session, cookie, torn, faults>>
  BY DEF Flush
<1> HIDE DEF s
<1>4. ~torn /\ OnlyTab(t) => Agree(s, session[t], stored', cookie)
  <2>1. tab[t].auth \in AuthState /\ tab[t].auth # Null
    BY TabFacts, SessionAssumption
  <2>2. ~torn /\ OnlyTab(t) => Agree(tab[t], session[t], stored, cookie)
    BY TabFacts
  <2> QED BY <1>1, <1>2, <1>3, <2>1, <2>2 DEF Agree
<1>5. /\ stored' \in AuthState \cup {Null} /\ (stored' # Null => stored'.token \in Earned)
      /\ sent \subseteq sent' /\ sent' \subseteq Calls
      /\ s.wait # Null => s.ready /\ s.auth.loading
      /\ s.wait \in sent' \cup {Null} /\ s.auth.token \in Earned
  BY <1>2, <1>3, TabFacts
<1> QED BY <1>1, <1>2, <1>3, <1>4, <1>5, PageKeeps

-----------------------------------------------------------------------------
(* The forms. *)
LEMMA SubmitKeeps ==
    ASSUME WebInv, NEW t \in Tabs, NEW c \in Calls, SubmitForm(t, c)
    PROVE  WebInv'
<1> DEFINE auth == [tab[t].auth EXCEPT !.loading = TRUE]
           s == [tab[t] EXCEPT !.auth = auth, !.wait = c, !.dirty = TRUE]
<1>0. /\ CanSubmit(t) /\ sent' = sent \cup {c}
      /\ UNCHANGED <<session, stored, cookie, torn, faults>> /\ UNCHANGED tables
  BY DEF SubmitForm, Submit, stores
<1>1. auth \in AuthState /\ auth.token = tab[t].auth.token /\ auth.loading
  BY TabFacts DEF AuthState
<1>3. tab' = [tab EXCEPT ![t] = s]
  BY TabFacts DEF SubmitForm, Submit
<1> HIDE DEF auth
<1>2. /\ s \in TabStates /\ s.page = tab[t].page /\ s.auth = auth /\ s.wait = c
      /\ s.ready = tab[t].ready /\ s.dirty
  <2>1. c \in TokenOrNone /\ tab[t] \in TabStates
    BY TabFacts DEF TokenOrNone
  <2> QED BY <1>1, <2>1 DEF TabStates
<1> HIDE DEF s
<1>4. tab[t].page \in Pages /\ tab[t].ready
  BY <1>0 DEF CanSubmit, Pages
<1>5. ~torn /\ OnlyTab(t) => Agree(s, session[t], stored', cookie)
  BY <1>0, <1>1, <1>2, <1>4, TabFacts DEF Agree
<1>6. /\ sent \subseteq sent' /\ sent' \subseteq Calls /\ c \in sent'
      /\ stored' \in AuthState \cup {Null} /\ (stored' # Null => stored'.token \in Earned)
      /\ s.auth.token \in Earned
  BY <1>0, <1>1, <1>2, TabFacts
<1> QED BY <1>0, <1>1, <1>2, <1>3, <1>4, <1>5, <1>6, PageKeeps

(* An answer leaves a token in the slice, the page, or a cookie behind. *)
LEMMA AnswerKeeps ==
    ASSUME WebInv, NEW t \in Tabs, tab[t].wait # Null, UNCHANGED <<tables, sent, stored, torn>>,
           FaultsTypeOK', NEW token \in Earned, NEW going \in Pages \cup {Null},
           Answered(t, token, going),
           NEW e \in Earned, session' = [session EXCEPT ![t] = e], cookie' \in Earned,
           ~torn /\ OnlyTab(t) => cookie' \in {token, Null} /\ e \in {token, Null}
    PROVE  WebInv'
<1> DEFINE auth == [loading |-> FALSE, token |-> token]
           s == [tab[t] EXCEPT !.auth = auth, !.wait = Null, !.dirty = TRUE, !.going = going]
<1>0. Earned \subseteq TokenOrNone
  BY TabFacts DEF Earned, TokenOrNone
<1>1. auth \in AuthState /\ auth.token = token
  BY <1>0 DEF AuthState
<1>3. tab' = [tab EXCEPT ![t] = s]
  BY TabFacts DEF Answered
<1> HIDE DEF auth
<1>2. /\ s \in TabStates /\ s.page = tab[t].page /\ s.auth = auth /\ s.wait = Null
      /\ s.ready = tab[t].ready /\ s.dirty
  BY <1>1, TabFacts DEF TabStates, TokenOrNone
<1> HIDE DEF s
<1>4. tab[t].page \in Pages /\ tab[t].ready
  BY TabFacts DEF Idle
<1>5. ~torn' /\ OnlyTab(t) => Agree(s, e, stored', cookie')
  BY <1>1, <1>2, <1>4 DEF Agree
<1>6. AccountInv' /\ Earned' = Earned
  BY TablesStay DEF WebInv, Earned, tables, Asks
<1>7. /\ e \in Earned' \cap TokenOrNone /\ cookie' \in Earned' \cap TokenOrNone
      /\ s.auth.token \in Earned' /\ stored' \in AuthState \cup {Null}
      /\ stored' # Null => stored'.token \in Earned'
  BY <1>0, <1>1, <1>2, <1>6, TabFacts
<1>8. /\ s.page # "new" /\ s.page \in Pages /\ torn' \in BOOLEAN /\ (torn => torn')
      /\ sent \subseteq sent' /\ sent' \subseteq Calls /\ Earned \subseteq Earned'
  BY <1>2, <1>4, <1>6, TabFacts DEF Pages, PublicPages
<1> QED BY <1>2, <1>3, <1>5, <1>6, <1>7, <1>8, TabKeeps

LEMMA ReceiveKeeps ==
    ASSUME WebInv, NEW t \in Tabs, ReceiveAnswer(t)
    PROVE  WebInv'
<1> DEFINE c == tab[t].wait
<1>0. c # Null /\ c \in sent /\ Settle(t, c) /\ UNCHANGED <<tables, sent>>
  BY TabFacts DEF ReceiveAnswer
<1>1. FaultsTypeOK'
  <2>1. FaultsTypeOK /\ (UNCHANGED faults \/ Spend("net"))
    BY <1>0 DEF Settle, WebInv, AccountInv, TypeOK
  <2> QED BY <2>1, FaultsStay DEF FaultKinds
<1>2. /\ Null \in Earned /\ session[t] \in Earned /\ cookie \in Earned
      /\ tab[t].auth.token \in Earned /\ tab[t].ready
      /\ session = [session EXCEPT ![t] = session[t]]
      /\ ~torn /\ OnlyTab(t) =>
            cookie \in {tab[t].auth.token, Null} /\ session[t] \in {tab[t].auth.token, Null}
  BY <1>0, TabFacts DEF Earned, Agree
<1>3. CASE Asks(c, "login", "ok") /\ LoginFulfilled(t)
  <2>1. c \in Earned
    BY <1>0, <1>3 DEF Earned
  <2>2. Answered(t, c, "home") /\ session' = [session EXCEPT ![t] = c] /\ cookie' = c
        /\ UNCHANGED <<stored, torn>>
    BY <1>3 DEF LoginFulfilled
  <2> QED BY <1>0, <1>1, <2>1, <2>2, AnswerKeeps DEF Pages
<1>4. CASE RegisterFulfilled(t)
  BY <1>0, <1>1, <1>2, <1>4, AnswerKeeps DEF RegisterFulfilled, stores, Pages, PublicPages
<1>5. CASE Rejected(t)
  BY <1>0, <1>1, <1>2, <1>5, TabFacts, AnswerKeeps DEF Rejected, stores
<1> QED BY <1>0, <1>3, <1>4, <1>5 DEF Settle

(* Soft navigations. *)
LEMMA GoKeeps ==
    ASSUME WebInv, NEW t \in Tabs, tab[t].page \in Pages, NEW page \in Pages,
           tab' = [tab EXCEPT ![t].page = page, ![t].going = Null],
           UNCHANGED <<stores, torn, faults>>, UNCHANGED <<tables, sent>>
    PROVE  WebInv'
<1> DEFINE s == [tab[t] EXCEPT !.page = page, !.going = Null]
<1>2. /\ s \in TabStates /\ s.page = page /\ s.auth = tab[t].auth /\ s.wait = tab[t].wait
      /\ s.ready = tab[t].ready /\ s.dirty = tab[t].dirty
  BY TabFacts DEF TabStates
<1>3. tab' = [tab EXCEPT ![t] = s] /\ UNCHANGED <<session, stored, cookie>>
  BY TabFacts DEF stores
<1> HIDE DEF s
<1>4. ~torn /\ OnlyTab(t) => Agree(s, session[t], stored', cookie)
  BY <1>2, <1>3, TabFacts DEF Agree
<1>5. /\ stored' \in AuthState \cup {Null} /\ (stored' # Null => stored'.token \in Earned)
      /\ sent \subseteq sent' /\ sent' \subseteq Calls
      /\ s.wait # Null => s.ready /\ s.auth.loading
      /\ s.wait \in sent' \cup {Null} /\ s.auth.token \in Earned
      /\ UNCHANGED <<torn, faults>> /\ UNCHANGED tables
  BY <1>2, <1>3, TabFacts
<1> QED BY <1>2, <1>3, <1>4, <1>5, PageKeeps

LEMMA ArriveKeeps ==
    ASSUME WebInv, NEW t \in Tabs, Arrive(t) \/ FollowLink(t), UNCHANGED <<tables, sent>>
    PROVE  WebInv'
<1>1. tab[t].page \in Pages
  BY TabFacts DEF Arrive, FollowLink, Idle, Pages
<1>2. \A page \in Pages : SoftPages(t, page) \subseteq Pages
  BY DEF SoftPages, Proxy, Pages, PublicPages
<1>3. CASE Arrive(t)
  BY <1>1, <1>2, <1>3, TabFacts, GoKeeps DEF Arrive
<1>4. CASE FollowLink(t)
  <2>1. (CHOOSE p \in PublicPages : p # tab[t].page) \in Pages
    BY DEF PublicPages, Pages
  <2> QED BY <1>1, <1>2, <1>4, <2>1, GoKeeps DEF FollowLink
<1> QED BY <1>3, <1>4

LEMMA LogoutKeeps ==
    ASSUME WebInv, NEW t \in Tabs, Logout(t), UNCHANGED <<tables, sent>>
    PROVE  WebInv'
<1>1. PICK written \in {TRUE, tab[t].dirty \/ tab[t].auth.token # Null} :
        tab' = [tab EXCEPT ![t].auth.token = Null, ![t].dirty = written, ![t].going = "login"]
  BY DEF Logout
<1> DEFINE auth == [tab[t].auth EXCEPT !.token = Null]
           s == [tab[t] EXCEPT !.auth = auth, !.dirty = written, !.going = "login"]
<1>2. auth \in AuthState /\ auth.token = Null /\ auth.loading = tab[t].auth.loading
  BY TabFacts DEF AuthState, TokenOrNone
<1>3. tab' = [tab EXCEPT ![t] = s]
  BY <1>1, TabFacts
<1> HIDE DEF auth
<1>4. /\ s \in TabStates /\ s.page = tab[t].page /\ s.auth = auth /\ s.wait = tab[t].wait
      /\ s.ready = tab[t].ready /\ s.dirty = written
  BY <1>1, <1>2, TabFacts DEF TabStates, Pages, PublicPages
<1> HIDE DEF s
<1>5. /\ tab[t].page \in Pages /\ tab[t].ready /\ session' = [session EXCEPT ![t] = Null]
      /\ cookie' = Null /\ UNCHANGED <<stored, torn, faults>>
      /\ Null \in Earned \cap TokenOrNone
  BY DEF Logout, Pages, Earned, TokenOrNone
<1>6. ~torn' /\ OnlyTab(t) => Agree(s, Null, stored', cookie')
  BY <1>1, <1>2, <1>4, <1>5, TabFacts DEF Agree
<1>7. AccountInv' /\ Earned \subseteq Earned'
  BY <1>5, QuietFacts
<1>8. /\ s.page \in Pages /\ s.page # "new" /\ s.wait \in sent' \cup {Null}
      /\ s.wait # Null => s.ready /\ s.auth.loading
      /\ s.auth.token \in Earned' /\ Null \in Earned' \cap TokenOrNone
      /\ stored' \in AuthState \cup {Null} /\ (stored' # Null => stored'.token \in Earned')
      /\ cookie' \in Earned' \cap TokenOrNone /\ sent \subseteq sent' /\ sent' \subseteq Calls
      /\ torn' \in BOOLEAN /\ (torn => torn')
  BY <1>2, <1>4, <1>5, <1>7, TabFacts DEF Pages, PublicPages
<1> QED BY <1>3, <1>4, <1>5, <1>6, <1>7, <1>8, TabKeeps

(* Steps that move no tab. *)
LEMMA ExpiryKeeps ==
    ASSUME WebInv, CookieExpires, UNCHANGED <<tables, sent>>
    PROVE  WebInv'
<1>1. cookie' = Null /\ UNCHANGED <<tab, session, stored, torn, faults>>
  BY DEF CookieExpires
<1>2. AccountInv' /\ Earned' = Earned
  BY <1>1, QuietFacts DEF Earned, tables, Asks
<1>3. SessionTypeOK' /\ OneCallPerTab' /\ EarnedInv' /\ IdleInv'
  BY <1>1, <1>2 DEF WebInv, SessionTypeOK, OneCallPerTab, EarnedInv, IdleInv, Earned, TokenOrNone
<1>4. AgreeInv'
  BY <1>1 DEF WebInv, AgreeInv, Agree, OnlyTab
<1> QED BY <1>2, <1>3, <1>4 DEF WebInv

LEMMA ApiKeeps ==
    ASSUME WebInv, NEW c \in Calls, ApiStep(c), UNCHANGED <<sessionVars, sent>>
    PROVE  WebInv'
<1>1. AccountInv'
  BY NextAccountInv DEF WebInv, ApiStep, Next
<1>2. \A d \in Calls : Asks(d, "login", "ok") => Asks(d, "login", "ok")'
  <2>1. TypeOK
    BY DEF WebInv, AccountInv
  <2> QED BY <2>1 DEF TypeOK, ApiStep, CallStep, CallFault, RegisterLookup, RegisterCreate, LoginFind,
             LoginCompare, VerifyToken, LoadUser, ReadUser, CallFails, CreateReplyLost,
             Goes, Holds, Asks, OpenPoints
<1>3. Earned \subseteq Earned'
  BY <1>2, sent \subseteq Calls DEF Earned, WebInv, EarnedInv
<1> QED BY <1>1, <1>3 DEF WebInv, sessionVars, stores, SessionTypeOK, OneCallPerTab, EarnedInv, IdleInv,
           AgreeInv, Agree, OnlyTab

-----------------------------------------------------------------------------
(* The invariant holds at first and is kept. *)
LEMMA InitWebInv == WebInit => WebInv
<1> SUFFICES ASSUME WebInit PROVE WebInv
  OBVIOUS
<1>1. AccountInv
  BY InitAccountInv DEF WebInit
<1> DEFINE s == Loaded("new", Null)
<1>2. /\ tab = [t \in Tabs |-> s] /\ session = [t \in Tabs |-> Null]
      /\ stored = Null /\ cookie = Null /\ torn = FALSE /\ sent = {}
  BY DEF WebInit, SessionInit
<1>3. s \in TabStates /\ s.page = "new" /\ s.auth.token = Null /\ Idle(s)
  BY DEF Loaded, TabStates, AuthState, TokenOrNone, Idle
<1> HIDE DEF s
<1>4. SessionTypeOK
  BY <1>2, <1>3 DEF SessionTypeOK, TokenOrNone
<1>5. OneCallPerTab /\ EarnedInv /\ IdleInv
  BY <1>2, <1>3 DEF OneCallPerTab, EarnedInv, Earned, IdleInv, Idle
<1>6. AgreeInv
  BY <1>2, <1>3 DEF AgreeInv, Agree, Kept, Idle
<1> QED BY <1>1, <1>4, <1>5, <1>6 DEF WebInv

LEMMA NextWebInv == WebInv /\ [WebNext]_webVars => WebInv'
<1> SUFFICES ASSUME WebInv, [WebNext]_webVars PROVE WebInv'
  OBVIOUS
<1>1. CASE UNCHANGED webVars
  <2>1. UNCHANGED <<tables, sessionVars, sent, faults>>
    BY <1>1 DEF webVars
  <2>2. AccountInv' /\ Earned' = Earned
    BY <2>1, QuietFacts DEF Earned, tables, Asks
  <2> QED BY <2>1, <2>2 DEF sessionVars, stores, WebInv, SessionTypeOK, OneCallPerTab, EarnedInv,
                            IdleInv, AgreeInv, Agree, OnlyTab
<1>2. ASSUME NEW t \in Tabs, TabStep(t), UNCHANGED <<tables, sent>>
      PROVE  WebInv'
  BY <1>2, LoadKeeps, RehydrateKeeps, FlushKeeps, CloseKeeps, ArriveKeeps, LogoutKeeps DEF TabStep
<1> QED BY <1>1, <1>2, SubmitKeeps, ReceiveKeeps, ExpiryKeeps, ApiKeeps DEF WebNext

-----------------------------------------------------------------------------
(* Every tab and store keeps its type, and a closed tab has no session. *)
THEOREM SessionTypeCorrect == WebSpec => []SessionTypeOK
<1>1. WebInv => SessionTypeOK
  BY DEF WebInv
<1> QED BY <1>1, InitWebInv, NextWebInv, PTL DEF WebSpec

(* No tab sends a second call before the first is answered, whatever slice is
   brought back in between. *)
THEOREM OneCallAtATime == WebSpec => []OneCallPerTab
<1>1. WebInv => OneCallPerTab
  BY DEF WebInv
<1> QED BY <1>1, InitWebInv, NextWebInv, PTL DEF WebSpec

(* Every copy of a session in the browser was earned with the address and the
   password of its account. *)
THEOREM CopiesAreEarned == WebSpec => []SessionsAreEarned
<1>1. WebInv => SessionsAreEarned
  <2> SUFFICES ASSUME WebInv, NEW c \in Copies \ {Null}
               PROVE  /\ c \in sent /\ call[c].body.kind = "login"
                      /\ call[c].row \in DOMAIN user
                      /\ user[call[c].row].email = LowerCase[Email(c)]
                      /\ user[call[c].row].password = Password(c)
    BY DEF SessionsAreEarned
  <2>1. c \in Earned
    BY DEF Copies, WebInv, EarnedInv
  <2>2. c \in sent /\ c \in Calls /\ Asks(c, "login", "ok")
    BY <2>1 DEF Earned, WebInv, EarnedInv
  <2>3. Knows(c)
    BY <2>2 DEF WebInv, AccountInv
  <2> QED BY <2>2, <2>3 DEF Knows, LoginKnows, Asks
<1> QED BY <1>1, InitWebInv, NextWebInv, PTL DEF WebSpec

(* With one tab the copies agree, and a logout clears them all. *)
THEOREM OneTabAgrees == WebSpec => []CopiesAgree
<1>1. WebInv => CopiesAgree
  BY DEF WebInv, AgreeInv, CopiesAgree, Agree
<1> QED BY <1>1, InitWebInv, NextWebInv, PTL DEF WebSpec

(* The cookie names a login from its answer on, and never again once it has
   been given up. *)
THEOREM SessionsStayGone == WebSpec => NoSessionComesBack
<1> DEFINE A == cookie' \notin {cookie, Null} => \E t \in Tabs : tab[t].wait = cookie'
<1>1. [WebNext]_webVars => [A]_webVars
  <2> SUFFICES ASSUME WebNext PROVE A
    OBVIOUS
  <2>1. ASSUME NEW t \in Tabs, ReceiveAnswer(t) PROVE A
    BY <2>1 DEF ReceiveAnswer, Settle, LoginFulfilled, RegisterFulfilled, Rejected, stores
  <2>2. ASSUME NEW t \in Tabs, TabStep(t) PROVE cookie' \in {cookie, Null}
    BY <2>2 DEF TabStep, Load, Rehydrate, Flush, Close, Arrive, FollowLink, Logout, stores
  <2>3. ASSUME NEW t \in Tabs, NEW c \in Calls, SubmitForm(t, c) PROVE cookie' = cookie
    BY <2>3 DEF SubmitForm, Submit, stores
  <2> QED BY <2>1, <2>2, <2>3 DEF WebNext, CookieExpires, sessionVars, stores
<1> QED BY <1>1, PTL DEF WebSpec, NoSessionComesBack
=============================================================================
