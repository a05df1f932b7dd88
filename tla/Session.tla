------------------------------- MODULE Session -------------------------------
(***************************************************************************)
(* The session of the web app (apps/app) in one browser: the auth slice of  *)
(* each tab's redux store, and the three places that outlive it.  The token *)
(* of a login is named by the call that asked for it; it stands for the     *)
(* user too, which the code always writes together with it.                 *)
(*                                                                         *)
(*   session   sessionStorage, per tab, lost when the tab is closed          *)
(*   stored    localStorage, shared: the slice as redux-persist wrote it     *)
(*   cookie    shared, the one that proxy.ts looks at                        *)
(*                                                                         *)
(* Next.js, redux-persist and the browser are outside the repository.       *)
(***************************************************************************)
EXTENDS AccountCalls

CONSTANT Tabs

VARIABLES
    tab, session, stored, cookie,
    torn    \* was a page left before redux-persist had written its slice?

stores      == <<session, stored, cookie>>
sessionVars == <<tab, stores, torn>>

(* "home" is every page of the dashboard. *)
PublicPages == {"login", "register"}
Pages       == PublicPages \cup {"home"}

TokenOrNone == Calls \cup {Null}

(* loading is one flag for both forms. *)
AuthState == [loading : BOOLEAN, token : TokenOrNone]

ASSUME SessionAssumption == Null \notin AuthState

(* A tab.
     auth     the redux slice
     wait     the call its form has sent and awaits
     ready    PersistGate has let the pages render
     going    the page a router.push is on its way to
     dirty    redux-persist has yet to write the slice
   No page of a new or closed tab runs any code.                          *)
TabStates == [page : Pages \cup {"new", "closed"}, auth : AuthState, wait : TokenOrNone,
              ready : BOOLEAN, going : Pages \cup {Null}, dirty : BOOLEAN]

SessionTypeOK ==
    /\ tab \in [Tabs -> TabStates]
    /\ session \in [Tabs -> TokenOrNone]
    /\ \A t \in Tabs : tab[t].page \notin Pages => session[t] = Null
    /\ stored \in AuthState \cup {Null}
    /\ cookie \in TokenOrNone
    /\ torn \in BOOLEAN

Loaded(page, token) ==
    [page |-> page, auth |-> [loading |-> FALSE, token |-> token], wait |-> Null,
     ready |-> FALSE, going |-> Null, dirty |-> FALSE]

SessionInit ==
    /\ tab = [t \in Tabs |-> Loaded("new", Null)]
    /\ session = [t \in Tabs |-> Null]
    /\ stored = Null
    /\ cookie = Null
    /\ torn = FALSE

IsOpen(t) == tab[t].page \in Pages

(* redux-persist writes a timer tick after a change: a page left before that is
   a fault. *)
Leave(t) ==
    \/ ~tab[t].dirty /\ UNCHANGED <<torn, faults>>
    \/ tab[t].dirty /\ Spend("quick") /\ torn' = TRUE

-----------------------------------------------------------------------------
(* proxy.ts: where a request for a page ends up. *)
Proxy(page) ==
    IF cookie = Null /\ page \notin PublicPages THEN "login"
    ELSE IF cookie # Null /\ page \in PublicPages THEN "home"
    ELSE page

(* A document is loaded: a new tab, a typed address, a reload.  The store starts
   from sessionStorage, and a call in flight is given up. *)
Load(t, page) ==
    /\ tab' = [tab EXCEPT ![t] = Loaded(Proxy(page), session[t])]
    /\ Leave(t)
    /\ UNCHANGED stores

(* Mutation: redux-persist is told to keep another slice. *)
RehydrateNothing(t) ==
    /\ IsOpen(t) /\ ~tab[t].ready
    /\ tab' = [tab EXCEPT ![t].ready = TRUE, ![t].dirty = TRUE]
    /\ UNCHANGED <<stores, torn, faults>>

(* Mutation: a session found in localStorage gets its cookie back. *)
RehydrateCookie(t) ==
    /\ IsOpen(t) /\ ~tab[t].ready
    /\ tab' = [tab EXCEPT ![t].auth = IF stored = Null THEN @ ELSE stored,
                          ![t].ready = TRUE, ![t].dirty = TRUE]
    /\ cookie' = IF stored = Null THEN cookie ELSE stored.token
    /\ UNCHANGED <<session, stored, torn, faults>>

(* REHYDRATE: what localStorage holds replaces the slice, loading included, and
   is written back. *)
Rehydrate(t) ==
    /\ IsOpen(t) /\ ~tab[t].ready
    /\ tab' = [tab EXCEPT ![t].auth = IF stored = Null THEN @ ELSE stored,
                          ![t].ready = TRUE, ![t].dirty = TRUE]
    /\ UNCHANGED <<stores, torn, faults>>

Flush(t) ==
    /\ tab[t].dirty
    /\ stored' = tab[t].auth
    /\ tab' = [tab EXCEPT ![t].dirty = FALSE]
    /\ UNCHANGED <<session, cookie, torn, faults>>

(* Mutation: the session is kept in localStorage, not in sessionStorage. *)
CloseKeepsSession(t) ==
    /\ IsOpen(t)
    /\ tab' = [tab EXCEPT ![t] = Loaded("closed", Null)]
    /\ Leave(t)
    /\ UNCHANGED stores

(* The tab is closed, and its sessionStorage with it. *)
Close(t) ==
    /\ IsOpen(t)
    /\ tab' = [tab EXCEPT ![t] = Loaded("closed", Null)]
    /\ session' = [session EXCEPT ![t] = Null]
    /\ Leave(t)
    /\ UNCHANGED <<stored, cookie>>

(* max-age of the cookie, one day, passes. *)
CookieExpires ==
    /\ cookie # Null
    /\ cookie' = Null
    /\ UNCHANGED <<tab, session, stored, torn, faults>>

-----------------------------------------------------------------------------
(* Mutation: the pages are rendered without PersistGate. *)
CanSubmitAtOnce(t) == tab[t].page \in PublicPages /\ ~tab[t].auth.loading

(* The form of a login or register page is submitted: not while loading, which
   disables its button. *)
CanSubmit(t) == tab[t].page \in PublicPages /\ tab[t].ready /\ ~tab[t].auth.loading

Submit(t, c) ==
    /\ CanSubmit(t)
    /\ tab' = [tab EXCEPT ![t].auth.loading = TRUE, ![t].wait = c, ![t].dirty = TRUE]
    /\ UNCHANGED <<stores, torn, faults>>

(* The slice after an answer, and where the form goes on to. *)
Answered(t, token, going) ==
    tab' = [tab EXCEPT ![t].auth = [loading |-> FALSE, token |-> token],
                       ![t].wait = Null, ![t].dirty = TRUE, ![t].going = going]

LoginFulfilled(t) ==
    /\ Answered(t, tab[t].wait, "home")
    /\ session' = [session EXCEPT ![t] = tab[t].wait]
    /\ cookie' = tab[t].wait
    /\ UNCHANGED <<stored, torn>>

(* The new user is sent to the login page, not to the dashboard. *)
RegisterFulfilled(t) ==
    /\ Answered(t, tab[t].auth.token, "login")
    /\ UNCHANGED <<stores, torn>>

(* The token of an earlier login stays. *)
Rejected(t) ==
    /\ Answered(t, tab[t].auth.token, tab[t].going)
    /\ UNCHANGED <<stores, torn>>

-----------------------------------------------------------------------------
(* A soft navigation.  Its request goes through proxy.ts, unless the page was
   prefetched: login and register link to each other. *)
SoftPages(t, page) ==
    {Proxy(page)} \cup {p \in {page} : {tab[t].page, page} \subseteq PublicPages}

Arrive(t) ==
    /\ tab[t].going # Null
    /\ \E page \in SoftPages(t, tab[t].going) :
        tab' = [tab EXCEPT ![t].page = page, ![t].going = Null]
    /\ UNCHANGED <<stores, torn, faults>>

(* The link of one form to the other; it overtakes a router.push. *)
FollowLink(t) ==
    /\ tab[t].page \in PublicPages /\ tab[t].ready
    /\ \E page \in SoftPages(t, CHOOSE p \in PublicPages : p # tab[t].page) :
        tab' = [tab EXCEPT ![t].page = page, ![t].going = Null]
    /\ UNCHANGED <<stores, torn, faults>>

(* Whether logout changes the slice, and so has it written, may depend on the
   error of an earlier call, which is not kept here. *)
Logout(t) ==
    /\ tab[t].page = "home" /\ tab[t].ready
    /\ \E written \in {TRUE, tab[t].dirty \/ tab[t].auth.token # Null} :
        tab' = [tab EXCEPT ![t].auth.token = Null, ![t].dirty = written, ![t].going = "login"]
    /\ session' = [session EXCEPT ![t] = Null]
    /\ cookie' = Null
    /\ UNCHANGED <<stored, torn, faults>>

TabStep(t) ==
    \/ \E page \in Pages : Load(t, page)
    \/ Rehydrate(t) \/ Flush(t) \/ Close(t)
    \/ Arrive(t) \/ FollowLink(t) \/ Logout(t)
=============================================================================
