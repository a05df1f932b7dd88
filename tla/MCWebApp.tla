------------------------------ MODULE MCWebApp -------------------------------
(***************************************************************************)
(* Values for the constants of Accounts and Session in the TLC runs.        *)
(***************************************************************************)
EXTENDS WebApp, TLC

CONSTANTS bob, Bob, secret, other

MCLowerCase == (bob :> bob) @@ (Bob :> bob)

Ask(kind, email, password) == [kind |-> kind, email |-> email, password |-> password]

(* A registration, a login that it makes right, in another spelling, and one
   that is wrong. *)
MCCallBodies ==
    {Ask("register", bob, secret), Ask("login", Bob, secret), Ask("login", bob, other)}

(* Any call may ask for anything, and tabs are alike. *)
Interchangeable == Permutations(Calls) \cup Permutations(Tabs)
=============================================================================
