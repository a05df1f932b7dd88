----------------------------- MODULE MCAccounts ------------------------------
(***************************************************************************)
(* Values for the constants of Accounts in the TLC runs.                    *)
(***************************************************************************)
EXTENDS Accounts, TLC

CONSTANTS bob, Bob, secret, other

MCLowerCase == (bob :> bob) @@ (Bob :> bob)

Ask(kind, email, password) == [kind |-> kind, email |-> email, password |-> password]

(* One address in two spellings and two passwords. *)
MCCallBodies ==
    {Ask("register", bob, secret), Ask("register", bob, other), Ask("register", Bob, secret),
     Ask("login", bob, secret), Ask("login", Bob, secret), Ask("check", Null, Null)}

(* Any call may ask for anything. *)
Interchangeable == Permutations(Calls)
=============================================================================
