---------------------------- MODULE MCAiPipeline -----------------------------
(***************************************************************************)
(* Values for the constants of AiPipeline in the TLC runs.                  *)
(***************************************************************************)
EXTENDS AiPipeline, TLC

CONSTANTS alice, bob, key, text, reordered, bad

MCJsonb   == (text :> text) @@ (reordered :> text) @@ (bad :> bad)
MCRejects == {<<"MATCH", bad>>}

Post(user, k, type, payload, max) ==
    [user |-> user, key |-> k, type |-> type, payload |-> payload, maxAttempts |-> max]

(* A key shared by two users, a cacheable payload in two spellings, and a job
   whose processor raises. *)
FaultBodies ==
    {Post(alice, key, "EMBED", text, 1), Post(bob, key, "EMBED", reordered, 2),
     Post(alice, Null, "MATCH", bad, 2)}

(* One job that succeeds, of a type that is not cached, and two that fail. *)
RetryBodies ==
    {Post(alice, Null, "ANALYZE_VIDEO", text, 2), Post(bob, Null, "MATCH", bad, 1),
     Post(bob, key, "MATCH", bad, 2)}

(* Workers are interchangeable, and so are requests: any may send any body. *)
Interchangeable == Permutations(Workers) \cup Permutations(Requests)
=============================================================================
