------------------------------- MODULE AiCache -------------------------------
(***************************************************************************)
(* ai-cache.ts: results of EMBED and MATCH jobs kept in Redis for a while.  *)
(***************************************************************************)
EXTENDS AiContracts

VARIABLE cache      \* the cached result of a key, or Null

CacheTypeOK == cache \in [CacheKeys -> Results \cup {Null}]
CacheInit   == cache = [k \in CacheKeys |-> Null]

CacheGet(type, payload) == cache[BuildCacheKey(type, payload)]

CacheSet(key, value) == cache' = [cache EXCEPT ![key] = value]

(* The entry's TTL ends, or Redis evicts it. *)
CacheExpires(key) ==
    /\ cache[key] # Null
    /\ cache' = [cache EXCEPT ![key] = Null]
=============================================================================
