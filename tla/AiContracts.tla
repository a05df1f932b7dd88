----------------------------- MODULE AiContracts -----------------------------
(***************************************************************************)
(* The vocabulary shared by the API, the database and the AI worker:       *)
(* packages/ai-contracts, the AiJob enums of the Prisma schema, and what a  *)
(* processor of apps/ai computes, reduced to which result belongs to which  *)
(* payload.                                                                 *)
(***************************************************************************)
EXTENDS Naturals

CONSTANTS
    Users,      \* accounts that call the API
    Keys,       \* idempotency keys clients send
    Payloads,   \* JSON payloads, told apart by their text
    Jsonb,      \* [Payloads -> Payloads]: the text a jsonb column gives back
    Rejects,    \* <<type, payload>> pairs the processor of the type raises on
    Null        \* SQL NULL, JSON null and "no value yet"

AiJobTypes    == {"ANALYZE_VIDEO", "VERIFY_IDENTITY", "EMBED", "MATCH"}
AiJobStatuses == {"QUEUED", "RUNNING", "SUCCEEDED", "FAILED", "CANCELLED"}

(* The types whose results the API keeps in the Redis cache. *)
Cacheable == {"EMBED", "MATCH"}

(* The hash in a cache key stands for the payload's text: two payloads that
   are equal as JSON objects but list their members in another order have
   different keys. *)
CacheKeys == AiJobTypes \X Payloads

(* Mutation: the type is left out of the key, one namespace for all. *)
KeyWithoutType(type, payload) == <<"MATCH", payload>>

BuildCacheKey(type, payload) == <<type, payload>>

(* Processors are deterministic: a result is named by what it was computed
   from, and a payload outside Rejects always yields one. *)
Results == AiJobTypes \X Payloads
Output(type, payload) == <<type, payload>>

(* jsonb reorders members once: storing what was read back changes nothing. *)
ASSUME JsonbAssumption ==
    /\ Jsonb \in [Payloads -> Payloads]
    /\ \A p \in Payloads : Jsonb[Jsonb[p]] = Jsonb[p]

ASSUME RejectsAssumption == Rejects \subseteq AiJobTypes \X Payloads

ASSUME NullAssumption ==
    /\ Null \notin Keys
    /\ Null \notin Users
    /\ Null \notin Results
=============================================================================
