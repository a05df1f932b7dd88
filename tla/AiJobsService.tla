--------------------------- MODULE AiJobsService -----------------------------
(***************************************************************************)
(* The API's side: routes/v1/ai/actions.ts and services/ai-jobs.ts.  A      *)
(* request is one POST /jobs; requests of any number of API processes run   *)
(* at once and interleave at every await.  A user may also have one GET     *)
(* /jobs/:id under way.                                                     *)
(***************************************************************************)
EXTENDS AiJobTable, JobStream, AiCache, Environment

CONSTANT Bodies     \* the validated POST bodies, each with its sender

VARIABLES
    redisClient,    \* the redis plugin found REDIS_URL when the API booted
    request,        \* each POST: where its handler stands and what it holds
    polled          \* each user's GET: the cache entry it is about to write

ASSUME BodiesAssumption ==
    Bodies \subseteq [user : Users, key : Keys \cup {Null}, type : AiJobTypes,
                      payload : Payloads, maxAttempts : AttemptLimits]

serviceVars == <<cache, redisClient, request, polled>>

(* Where the handler stands: before an await, or answered.
     sent                  assertQueueReady
     lookup                findUnique by idempotency key
     cacheGet, cached      the short-circuit and its insert
     insert, group, add    the insert, XGROUP CREATE and XADD
     accepted              202 with the job's id
     unavailable, failed   503, 500 (or the process was killed)             *)
OpenPoints     == {"sent", "lookup", "cacheGet", "cached", "insert", "group", "add"}
AnsweredPoints == {"accepted", "unavailable", "failed"}

RequestStates == [pc : OpenPoints \cup AnsweredPoints, body : Bodies,
                  job : Requests \cup {Null}, value : Results \cup {Null}]

ServiceTypeOK ==
    /\ redisClient \in BOOLEAN
    /\ request \in [Requests -> RequestStates]
    /\ polled \in [Users -> [key : CacheKeys, value : Results] \cup {Null}]

ServiceInit ==
    /\ CacheInit
    /\ redisClient \in BOOLEAN
    /\ request \in [Requests -> [pc : {"sent"}, body : Bodies, job : {Null}, value : {Null}]]
    /\ polled = [u \in Users |-> Null]

Body(r) == request[r].body
Move(r, pc) == request' = [request EXCEPT ![r].pc = pc]
Accept(r, id) == request' = [request EXCEPT ![r].pc = "accepted", ![r].job = id]

-----------------------------------------------------------------------------
(* createJob, one action per await. *)
AssertQueueReady(r) ==
    /\ request[r].pc = "sent"
    /\ Move(r, IF ~redisClient THEN "unavailable"
               ELSE IF Body(r).key # Null THEN "lookup"
               ELSE IF Body(r).type \in Cacheable THEN "cacheGet" ELSE "insert")
    /\ UNCHANGED <<cache, redisClient, polled, job, streamVars, faults>>

(* The key alone is looked up: not its sender, nor what it was sent with. *)
FindExisting(r) ==
    /\ request[r].pc = "lookup"
    /\ \/ \E id \in DOMAIN job : job[id].key = Body(r).key /\ Accept(r, id)
       \/ /\ ~KeyTaken(Body(r).key)
          /\ Move(r, IF Body(r).type \in Cacheable THEN "cacheGet" ELSE "insert")
    /\ UNCHANGED <<cache, redisClient, polled, job, streamVars, faults>>

(* The payload is hashed as it was sent. *)
GetCached(r) ==
    /\ request[r].pc = "cacheGet"
    /\ LET value == CacheGet(Body(r).type, Body(r).payload)
       IN  request' = [request EXCEPT ![r].pc = IF value # Null THEN "cached" ELSE "insert",
                                      ![r].value = value]
    /\ UNCHANGED <<cache, redisClient, polled, job, streamVars, faults>>

InsertCached(r) ==
    /\ request[r].pc = "cached"
    /\ ~KeyTaken(Body(r).key)
    /\ CreateSucceeded(r, Body(r), request[r].value)
    /\ Accept(r, r)
    /\ UNCHANGED <<cache, redisClient, polled, streamVars, faults>>

InsertQueued(r) ==
    /\ request[r].pc = "insert"
    /\ ~KeyTaken(Body(r).key)
    /\ CreateQueued(r, Body(r))
    /\ Move(r, "group")
    /\ UNCHANGED <<cache, redisClient, polled, streamVars, faults>>

(* Prisma's P2002 is not caught: the route rethrows it and answers 500. *)
UniqueViolation(r) ==
    /\ request[r].pc \in {"cached", "insert"}
    /\ KeyTaken(Body(r).key)
    /\ Move(r, "failed")
    /\ UNCHANGED <<cache, redisClient, polled, job, streamVars, faults>>

EnsureConsumerGroup(r) ==
    /\ request[r].pc = "group"
    /\ XGroupCreate
    /\ Move(r, "add")
    /\ UNCHANGED <<cache, redisClient, polled, job, faults>>

Enqueue(r) ==
    /\ request[r].pc = "add"
    /\ \/ XAdd(r) /\ UNCHANGED faults
       \/ XAddTwice(r) /\ Spend("resend")
    /\ Accept(r, r)
    /\ UNCHANGED <<cache, redisClient, polled, job>>

-----------------------------------------------------------------------------
(* A call of createJob raises, or the process is killed under it. *)
RequestFails(r) ==
    /\ \/ request[r].pc \in {"lookup", "cached", "insert"} /\ Spend("db")
       \/ request[r].pc \in {"cacheGet", "group", "add"} /\ Spend("redis")
       \/ request[r].pc \in OpenPoints /\ Spend("crash")
    /\ Move(r, "failed")
    /\ UNCHANGED <<cache, redisClient, polled, job, streamVars>>

(* The call took effect first. *)
RequestReplyLost(r) ==
    /\ \/ /\ request[r].pc \in {"cached", "insert"}
          /\ ~KeyTaken(Body(r).key)
          /\ IF request[r].pc = "cached" THEN CreateSucceeded(r, Body(r), request[r].value)
                                         ELSE CreateQueued(r, Body(r))
          /\ Spend("dbReply")
          /\ UNCHANGED streamVars
       \/ /\ \/ request[r].pc = "group" /\ XGroupCreate
             \/ request[r].pc = "add" /\ XAdd(r)
          /\ Spend("redisReply")
          /\ UNCHANGED job
    /\ Move(r, "failed")
    /\ UNCHANGED <<cache, redisClient, polled>>

-----------------------------------------------------------------------------
(* Mutation: cacheJobResult does not look for a result. *)
GetUnfinishedJob(u, id) ==
    /\ polled[u] = Null
    /\ id \in DOMAIN job
    /\ job[id].user = u
    /\ job[id].type \in Cacheable
    /\ polled' = [polled EXCEPT ![u] = [key   |-> BuildCacheKey(job[id].type, job[id].payload),
                                        value |-> job[id].result]]
    /\ UNCHANGED <<cache, redisClient, request, job, streamVars, faults>>

(* GET /jobs/:id: the owner reads a row; if it SUCCEEDED and its type is
   cacheable the handler then writes what it read to the cache. *)
GetJob(u, id) ==
    /\ polled[u] = Null
    /\ id \in DOMAIN job
    /\ job[id].user = u
    /\ job[id].status = "SUCCEEDED"
    /\ job[id].result # Null
    /\ job[id].type \in Cacheable
    /\ polled' = [polled EXCEPT ![u] = [key   |-> BuildCacheKey(job[id].type, job[id].payload),
                                        value |-> job[id].result]]
    /\ UNCHANGED <<cache, redisClient, request, job, streamVars, faults>>

CacheJobResult(u) ==
    /\ polled[u] # Null
    /\ redisClient
    /\ CacheSet(polled[u].key, polled[u].value)
    /\ polled' = [polled EXCEPT ![u] = Null]
    /\ UNCHANGED <<redisClient, request, job, streamVars, faults>>

(* Without Redis set() returns at once; with it the SET may raise, and then
   the GET answers 500. *)
NothingCached(u) ==
    /\ polled[u] # Null
    /\ IF redisClient THEN Spend("redis") \/ Spend("crash") ELSE UNCHANGED faults
    /\ polled' = [polled EXCEPT ![u] = Null]
    /\ UNCHANGED <<cache, redisClient, request, job, streamVars>>

ExpireCache(key) ==
    /\ CacheExpires(key)
    /\ UNCHANGED <<redisClient, request, polled, job, streamVars, faults>>

-----------------------------------------------------------------------------
RequestStep(r) ==
    \/ AssertQueueReady(r) \/ FindExisting(r) \/ GetCached(r)
    \/ InsertCached(r) \/ InsertQueued(r) \/ UniqueViolation(r)
    \/ EnsureConsumerGroup(r) \/ Enqueue(r)

RequestFault(r) == RequestFails(r) \/ RequestReplyLost(r)

PollStep(u) == (\E id \in Requests : GetJob(u, id)) \/ CacheJobResult(u) \/ NothingCached(u)
=============================================================================
