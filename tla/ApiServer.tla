------------------------------ MODULE ApiServer ------------------------------
(***************************************************************************)
(* The process around the API's handlers, in several replicas: start,       *)
(* shutdown, the Redis client and the rate limit that every request passes  *)
(* first, /health included.  A request is followed from the point a replica *)
(* accepts it to its answer.  Fastify, ioredis, close-with-grace, Redis and *)
(* the kubelet are outside the repository; what else a handler does is in   *)
(* AiJobsService and Accounts.                                              *)
(***************************************************************************)
EXTENDS Environment, FiniteSets

CONSTANTS
    Replicas,
    Requests,
    Sources,        \* the addresses requests come from: the limit is per address
    Max,            \* requests per address and window
    Null

VARIABLES
    replica,        \* where each process stands
    client,         \* its Redis client
    request,
    count,          \* the limiter's counters: those of Redis, and of each replica
    up,             \* which of Postgres and Redis answer
    redisUrl,       \* REDIS_URL is set
    admitted,       \* history: requests that Redis let through, per address and window
    losses          \* history: how often Redis lost its data in that window

vars == <<replica, client, request, count, up, redisUrl, admitted, losses, faults>>

ASSUME ApiServerAssumption ==
    Max \in Nat \ {0} /\ "redis" \notin Replicas /\ IsFiniteSet(Requests)

(* Postgres is needed by all; "redis" by the routes of the AI jobs, too. *)
Kinds  == {"health", "login", "enqueue"}
Stores == Replicas \cup {"redis"}

(* A process: no process, loading its plugins, listening, no longer listening
   and waiting for its connections, running its onClose hooks.  *)
ProcessStates == {"off", "loading", "listening", "draining", "closing"}

(* A request: at the limiter, at the queries of its handler, at its Redis
   commands; or over, and what its client saw of it: 200 or 202, 429, 503, 500, a
   connection that broke, or nothing, since it had hung up.  Its kind is the one
   of the route, from where routes differ. *)
InFlight == {"limiter", "database", "queue"}
Answers  == {"ok", "limited", "unavailable", "error", "cut", "unseen"}

RequestStates == [pc : InFlight \cup Answers \cup {"unsent"}, on : Replicas \cup {Null},
                  kind : Kinds \cup {Null}, source : Sources \cup {Null},
                  waits : BOOLEAN]      \* its client has not hung up

(* A store counts a request once, and once more each time that ioredis sends
   the command again: a fault. *)
TypeOK ==
    /\ replica \in [Replicas -> ProcessStates]
    /\ client \in [Replicas -> {"none", "open", "quit"}]
    /\ request \in [Requests -> RequestStates]
    /\ count \in [Stores -> [Sources -> 0..(Cardinality(Requests) + faults)]]
    /\ up \subseteq {"postgres", "redis"}
    /\ redisUrl \in BOOLEAN
    /\ admitted \in [Sources -> Nat]
    /\ losses \in [Sources -> Nat]
    /\ FaultsTypeOK

(* A request that no replica has in hand. *)
Nowhere(pc) == [pc |-> pc, on |-> Null, kind |-> Null, source |-> Null, waits |-> TRUE]

(* A request is over: its client sees pc, if it still waits. *)
Over(q, pc) == Nowhere(IF request[q].waits THEN pc ELSE "unseen")

Init ==
    /\ replica = [r \in Replicas |-> "off"]
    /\ client = [r \in Replicas |-> "none"]
    /\ request = [q \in Requests |-> Nowhere("unsent")]
    /\ count = [s \in Stores |-> [a \in Sources |-> 0]]
    /\ up = {"postgres", "redis"}
    /\ redisUrl \in BOOLEAN
    /\ admitted = [a \in Sources |-> 0]
    /\ losses = [a \in Sources |-> 0]
    /\ FaultsInit

Active(r) == {q \in Requests : request[q].on = r /\ request[q].pc \in InFlight}

(* The connections of r with a request on them.  A handler whose client hung up
   has none, and runs on. *)
Connected(r) == {q \in Active(r) : request[q].waits}

(* The process of r is no more: its connections break, and its own counters
   are gone. *)
Ends(r) ==
    /\ replica' = [replica EXCEPT ![r] = "off"]
    /\ client' = [client EXCEPT ![r] = "none"]
    /\ request' = [q \in Requests |->
            IF q \in Active(r) THEN Over(q, "cut") ELSE request[q]]
    /\ count' = [count EXCEPT ![r] = [a \in Sources |-> 0]]

world == <<up, redisUrl, admitted, losses>>

-----------------------------------------------------------------------------
(* Start.  The redis plugin pings; without an answer the start fails, and the
   process with it. *)
Start(r) ==
    /\ replica[r] = "off"
    /\ replica' = [replica EXCEPT ![r] = "loading"]
    /\ UNCHANGED <<client, request, count, world, faults>>

LoadRedis(r) ==
    /\ replica[r] = "loading" /\ redisUrl /\ client[r] = "none"
    /\ \/ /\ "redis" \in up
          /\ client' = [client EXCEPT ![r] = "open"]
          /\ UNCHANGED <<replica, request, count>>
       \/ "redis" \notin up /\ Ends(r)
    /\ UNCHANGED <<world, faults>>

Listen(r) ==
    /\ replica[r] = "loading" /\ (redisUrl => client[r] = "open")
    /\ replica' = [replica EXCEPT ![r] = "listening"]
    /\ UNCHANGED <<client, request, count, world, faults>>

-----------------------------------------------------------------------------
(* Mutation: close-with-grace is not installed. *)
TerminateBare(r) ==
    /\ replica[r] \in {"loading", "listening"}
    /\ Ends(r)
    /\ UNCHANGED <<world, faults>>

(* SIGTERM: an update, a scale down or a failing liveness probe.  Before the
   handlers of close-with-grace are installed it just kills the process. *)
Terminate(r) ==
    /\ \/ replica[r] = "loading" /\ Ends(r)
       \/ /\ replica[r] = "listening"
          /\ replica' = [replica EXCEPT ![r] = "draining"]
          /\ UNCHANGED <<client, request, count>>
    /\ UNCHANGED <<world, faults>>

(* Mutation: the hooks run without waiting for the connections in use. *)
CloseAtOnce(r) ==
    /\ replica[r] = "draining"
    /\ replica' = [replica EXCEPT ![r] = "closing"]
    /\ client' = [client EXCEPT ![r] = IF @ = "open" THEN "quit" ELSE @]
    /\ UNCHANGED <<request, count, world, faults>>

(* app.close(): the server waits for its connections, then the onClose hooks
   run, of which one quits the Redis client: under a handler whose client hung
   up, if there is one. *)
RunCloseHooks(r) ==
    /\ replica[r] = "draining" /\ Connected(r) = {}
    /\ replica' = [replica EXCEPT ![r] = "closing"]
    /\ client' = [client EXCEPT ![r] = IF @ = "open" THEN "quit" ELSE @]
    /\ UNCHANGED <<request, count, world, faults>>

Exit(r) ==
    /\ replica[r] = "closing"
    /\ Ends(r)
    /\ UNCHANGED <<world, faults>>

(* The grace delay passes before the connections are done: "slow". *)
GraceDelayPasses(r) ==
    /\ replica[r] = "draining" /\ Connected(r) # {} /\ Spend("slow")
    /\ Ends(r)
    /\ UNCHANGED world

Crash(r) ==
    /\ replica[r] # "off" /\ Spend("crash")
    /\ Ends(r)
    /\ UNCHANGED world

-----------------------------------------------------------------------------
(* A request goes to any replica that listens. *)
Accept(q, r) ==
    /\ request[q].pc = "unsent" /\ replica[r] = "listening"
    /\ \E a \in Sources :
        request' = [request EXCEPT ![q] =
            [pc |-> "limiter", on |-> r, kind |-> Null, source |-> a, waits |-> TRUE]]
    /\ UNCHANGED <<replica, client, count, world, faults>>

(* A page is reloaded, or a client's own timeout passes.  No code listens for it. *)
HangUp(q) ==
    /\ request[q].pc \in InFlight
    /\ request' = [request EXCEPT ![q].waits = FALSE]
    /\ UNCHANGED <<replica, client, count, world, faults>>

At(q, pc) == request[q].pc = pc

Goes(q, pc) ==
    request' = [request EXCEPT ![q] =
        IF pc \in Answers THEN Over(q, pc) ELSE [@ EXCEPT !.pc = pc]]

(* A Redis command of request q.  After three retries it raises, and so it does
   once the client has quit. *)
RedisAnswers(q) == "redis" \in up /\ client[request[q].on] = "open"

(* Mutation: maxRetriesPerRequest is null, as a blocking reader wants it, and a
   command waits until Redis is back. *)
NeverRaises(q) == FALSE

RedisRaises(q) == ~RedisAnswers(q)

(* Mutation: the limiter is not given the client. *)
OwnStore(r) == r

StoreOf(r) == IF client[r] = "none" THEN r ELSE "redis"

(* Mutation: the limiter is registered in two scopes, and runs twice. *)
HitTwice(n) == n + 2

Hit(n) == n + 1

(* The hook of the limiter: one atomic increment.  An error of its store is the
   error of the request, whatever the route. *)
Limit(q) ==
    LET a == request[q].source
        s == StoreOf(request[q].on)
    IN
    /\ At(q, "limiter")
    /\ \/ /\ s = "redis" => RedisAnswers(q)
          /\ count' = [count EXCEPT ![s][a] = Hit(@)]
          /\ \/ /\ count[s][a] < Max
                /\ Goes(q, "database")
                /\ admitted' = [admitted EXCEPT ![a] = IF redisUrl THEN @ + 1 ELSE @]
             \/ count[s][a] >= Max /\ Goes(q, "limited") /\ UNCHANGED admitted
       \/ s = "redis" /\ RedisRaises(q) /\ Goes(q, "error") /\ UNCHANGED <<count, admitted>>
    /\ UNCHANGED <<replica, client, up, redisUrl, losses, faults>>

(* Redis counts the request and the connection breaks before its reply is read:
   ioredis sends the command again after the reconnect, unless Redis is down by
   then and it raises; what Limit does next is the answer to that one. *)
LimitResent(q) ==
    LET a == request[q].source IN
    /\ At(q, "limiter")
    /\ StoreOf(request[q].on) = "redis" /\ RedisAnswers(q)
    /\ count' = [count EXCEPT !["redis"][a] = Hit(@)]
    /\ Spend("resend")
    /\ UNCHANGED <<replica, client, request, world>>

(* SELECT 1 of /health, or the statements of any other route.  Without a client
   the jobs answer 503.  No step before this one depends on the route. *)
QueryDatabase(q) ==
    /\ At(q, "database")
    /\ \E kind \in Kinds :
        IF "postgres" \notin up THEN Goes(q, "error")
        ELSE IF kind = "login" THEN Goes(q, "ok")
        ELSE IF client[request[q].on] # "none"
        THEN request' = [request EXCEPT ![q].pc = "queue", ![q].kind = kind]
        ELSE Goes(q, IF kind = "enqueue" THEN "unavailable" ELSE "ok")
    /\ UNCHANGED <<replica, client, count, world, faults>>

(* The commands of the queue, or the ping of /health, which only reports. *)
UseRedis(q) ==
    /\ At(q, "queue")
    /\ \/ RedisAnswers(q) /\ Goes(q, "ok")
       \/ RedisRaises(q) /\ Goes(q, IF request[q].kind = "health" THEN "ok" ELSE "error")
    /\ UNCHANGED <<replica, client, count, world, faults>>

RequestStep(q) == Limit(q) \/ QueryDatabase(q) \/ UseRedis(q)

-----------------------------------------------------------------------------
(* A dependency goes down or comes back, with or without its data. *)
Outage(d) ==
    /\ \/ d \in up /\ up' = up \ {d}
       \/ d \notin up /\ up' = up \cup {d}
    /\ UNCHANGED <<replica, client, request, count, redisUrl, admitted, losses, faults>>

RedisLosesData ==
    /\ "redis" \notin up /\ Spend("evict")
    /\ count' = [count EXCEPT !["redis"] = [a \in Sources |-> 0]]
    /\ losses' = [a \in Sources |-> losses[a] + 1]
    /\ UNCHANGED <<replica, client, request, up, redisUrl, admitted>>

(* The minute that began with the first request of an address is over. *)
WindowPasses(s, a) ==
    /\ count' = [count EXCEPT ![s][a] = 0]
    /\ IF s = "redis"
       THEN admitted' = [admitted EXCEPT ![a] = 0] /\ losses' = [losses EXCEPT ![a] = 0]
       ELSE UNCHANGED <<admitted, losses>>
    /\ UNCHANGED <<replica, client, request, up, redisUrl, faults>>

ProcessStep(r) ==
    \/ Start(r) \/ LoadRedis(r) \/ Listen(r) \/ Terminate(r)
    \/ RunCloseHooks(r) \/ Exit(r) \/ GraceDelayPasses(r) \/ Crash(r)

Next ==
    \/ \E r \in Replicas : ProcessStep(r)
    \/ \E q \in Requests, r \in Replicas : Accept(q, r)
    \/ \E q \in Requests : HangUp(q) \/ LimitResent(q) \/ RequestStep(q)
    \/ \E d \in {"postgres", "redis"} : Outage(d)
    \/ RedisLosesData
    \/ \E s \in Stores, a \in Sources : WindowPasses(s, a)

(* A handler runs on; nothing else is owed: clients need not send, processes
   need not start or end, and an outage may last. *)
Spec == Init /\ [][Next]_vars /\ \A q \in Requests : WF_vars(RequestStep(q))

-----------------------------------------------------------------------------
(* rate-limiter.ts: limits are shared across replicas.  However requests race,
   and processes and Redis go and come back, an address gets no more than Max
   requests through in a window, and Max more each time Redis loses its data. *)
LimitIsShared ==
    redisUrl => \A a \in Sources : admitted[a] <= Max * (1 + losses[a])

(* A shutdown, or a start that fails, never breaks a request off while its client
   waits: one is lost only in a crash, or when it outlasts the grace delay. *)
OnlyFaultsCut == \A q \in Requests : At(q, "cut") => faults > 0

(* Nor does a client that waits see a 500 because of one: while Postgres and Redis
   answer there is none, on whatever process its request is and whenever SIGTERM
   comes, though onClose quits the Redis client under other handlers. *)
ShutdownsFailNothing ==
    [][\A q \in Requests :
        request[q].pc \in InFlight /\ request'[q].pc = "error"
        => up # {"postgres", "redis"}]_vars

(* Every request that is accepted gets an answer or sees its connection break,
   even if a dependency never comes back: none is in flight for ever. *)
EveryRequestEnds == \A q \in Requests : []<>(request[q].pc \notin InFlight)
=============================================================================
