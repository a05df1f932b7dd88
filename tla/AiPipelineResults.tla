------------------------- MODULE AiPipelineResults ---------------------------
(***************************************************************************)
(* Every result is that of its job, in the rows and in the cache.  The      *)
(* cache is asked with the payload as a client wrote it and filled with the *)
(* payload as jsonb gives it back; the argument is that only texts jsonb    *)
(* leaves alone are ever found in it.  And: an idempotency key names one job *)
(* to all who are answered 202 with it.                                     *)
(***************************************************************************)
EXTENDS AiPipelineProofs

Normal(payload) == Jsonb[payload] = payload

RowResult(id) ==
    /\ Normal(job[id].payload)
    /\ job[id].result # Null => job[id].result = Output(job[id].type, job[id].payload)

Entry(k, value) == value = Output(k[1], k[2]) /\ Normal(k[2])

RowResults    == \A id \in DOMAIN job : RowResult(id)
CacheResults  == \A k \in CacheKeys : cache[k] # Null => Entry(k, cache[k])
PolledResults == \A u \in Users : polled[u] # Null => Entry(polled[u].key, polled[u].value)
CachedResults ==
    \A r \in Requests : request[r].pc = "cached" =>
        Entry(<<Body(r).type, Body(r).payload>>, request[r].value)

ResultInv == RowResults /\ CacheResults /\ PolledResults /\ CachedResults

-----------------------------------------------------------------------------
(* An insert stores a normal payload, and a result only from the cache. *)
LEMMA CreateResults ==
    ASSUME JobTypeOK, RowResults, NEW id \in Requests \ DOMAIN job, NEW body \in Bodies,
           NEW value,
           \/ CreateQueued(id, body)
           \/ CreateSucceeded(id, body, value) /\ Entry(<<body.type, body.payload>>, value)
    PROVE  RowResults' /\ \A i \in DOMAIN job : job'[i] = job[i]
<1>0. body.payload \in Payloads /\ Jsonb[body.payload] \in Payloads
      /\ Normal(Jsonb[body.payload])
  BY BodiesAssumption, JsonbAssumption DEF Normal
<1>1. DOMAIN job' = DOMAIN job \cup {id} /\ \A i \in DOMAIN job : job'[i] = job[i]
  BY DEF CreateQueued, CreateSucceeded, Insert
<1>2. RowResult(id)'
  <2>1. CASE CreateQueued(id, body)
    <3>1. job'[id].payload = Jsonb[body.payload] /\ job'[id].result = Null
      BY <2>1 DEF CreateQueued, Insert
    <3> QED BY <1>0, <3>1 DEF RowResult, Normal
  <2>2. CASE CreateSucceeded(id, body, value) /\ Entry(<<body.type, body.payload>>, value)
    <3>1. /\ job'[id].payload = Jsonb[body.payload] /\ job'[id].result = value
          /\ job'[id].type = body.type
      BY <2>2 DEF CreateSucceeded, Insert
    <3>2. value = Output(body.type, body.payload) /\ Normal(body.payload)
      BY <2>2 DEF Entry
    <3> QED BY <1>0, <3>1, <3>2 DEF RowResult, Normal
  <2> QED BY <2>1, <2>2
<1> QED BY <1>1, <1>2 DEF RowResults, RowResult, Normal

(* The worker's updates write the result of the row they update, or none. *)
LEMMA MarkResults ==
    ASSUME JobTypeOK, RowResults, NEW id \in DOMAIN job, NEW terminal,
           MarkRunning(id) \/ MarkSucceeded(id) \/ MarkFailed(id, terminal)
    PROVE  /\ RowResults'
           /\ \A i \in DOMAIN job : job[i].result # Null => job'[i].result = job[i].result
<1>1. DOMAIN job' = DOMAIN job /\ \A i \in DOMAIN job \ {id} : job'[i] = job[i]
  BY DEF MarkRunning, MarkSucceeded, MarkFailed, JobTypeOK
<1>2. /\ job'[id].type = job[id].type /\ job'[id].payload = job[id].payload
      /\ \/ job'[id].result = job[id].result
         \/ job'[id].result = Output(job[id].type, job[id].payload)
  BY DEF MarkRunning, MarkSucceeded, MarkFailed, JobTypeOK, Row
<1> QED BY <1>1, <1>2 DEF RowResults, RowResult, Normal

(* A worker changes rows only by the three updates, that of its job. *)
LEMMA WorkerRows ==
    ASSUME TypeInv, NEW w \in Workers,
           WorkerStep(w) \/ WorkerFault(w) \/ Restart(w) \/ Ready(w)
    PROVE  \/ UNCHANGED job
           \/ /\ JobOf(w) \in DOMAIN job
              /\ \/ MarkRunning(JobOf(w)) \/ MarkSucceeded(JobOf(w))
                 \/ MarkFailed(JobOf(w), Terminal(w))
<1>1. worker[w].pc \in HandlePoints => JobOf(w) \in DOMAIN job
  BY InHandType
<1>2. \/ UNCHANGED job
      \/ /\ worker[w].pc \in HandlePoints
         /\ \/ MarkRunning(JobOf(w)) \/ MarkSucceeded(JobOf(w))
            \/ MarkFailed(JobOf(w), Terminal(w))
  BY DEF WorkerStep, WorkerFault, Restart, Ready, EnsureGroup, Reclaim, Read, Claim, AckSkip,
         Process, Succeed, Ack, Fail, AckFailed, CallFails, RedisReplyLost, DbReplyLost, Crash,
         Stop, HandlePoints
<1> QED BY <1>1, <1>2

LEMMA WorkerResults ==
    ASSUME TypeInv, ResultInv, UNCHANGED serviceVars, NEW w \in Workers,
           WorkerStep(w) \/ WorkerFault(w) \/ Restart(w) \/ Ready(w)
    PROVE  /\ ResultInv'
           /\ \A i \in DOMAIN job : job[i].result # Null => job'[i].result = job[i].result
<1>2. RowResults' /\ \A i \in DOMAIN job : job[i].result # Null => job'[i].result = job[i].result
  <2>1. CASE UNCHANGED job
    BY <2>1 DEF ResultInv, RowResults, RowResult
  <2>2. CASE ~UNCHANGED job
    BY <2>2, WorkerRows, MarkResults DEF TypeInv, TypeOK, ResultInv
  <2> QED BY <2>1, <2>2
<1> QED BY <1>2 DEF ResultInv, CacheResults, PolledResults, CachedResults, serviceVars, Body

(* A request carries what it found in the cache to its own row. *)
LEMMA RequestResults ==
    ASSUME TypeInv, ResultInv, UNCHANGED worker, NEW r \in Requests,
           RequestStep(r) \/ RequestFault(r)
    PROVE  /\ ResultInv'
           /\ \A i \in DOMAIN job : job[i].result # Null => job'[i].result = job[i].result
<1>0. /\ JobTypeOK /\ CacheTypeOK /\ RequestTypeOK
      /\ request[r] \in RequestStates /\ Body(r) \in Bodies
      /\ request[r].pc \in BeforeInsert => r \notin DOMAIN job
      /\ request[r].pc = "cached" => Entry(<<Body(r).type, Body(r).payload>>, request[r].value)
  BY DEF TypeInv, TypeOK, ServiceTypeOK, RequestTypeOK, RequestStates, RowsOfRequests, Body,
         ResultInv, CachedResults
<1>1. UNCHANGED <<cache, polled>>
  BY DEF RequestStep, RequestFault, AssertQueueReady, FindExisting, GetCached, InsertCached,
         InsertQueued, UniqueViolation, EnsureConsumerGroup, Enqueue, RequestFails,
         RequestReplyLost
<1>2. RowResults' /\ \A i \in DOMAIN job : job[i].result # Null => job'[i].result = job[i].result
  <2>1. CASE UNCHANGED job
    BY <2>1 DEF ResultInv, RowResults, RowResult
  <2>2. CASE \/ CreateQueued(r, Body(r)) /\ r \notin DOMAIN job
             \/ /\ CreateSucceeded(r, Body(r), request[r].value) /\ r \notin DOMAIN job
                /\ request[r].pc = "cached"
    BY <1>0, <2>2, CreateResults DEF ResultInv
  <2> QED BY <1>0, <2>1, <2>2
          DEF RequestStep, RequestFault, AssertQueueReady, FindExisting, GetCached, InsertCached,
              InsertQueued, UniqueViolation, EnsureConsumerGroup, Enqueue, RequestFails,
              RequestReplyLost, BeforeInsert
<1>3. CachedResults'
  <2>1. CASE GetCached(r)
    <3> DEFINE value == CacheGet(Body(r).type, Body(r).payload)
               t == [request[r] EXCEPT !.pc = IF value # Null THEN "cached" ELSE "insert",
                                       !.value = value]
    <3>1. request' = [request EXCEPT ![r] = t]
      BY <2>1 DEF GetCached
    <3>2. /\ t.value = value /\ t.pc = IF value # Null THEN "cached" ELSE "insert"
          /\ t.body = Body(r)
      BY <1>0 DEF RequestStates, Body
    <3>3. <<Body(r).type, Body(r).payload>> \in CacheKeys
      BY <1>0, BodiesAssumption DEF CacheKeys
    <3>4. value # Null => Entry(<<Body(r).type, Body(r).payload>>, value)
      BY <3>3 DEF ResultInv, CacheResults, CacheGet, BuildCacheKey
    <3> HIDE DEF value, t
    <3>5. request'[r] = t /\ \A s \in Requests \ {r} : request'[s] = request[s]
      BY <1>0, <3>1 DEF RequestTypeOK
    <3>6. ASSUME NEW s \in Requests, request'[s].pc = "cached"
          PROVE  Entry(<<Body(s)'.type, Body(s)'.payload>>, request'[s].value)
      <4>1. CASE s = r
        <5>1. value # Null /\ Body(s)' = Body(r) /\ request'[s].value = value
          BY <3>2, <3>5, <3>6, <4>1 DEF Body
        <5> QED BY <3>4, <5>1
      <4>2. CASE s # r
        BY <3>5, <3>6, <4>2 DEF ResultInv, CachedResults, Body
      <4> QED BY <4>1, <4>2
    <3> QED BY <3>6 DEF CachedResults, Entry, Normal, Body
  <2>2. CASE /\ \A s \in Requests \ {r} : request'[s] = request[s]
             /\ request'[r].pc # "cached"
    BY <2>2 DEF ResultInv, CachedResults, Body, Entry, Normal
  <2>3. ASSUME NEW pc, pc # "cached", Move(r, pc)
        PROVE  /\ \A s \in Requests \ {r} : request'[s] = request[s]
               /\ request'[r].pc # "cached"
    <3>1. [request[r] EXCEPT !.pc = pc].pc = pc
      BY <1>0 DEF RequestStates
    <3> QED BY <1>0, <2>3, <3>1 DEF RequestTypeOK, Move
  <2>4. ASSUME NEW id, Accept(r, id)
        PROVE  /\ \A s \in Requests \ {r} : request'[s] = request[s]
               /\ request'[r].pc # "cached"
    <3>1. [request[r] EXCEPT !.pc = "accepted", !.job = id].pc = "accepted"
      BY <1>0 DEF RequestStates
    <3> QED BY <1>0, <2>4, <3>1 DEF RequestTypeOK, Accept
  <2> QED BY <2>1, <2>2, <2>3, <2>4
          DEF RequestStep, RequestFault, AssertQueueReady, FindExisting, InsertCached,
              InsertQueued, UniqueViolation, EnsureConsumerGroup, Enqueue, RequestFails,
              RequestReplyLost
<1>4. CacheResults' /\ PolledResults'
  BY <1>1 DEF ResultInv, CacheResults, PolledResults, Entry, Normal
<1> QED BY <1>2, <1>3, <1>4 DEF ResultInv

(* What a GET read from a row it writes to the cache later, under the key of
   the row's payload. *)
LEMMA PollResults ==
    ASSUME TypeInv, ResultInv, UNCHANGED worker,
           (\E u \in Users : PollStep(u)) \/ (\E k \in CacheKeys : ExpireCache(k))
    PROVE  ResultInv' /\ UNCHANGED job
<1>0. /\ JobTypeOK /\ CacheTypeOK /\ polled \in [Users -> [key : CacheKeys, value : Results] \cup {Null}]
      /\ cache \in [CacheKeys -> Results \cup {Null}]
  BY DEF TypeInv, TypeOK, ServiceTypeOK, CacheTypeOK
<1>1. UNCHANGED <<job, request>>
  BY DEF PollStep, GetJob, CacheJobResult, NothingCached, ExpireCache
<1>2. RowResults' /\ CachedResults'
  BY <1>1 DEF ResultInv, RowResults, RowResult, CachedResults, Body
<1>3. ASSUME NEW u \in Users, NEW id \in Requests, GetJob(u, id)
      PROVE  CacheResults' /\ PolledResults'
  <2> DEFINE k == BuildCacheKey(job[id].type, job[id].payload)
             t == [key |-> k, value |-> job[id].result]
  <2>1. /\ id \in DOMAIN job /\ job[id].result # Null
        /\ polled' = [polled EXCEPT ![u] = t] /\ UNCHANGED cache
    BY <1>3 DEF GetJob
  <2>2. Entry(t.key, t.value)
    BY <2>1 DEF ResultInv, RowResults, RowResult, BuildCacheKey, Entry, Output, Normal
  <2> HIDE DEF k, t
  <2>3. polled'[u] = t /\ \A v \in Users \ {u} : polled'[v] = polled[v]
    BY <1>0, <2>1
  <2> QED BY <2>1, <2>2, <2>3 DEF ResultInv, CacheResults, PolledResults, Entry, Normal
<1>4. ASSUME NEW u \in Users, CacheJobResult(u)
      PROVE  CacheResults' /\ PolledResults'
  <2>1. /\ polled[u] # Null /\ polled' = [polled EXCEPT ![u] = Null]
        /\ cache' = [cache EXCEPT ![polled[u].key] = polled[u].value]
    BY <1>4 DEF CacheJobResult, CacheSet
  <2>2. Entry(polled[u].key, polled[u].value) /\ polled[u].key \in CacheKeys
    BY <1>0, <2>1 DEF ResultInv, PolledResults
  <2>3. \A v \in Users : polled'[v] = Null \/ polled'[v] = polled[v]
    BY <1>0, <2>1
  <2>4. \A k \in CacheKeys : cache'[k] = IF k = polled[u].key THEN polled[u].value ELSE cache[k]
    BY <1>0, <2>1
  <2>5. PolledResults'
    BY <2>3 DEF ResultInv, PolledResults, Entry, Normal
  <2>6. CacheResults'
    BY <2>2, <2>4 DEF ResultInv, CacheResults, Entry, Normal
  <2> QED BY <2>5, <2>6
<1>5. ASSUME NEW u \in Users, NothingCached(u)
      PROVE  CacheResults' /\ PolledResults'
  <2>1. UNCHANGED cache /\ polled' = [polled EXCEPT ![u] = Null]
    BY <1>5 DEF NothingCached
  <2>2. \A v \in Users : polled'[v] = Null \/ polled'[v] = polled[v]
    BY <1>0, <2>1
  <2> QED BY <2>1, <2>2 DEF ResultInv, CacheResults, PolledResults, Entry, Normal
<1>6. ASSUME NEW k \in CacheKeys, ExpireCache(k)
      PROVE  CacheResults' /\ PolledResults'
  <2>1. UNCHANGED polled /\ cache' = [cache EXCEPT ![k] = Null]
    BY <1>6 DEF ExpireCache, CacheExpires
  <2>2. \A j \in CacheKeys : cache'[j] = Null \/ cache'[j] = cache[j]
    BY <1>0, <2>1
  <2> QED BY <2>1, <2>2 DEF ResultInv, CacheResults, PolledResults, Entry, Normal
<1> QED BY <1>1, <1>2, <1>3, <1>4, <1>5, <1>6 DEF PollStep, ResultInv

(* No row and no cache entry exists at first. *)
LEMMA InitResultInv == Init => ResultInv
<1> SUFFICES ASSUME Init PROVE ResultInv
  OBVIOUS
<1>1. RowResults
  BY DEF Init, JobInit, RowResults
<1>2. CacheResults /\ PolledResults
  BY DEF Init, ServiceInit, CacheInit, CacheResults, PolledResults
<1>3. CachedResults
  BY DEF Init, ServiceInit, CachedResults
<1> QED BY <1>1, <1>2, <1>3 DEF ResultInv

(* Every step keeps the invariant and every stored result. *)
LEMMA NextResultInv ==
    ASSUME TypeInv, ResultInv, [Next]_vars
    PROVE  /\ ResultInv'
           /\ \A i \in DOMAIN job : job[i].result # Null => job'[i].result = job[i].result
<1>1. CASE UNCHANGED vars
  BY <1>1 DEF vars, serviceVars, ResultInv, RowResults, RowResult, CacheResults, PolledResults,
              CachedResults, Body, Entry, Normal
<1>2. CASE \E r \in Requests : (RequestStep(r) \/ RequestFault(r)) /\ UNCHANGED worker
  BY <1>2, RequestResults
<1>3. CASE \/ \E u \in Users : PollStep(u) /\ UNCHANGED worker
           \/ \E k \in CacheKeys : ExpireCache(k) /\ UNCHANGED worker
  BY <1>3, PollResults
<1>4. CASE \E w \in Workers :
            /\ WorkerStep(w) \/ WorkerFault(w) \/ Restart(w) \/ Ready(w)
            /\ UNCHANGED serviceVars
  BY <1>4, WorkerResults
<1>5. CASE \/ \E m \in MessageIds : ClaimIdlePasses(m) /\ UNCHANGED serviceVars
           \/ EvictStream /\ UNCHANGED serviceVars
  <2>1. UNCHANGED <<job, cache, request, polled>>
    BY <1>5 DEF ClaimIdlePasses, EvictStream, serviceVars
  <2> QED BY <2>1 DEF ResultInv, RowResults, RowResult, CacheResults, PolledResults,
                      CachedResults, Body, Entry, Normal
<1> QED BY <1>1, <1>2, <1>3, <1>4, <1>5 DEF Next

(* Whatever fails and however requests, polls, cache fills and redeliveries
   interleave, a result in a row or in the cache is the one computed from the
   payload it stands for. *)
THEOREM ResultsAreCorrect == Spec => []ResultsAreOfTheirJob
<1>1. ResultInv => ResultsAreOfTheirJob
  BY DEF ResultInv, RowResults, RowResult, CacheResults, Entry, ResultsAreOfTheirJob
<1>2. TypeInv /\ ResultInv /\ [Next]_vars => ResultInv'
  BY NextResultInv
<1> QED BY <1>1, <1>2, InitTypeInv, NextTypeInv, InitResultInv, PTL DEF Spec

(* A result once stored is never cleared or replaced: redeliveries recompute
   it, and a failed acknowledgement overwrites the status only. *)
THEOREM ResultsStay == Spec => ResultIsKept
<1>1. TypeInv /\ ResultInv /\ [Next]_vars =>
        [\A id \in DOMAIN job : job[id].result # Null => job'[id].result = job[id].result]_vars
  BY NextResultInv
<1>2. TypeInv /\ ResultInv /\ [Next]_vars => ResultInv'
  BY NextResultInv
<1> QED BY <1>1, <1>2, InitTypeInv, NextTypeInv, InitResultInv, PTL DEF Spec, ResultIsKept

-----------------------------------------------------------------------------
(* One job per idempotency key.  The unique index keeps two rows from having *)
(* it; what is left to show is that a request is only ever answered with a  *)
(* row that has its key.                                                    *)
SameKey(id, r) == id \in DOMAIN job /\ (Body(r).key # Null => job[id].key = Body(r).key)

UniqueKeys == \A i, j \in DOMAIN job : job[i].key = job[j].key /\ job[i].key # Null => i = j

KeyKnown(r) ==
    /\ request[r].pc \in AfterInsert => SameKey(r, r)
    /\ request[r].pc = "accepted" => SameKey(request[r].job, r)

KeyInv == UniqueKeys /\ \A r \in Requests : KeyKnown(r)

KeysStay == \A id \in DOMAIN job : id \in DOMAIN job' /\ job'[id].key = job[id].key

(* An insert takes a key that no row has, or none. *)
LEMMA CreateKeys ==
    ASSUME JobTypeOK, UniqueKeys, NEW r \in Requests \ DOMAIN job, ~KeyTaken(Body(r).key),
           NEW value, CreateQueued(r, Body(r)) \/ CreateSucceeded(r, Body(r), value)
    PROVE  UniqueKeys' /\ KeysStay /\ DOMAIN job' = DOMAIN job \cup {r} /\ job'[r].key = Body(r).key
<1>1. /\ DOMAIN job' = DOMAIN job \cup {r} /\ job'[r].key = Body(r).key
      /\ \A id \in DOMAIN job : job'[id] = job[id]
  BY DEF CreateQueued, CreateSucceeded, Insert
<1>2. \A id \in DOMAIN job : job[id].key # Body(r).key \/ Body(r).key = Null
  BY DEF KeyTaken
<1> QED BY <1>1, <1>2 DEF UniqueKeys, KeysStay

(* No update of the worker writes the key. *)
LEMMA MarkKeys ==
    ASSUME JobTypeOK, UniqueKeys, NEW id \in DOMAIN job, NEW terminal,
           MarkRunning(id) \/ MarkSucceeded(id) \/ MarkFailed(id, terminal)
    PROVE  UniqueKeys' /\ KeysStay
<1>1. DOMAIN job' = DOMAIN job /\ \A i \in DOMAIN job \ {id} : job'[i] = job[i]
  BY DEF MarkRunning, MarkSucceeded, MarkFailed, JobTypeOK
<1>2. job'[id].key = job[id].key
  BY DEF MarkRunning, MarkSucceeded, MarkFailed, JobTypeOK, Row
<1> QED BY <1>1, <1>2 DEF UniqueKeys, KeysStay

(* What a request knew of its row it still knows. *)
LEMMA KeyKnownStays ==
    ASSUME KeysStay, NEW r \in Requests, KeyKnown(r), request'[r] = request[r]
    PROVE  KeyKnown(r)'
BY DEF KeysStay, KeyKnown, SameKey, Body

(* A request moves to where it knows the key of its row. *)
LEMMA RequestKeys ==
    ASSUME TypeInv, KeyInv, UNCHANGED worker, NEW r \in Requests,
           RequestStep(r) \/ RequestFault(r)
    PROVE  KeyInv'
<1>0. /\ JobTypeOK /\ RequestTypeOK /\ request[r] \in RequestStates /\ Body(r) \in Bodies
      /\ request[r].pc \in BeforeInsert => r \notin DOMAIN job
      /\ request[r].pc \in AfterInsert => SameKey(r, r)
  BY DEF TypeInv, TypeOK, ServiceTypeOK, RequestTypeOK, RequestStates, RowsOfRequests, Body,
         KeyInv, KeyKnown
<1>1. UniqueKeys' /\ KeysStay
  <2>1. CASE UNCHANGED job
    BY <2>1 DEF KeyInv, UniqueKeys, KeysStay
  <2>2. CASE /\ r \notin DOMAIN job /\ ~KeyTaken(Body(r).key)
             /\ CreateQueued(r, Body(r)) \/ CreateSucceeded(r, Body(r), request[r].value)
    BY <1>0, <2>2, CreateKeys DEF KeyInv
  <2> QED BY <1>0, <2>1, <2>2
          DEF RequestStep, RequestFault, AssertQueueReady, FindExisting, GetCached, InsertCached,
              InsertQueued, UniqueViolation, EnsureConsumerGroup, Enqueue, RequestFails,
              RequestReplyLost, BeforeInsert
<1>a. ASSUME NEW pc, Move(r, pc)
      PROVE  /\ \A s \in Requests \ {r} : request'[s] = request[s]
             /\ request'[r].pc = pc /\ Body(r)' = Body(r)
  <2> DEFINE t == [request[r] EXCEPT !.pc = pc]
  <2>1. t.pc = pc /\ t.body = request[r].body /\ request' = [request EXCEPT ![r] = t]
    BY <1>0, <1>a DEF RequestStates, Move
  <2> HIDE DEF t
  <2> QED BY <1>0, <2>1 DEF RequestTypeOK, Body
<1>b. ASSUME NEW id, Accept(r, id)
      PROVE  /\ \A s \in Requests \ {r} : request'[s] = request[s]
             /\ request'[r].pc = "accepted" /\ request'[r].job = id /\ Body(r)' = Body(r)
  <2> DEFINE t == [request[r] EXCEPT !.pc = "accepted", !.job = id]
  <2>1. /\ t.pc = "accepted" /\ t.job = id /\ t.body = request[r].body
        /\ request' = [request EXCEPT ![r] = t]
    BY <1>0, <1>b DEF RequestStates, Accept
  <2> HIDE DEF t
  <2> QED BY <1>0, <2>1 DEF RequestTypeOK, Body
<1>c. ASSUME NEW id, Accept(r, id), SameKey(id, r)'
      PROVE  KeyInv'
  <2>1. KeyKnown(r)'
    BY <1>b, <1>c DEF KeyKnown, AfterInsert
  <2> QED BY <1>1, <1>b, <1>c, <2>1, KeyKnownStays DEF KeyInv
<1>d. ASSUME NEW pc, pc # "accepted", Move(r, pc), pc \in AfterInsert => SameKey(r, r)'
      PROVE  KeyInv'
  <2>1. KeyKnown(r)'
    BY <1>a, <1>d DEF KeyKnown
  <2> QED BY <1>1, <1>a, <1>d, <2>1, KeyKnownStays DEF KeyInv
<1>e. ASSUME NEW pc \in {"unavailable", "lookup", "cacheGet", "cached", "insert", "failed"},
             Move(r, pc)
      PROVE  KeyInv'
  BY <1>d, <1>e DEF AfterInsert
<1>f. ASSUME r \notin DOMAIN job, ~KeyTaken(Body(r).key), Body(r)' = Body(r),
             CreateQueued(r, Body(r)) \/ CreateSucceeded(r, Body(r), request[r].value)
      PROVE  SameKey(r, r)'
  BY <1>0, <1>f, CreateKeys DEF KeyInv, SameKey
<1>g. ASSUME SameKey(r, r), UNCHANGED job, Body(r)' = Body(r)
      PROVE  SameKey(r, r)'
  BY <1>g DEF SameKey
<1>2. CASE FindExisting(r)
  <2>1. ASSUME NEW id \in DOMAIN job, job[id].key = Body(r).key, Accept(r, id)
        PROVE  KeyInv'
    <3>1. SameKey(id, r)'
      BY <1>2, <1>b, <2>1 DEF FindExisting, SameKey
    <3> QED BY <1>c, <2>1, <3>1
  <2> QED BY <1>2, <1>e, <2>1 DEF FindExisting
<1>3. CASE GetCached(r)
  <2> DEFINE value == CacheGet(Body(r).type, Body(r).payload)
             pc == IF value # Null THEN "cached" ELSE "insert"
             t == [request[r] EXCEPT !.pc = pc, !.value = value]
  <2>1. /\ t.pc \in {"cached", "insert"} /\ t.body = request[r].body
        /\ request' = [request EXCEPT ![r] = t]
    BY <1>0, <1>3 DEF RequestStates, GetCached
  <2> HIDE DEF t
  <2>2. request'[r] = t /\ \A s \in Requests \ {r} : request'[s] = request[s]
    BY <1>0, <2>1 DEF RequestTypeOK
  <2>3. KeyKnown(r)'
    BY <2>1, <2>2 DEF KeyKnown, AfterInsert
  <2> QED BY <1>1, <2>2, <2>3, KeyKnownStays DEF KeyInv
<1>4. CASE InsertCached(r)
  <2>1. r \notin DOMAIN job /\ Accept(r, r) /\ ~KeyTaken(Body(r).key)
        /\ CreateSucceeded(r, Body(r), request[r].value)
    BY <1>0, <1>4 DEF InsertCached, BeforeInsert
  <2> QED BY <1>b, <1>c, <1>f, <2>1
<1>5. CASE InsertQueued(r)
  <2>1. r \notin DOMAIN job /\ Move(r, "group") /\ ~KeyTaken(Body(r).key)
        /\ CreateQueued(r, Body(r))
    BY <1>0, <1>5 DEF InsertQueued, BeforeInsert
  <2> QED BY <1>a, <1>d, <1>f, <2>1
<1>6. CASE EnsureConsumerGroup(r)
  <2>1. SameKey(r, r) /\ Move(r, "add") /\ UNCHANGED job
    BY <1>0, <1>6 DEF EnsureConsumerGroup, AfterInsert
  <2> QED BY <1>a, <1>d, <1>g, <2>1
<1>7. CASE Enqueue(r)
  <2>1. SameKey(r, r) /\ Accept(r, r) /\ UNCHANGED job
    BY <1>0, <1>7 DEF Enqueue, AfterInsert
  <2> QED BY <1>b, <1>c, <1>g, <2>1
<1>8. CASE AssertQueueReady(r) \/ UniqueViolation(r) \/ RequestFails(r) \/ RequestReplyLost(r)
  BY <1>e, <1>8 DEF AssertQueueReady, UniqueViolation, RequestFails, RequestReplyLost
<1> QED BY <1>2, <1>3, <1>4, <1>5, <1>6, <1>7, <1>8 DEF RequestStep, RequestFault

LEMMA InitKeyInv == Init => KeyInv
BY DEF Init, JobInit, ServiceInit, KeyInv, UniqueKeys, KeyKnown, AfterInsert

LEMMA NextKeyInv == TypeInv /\ KeyInv /\ [Next]_vars => KeyInv'
<1> SUFFICES ASSUME TypeInv, KeyInv, [Next]_vars PROVE KeyInv'
  OBVIOUS
<1>1. CASE UNCHANGED <<job, request>>
  BY <1>1 DEF KeyInv, UniqueKeys, KeyKnown, SameKey, Body
<1>2. ASSUME NEW w \in Workers, UNCHANGED request,
             WorkerStep(w) \/ WorkerFault(w) \/ Restart(w) \/ Ready(w)
      PROVE  KeyInv'
  <2>1. CASE UNCHANGED job
    BY <1>1, <1>2, <2>1
  <2>2. CASE ~UNCHANGED job
    <3>1. UniqueKeys' /\ KeysStay
      BY <1>2, <2>2, WorkerRows, MarkKeys DEF TypeInv, TypeOK, KeyInv
    <3> QED BY <1>2, <3>1, KeyKnownStays DEF KeyInv
  <2> QED BY <2>1, <2>2
<1>3. CASE \E r \in Requests : (RequestStep(r) \/ RequestFault(r)) /\ UNCHANGED worker
  BY <1>3, RequestKeys
<1>4. CASE \/ \E u \in Users : PollStep(u)
           \/ \E k \in CacheKeys : ExpireCache(k)
           \/ \E m \in MessageIds : ClaimIdlePasses(m) /\ UNCHANGED serviceVars
           \/ EvictStream /\ UNCHANGED serviceVars
  BY <1>1, <1>4 DEF PollStep, GetJob, CacheJobResult, NothingCached, ExpireCache,
                    ClaimIdlePasses, EvictStream, serviceVars
<1> QED BY <1>1, <1>2, <1>3, <1>4 DEF Next, vars, serviceVars

(* Requests with one idempotency key that are answered 202 are answered with
   one job, however they race and whatever fails. *)
THEOREM OneJobPerKey == Spec => []SameKeySameJob
<1>1. KeyInv => SameKeySameJob
  BY DEF KeyInv, UniqueKeys, KeyKnown, SameKey, SameKeySameJob
<1> QED BY <1>1, InitTypeInv, NextTypeInv, InitKeyInv, NextKeyInv, PTL DEF Spec
=============================================================================
