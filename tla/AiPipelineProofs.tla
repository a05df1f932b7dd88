-------------------------- MODULE AiPipelineProofs ---------------------------
(***************************************************************************)
(* What holds of AiPipeline for any users, requests, workers, batch size,   *)
(* faults and number of faults.                                             *)
(***************************************************************************)
EXTENDS AiPipeline, TLAPS

(* Where everything the pipeline refers to is: messages in hand were delivered,
   a request has its row once it has inserted it and never before, a group
   that does not exist has delivered nothing. *)
BeforeInsert == {"sent", "lookup", "cacheGet", "cached", "insert", "unavailable"}
AfterInsert  == {"group", "add"}

MessagesInHand ==
    \A w \in Workers :
        /\ worker[w].pc \in HandlePoints => worker[w].msg \in 1..last
        /\ worker[w].rest \subseteq 1..last

RowsOfRequests ==
    \A r \in Requests :
        /\ request[r].pc \in BeforeInsert => r \notin DOMAIN job
        /\ request[r].pc \in AfterInsert => r \in DOMAIN job

NoGroupNothingDelivered == ~group => last = evicted

TypeInv == TypeOK /\ MessagesInHand /\ RowsOfRequests /\ NoGroupNothingDelivered

-----------------------------------------------------------------------------
(* The statements of the table keep its type. *)
LEMMA InsertType ==
    ASSUME JobTypeOK, NEW id \in Requests, NEW row \in Row, Insert(id, row)
    PROVE  JobTypeOK' /\ DOMAIN job' = DOMAIN job \cup {id}
BY DEF JobTypeOK, Insert

LEMMA CreateType ==
    ASSUME JobTypeOK, NEW id \in Requests, NEW body \in Bodies,
           NEW value \in Results \cup {Null},
           CreateQueued(id, body) \/ CreateSucceeded(id, body, value)
    PROVE  JobTypeOK' /\ DOMAIN job' = DOMAIN job \cup {id}
<1>1. /\ body.user \in Users /\ body.key \in Keys \cup {Null} /\ body.type \in AiJobTypes
      /\ Jsonb[body.payload] \in Payloads /\ body.maxAttempts \in AttemptLimits
  BY BodiesAssumption, JsonbAssumption
<1>2. CASE CreateQueued(id, body)
  BY <1>1, <1>2, InsertType DEF CreateQueued, Row, AiJobStatuses
<1>3. CASE CreateSucceeded(id, body, value)
  BY <1>1, <1>3, InsertType DEF CreateSucceeded, Row, AiJobStatuses
<1> QED BY <1>2, <1>3

LEMMA MarkType ==
    ASSUME JobTypeOK, NEW id \in DOMAIN job, NEW terminal \in BOOLEAN,
           MarkRunning(id) \/ MarkSucceeded(id) \/ MarkFailed(id, terminal)
    PROVE  JobTypeOK' /\ DOMAIN job' = DOMAIN job
<1>1. job[id] \in Row
  BY DEF JobTypeOK
<1>2. CASE MarkRunning(id)
  BY <1>1, <1>2 DEF MarkRunning, JobTypeOK, Row, AiJobStatuses
<1>3. CASE MarkSucceeded(id)
  BY <1>1, <1>3 DEF MarkSucceeded, JobTypeOK, Row, AiJobStatuses, Output, Results
<1>4. CASE MarkFailed(id, terminal)
  BY <1>1, <1>4 DEF MarkFailed, JobTypeOK, Row, AiJobStatuses
<1> QED BY <1>2, <1>3, <1>4

-----------------------------------------------------------------------------
(* The commands of the stream keep its type, and the messages in hand. *)
StreamOp(ids) ==
    \/ XGroupCreate \/ UNCHANGED streamVars
    \/ \E id \in ids : XAdd(id) \/ XAddTwice(id)
    \/ \E n \in Nat : XReadGroup(Undelivered(n)) /\ group
    \/ \E n \in Nat : XAutoClaim(ClaimableNow(n))
    \/ \E m \in Nat : XAck(m) \/ GoesIdle(m)
    \/ StreamLost

LEMMA StreamType ==
    ASSUME NEW ids, StreamTypeOK(ids), NoGroupNothingDelivered, StreamOp(ids)
    PROVE  StreamTypeOK(ids)' /\ NoGroupNothingDelivered' /\ last <= last'
<1> USE DEF StreamTypeOK, NoGroupNothingDelivered
<1>0. Len(log) \in Nat /\ evicted \in Nat /\ last \in Nat /\ evicted <= last /\ last <= Len(log)
  OBVIOUS
<1>1. CASE XGroupCreate
  <2>1. CASE UNCHANGED streamVars
    BY <2>1 DEF streamVars
  <2>2. CASE ~group /\ group' = TRUE /\ last' = evicted /\ UNCHANGED <<log, evicted, pel, idle>>
    <3>1. last' = last
      BY <2>2
    <3>2. group' \in BOOLEAN 
      BY <2>2
    <3>3. ~group' => last' = evicted'
      BY <2>2
    <3> QED BY <1>0, <2>2, <3>1, <3>2, <3>3
  <2> QED BY <1>1, <2>1, <2>2 DEF XGroupCreate
<1>2. CASE UNCHANGED streamVars
  BY <1>2 DEF streamVars
<1>3. CASE \E id \in ids : XAdd(id) \/ XAddTwice(id)
  <2>1. PICK id \in ids : XAdd(id) \/ XAddTwice(id)
    BY <1>3
  <2>2. CASE XAdd(id)
    <3>1. log' \in Seq(ids) /\ Len(log') = Len(log) + 1
      BY <2>2 DEF XAdd
    <3> QED BY <1>0, <2>2, <3>1 DEF XAdd
  <2>3. CASE XAddTwice(id)
    <3>1. <<id, id>> \in Seq(ids) /\ Len(<<id, id>>) = 2
      OBVIOUS
    <3>2. log' \in Seq(ids) /\ Len(log') = Len(log) + 2
      BY <2>3, <3>1 DEF XAddTwice
    <3> QED BY <1>0, <2>3, <3>2 DEF XAddTwice
  <2> QED BY <2>1, <2>2, <2>3
<1>4. CASE \E n \in Nat : XReadGroup(Undelivered(n)) /\ group
  <2>1. PICK n \in Nat : XReadGroup(Undelivered(n)) /\ group
    BY <1>4
  <2>2. PICK m \in Undelivered(n) : (\A k \in Undelivered(n) : k <= m) /\ last' = m
    BY <2>1 DEF XReadGroup
  <2>3. m \in Nat /\ last < m /\ m <= Len(log)
    BY <1>0, <2>2 DEF Undelivered, MessageIds
  <2>4. pel' = pel \cup Undelivered(n)
    BY <2>1 DEF XReadGroup
  <2>5. UNCHANGED <<log, evicted, group, idle>>
    BY <2>1 DEF XReadGroup
  <2>6. \A k \in Undelivered(n) : k \in (evicted + 1)..m
    BY <1>0, <2>2, <2>3 DEF Undelivered, MessageIds
  <2>7. \A k \in pel : k \in (evicted + 1)..m
    BY <1>0, <2>3
  <2>8. pel' \subseteq (evicted' + 1)..last' /\ idle' \subseteq pel'
    BY <2>2, <2>4, <2>5, <2>6, <2>7
  <2>9. last' \in evicted'..Len(log')
    BY <1>0, <2>2, <2>3, <2>5
  <2> QED BY <1>0, <2>1, <2>2, <2>3, <2>5, <2>8, <2>9
<1>5. CASE \E n \in Nat : XAutoClaim(ClaimableNow(n))
  <2>1. idle' \subseteq idle /\ UNCHANGED <<log, evicted, group, last, pel>>
    BY <1>5 DEF XAutoClaim
  <2> QED BY <1>0, <2>1
<1>6. CASE \E m \in Nat : XAck(m) \/ GoesIdle(m)
  <2>1. pel' \subseteq pel /\ idle' \subseteq pel' /\ UNCHANGED <<log, evicted, group, last>>
    BY <1>6 DEF XAck, GoesIdle
  <2> QED BY <1>0, <2>1
<1>7. CASE StreamLost
  <2>1. group' \in BOOLEAN
    BY <1>7 DEF StreamLost
  <2> QED BY <1>0, <1>7, <2>1 DEF StreamLost
<1> QED BY <1>1, <1>2, <1>3, <1>4, <1>5, <1>6, <1>7 DEF StreamOp

(* Rows are never deleted, so a message keeps naming one. *)
LEMMA StreamKept ==
    ASSUME StreamTypeOK(DOMAIN job), NoGroupNothingDelivered, StreamOp(DOMAIN job),
           DOMAIN job \subseteq DOMAIN job'
    PROVE  /\ StreamTypeOK(DOMAIN job)' /\ NoGroupNothingDelivered'
           /\ last \in Nat /\ last' \in Nat /\ last <= last'
BY StreamType DEF StreamTypeOK

-----------------------------------------------------------------------------
(* The moves of a worker's loop keep its type: what it has in hand is always
   something the group has delivered. *)
Move1(w) == \E pc \in HandlePoints : worker[w].pc \in HandlePoints /\ Goto(w, pc)
Move2(w) == \E pc \in LoopPoints \cup EndPoints : Goto(w, pc) \/ Ends(w, pc)
Move3(w) == \E batch \in SUBSET (1..last') : Take(w, batch)
Move4(w) == LoopAgain(w) \/ NextMessage(w)
Move5(w) == /\ worker[w].pc \in HandlePoints
            /\ \E n \in Nat : worker' = [worker EXCEPT ![w].pc = "process", ![w].attempts = n]
Move6(w) == worker' = [worker EXCEPT ![w].running = FALSE]

Moves(w) == Move1(w) \/ Move2(w) \/ Move3(w) \/ Move4(w) \/ Move5(w) \/ Move6(w)

LEMMA WorkerMove ==
    ASSUME WorkerTypeOK, MessagesInHand, NEW w \in Workers, NEW state \in WorkerStates,
           worker' = [worker EXCEPT ![w] = state],
           last \in Nat, last' \in Nat, last <= last',
           state.pc \in HandlePoints => state.msg \in 1..last',
           state.rest \subseteq 1..last'
    PROVE  WorkerTypeOK' /\ MessagesInHand'
<1>1. 1..last \subseteq 1..last'
  OBVIOUS
<1>2. WorkerTypeOK'
  BY DEF WorkerTypeOK
<1>3. ASSUME NEW v \in Workers PROVE worker'[v] = IF v = w THEN state ELSE worker[v]
  BY DEF WorkerTypeOK
<1> QED BY <1>1, <1>2, <1>3 DEF MessagesInHand

LEMMA WorkerMoves ==
    ASSUME WorkerTypeOK, MessagesInHand, NEW w \in Workers, Moves(w),
           last \in Nat, last' \in Nat, last <= last'
    PROVE  WorkerTypeOK' /\ MessagesInHand'
<1>0. /\ worker[w] \in WorkerStates
      /\ worker[w].pc \in HandlePoints => worker[w].msg \in 1..last'
      /\ worker[w].rest \subseteq 1..last'
  BY DEF WorkerTypeOK, MessagesInHand
<1>1. CASE Move1(w)
  <2>1. PICK pc \in HandlePoints : worker[w].pc \in HandlePoints /\ Goto(w, pc)
    BY <1>1 DEF Move1
  <2> DEFINE s == [worker[w] EXCEPT !.pc = pc]
  <2>2. worker' = [worker EXCEPT ![w] = s]
    BY <2>1 DEF Goto
  <2>3. s \in WorkerStates /\ s.msg = worker[w].msg /\ s.rest = worker[w].rest
    BY <1>0 DEF WorkerStates
  <2> QED BY <1>0, <2>1, <2>2, <2>3, WorkerMove
<1>2. CASE Move2(w)
  <2>1. PICK pc \in LoopPoints \cup EndPoints : Goto(w, pc) \/ Ends(w, pc)
    BY <1>2 DEF Move2
  <2>2. pc \notin HandlePoints
    BY DEF HandlePoints, LoopPoints, EndPoints
  <2>3. CASE Goto(w, pc)
    <3> DEFINE s == [worker[w] EXCEPT !.pc = pc]
    <3>1. worker' = [worker EXCEPT ![w] = s]
      BY <2>3 DEF Goto
    <3>2. s \in WorkerStates /\ s.pc = pc /\ s.rest = worker[w].rest
      BY <1>0 DEF WorkerStates
    <3> QED BY <1>0, <2>2, <3>1, <3>2, WorkerMove
  <2>4. CASE Ends(w, pc)
    <3>1. worker' = [worker EXCEPT ![w] = At(pc)]
      BY <2>4 DEF Ends
    <3>2. At(pc) \in WorkerStates /\ At(pc).pc = pc /\ At(pc).rest = {}
      BY DEF At, NoMessage, WorkerStates
    <3> QED BY <2>2, <3>1, <3>2, WorkerMove
  <2> QED BY <2>1, <2>3, <2>4
<1>3. ASSUME NEW batch \in SUBSET (1..last'), Take(w, batch)
      PROVE  WorkerTypeOK' /\ MessagesInHand'
  <2>1. PICK m \in batch :
          worker' = [worker EXCEPT ![w].pc = "claim", ![w].msg = m,
                                   ![w].rest = batch \ {m}, ![w].attempts = 0]
    BY <1>3 DEF Take
  <2> DEFINE s == [worker[w] EXCEPT !.pc = "claim", !.msg = m, !.rest = batch \ {m},
                                    !.attempts = 0]
  <2>2. worker' = [worker EXCEPT ![w] = s]
    BY <2>1
  <2>3. m \in 1..last' /\ m \in Nat /\ batch \ {m} \in SUBSET Nat /\ "claim" \in HandlePoints
    BY DEF HandlePoints
  <2>4. s \in WorkerStates /\ s.msg = m /\ s.rest = batch \ {m}
    BY <1>0, <2>3 DEF WorkerStates
  <2> QED BY <2>2, <2>3, <2>4, WorkerMove
<1>4. ASSUME LoopAgain(w) PROVE WorkerTypeOK' /\ MessagesInHand'
  <2> DEFINE pc == IF worker[w].running THEN "reclaim" ELSE "stopped"
             s == [worker[w] EXCEPT !.pc = pc, !.msg = NoMessage, !.attempts = 0]
  <2>1. worker' = [worker EXCEPT ![w] = s]
    BY <1>4 DEF LoopAgain
  <2>2. pc \in LoopPoints \cup EndPoints /\ pc \notin HandlePoints
    BY DEF HandlePoints, LoopPoints, EndPoints
  <2> HIDE DEF pc
  <2>3. s \in WorkerStates /\ s.pc = pc /\ s.rest = worker[w].rest
    BY <1>0, <2>2 DEF WorkerStates, NoMessage
  <2> QED BY <1>0, <2>1, <2>2, <2>3, WorkerMove
<1>5. CASE Move5(w)
  <2>1. PICK n \in Nat : worker' = [worker EXCEPT ![w].pc = "process", ![w].attempts = n]
    BY <1>5 DEF Move5
  <2> DEFINE s == [worker[w] EXCEPT !.pc = "process", !.attempts = n]
  <2>2. worker' = [worker EXCEPT ![w] = s]
    BY <2>1
  <2>3. s \in WorkerStates /\ s.msg = worker[w].msg /\ s.rest = worker[w].rest
    BY <1>0 DEF WorkerStates, HandlePoints
  <2> QED BY <1>0, <1>5, <2>2, <2>3, WorkerMove DEF Move5
<1>6. CASE Move6(w)
  <2> DEFINE s == [worker[w] EXCEPT !.running = FALSE]
  <2>2. worker' = [worker EXCEPT ![w] = s]
    BY <1>6 DEF Move6
  <2>3. s \in WorkerStates /\ s.pc = worker[w].pc /\ s.msg = worker[w].msg /\ s.rest = worker[w].rest
    BY <1>0 DEF WorkerStates
  <2> QED BY <1>0, <2>2, <2>3, WorkerMove
<1>7. CASE Move3(w)
  BY <1>3, <1>7 DEF Move3
<1>8. CASE Move4(w)
  BY <1>0, <1>3, <1>4, <1>8 DEF Move4, NextMessage
<1> QED BY <1>1, <1>2, <1>5, <1>6, <1>7, <1>8 DEF Moves

-----------------------------------------------------------------------------
(* The moves of a request: it changes its own record only. *)
Requested(r, pc, id, value) ==
    request' = [request EXCEPT ![r].pc = pc, ![r].job = id, ![r].value = value]

RequestTypeOK == request \in [Requests -> RequestStates]

LEMMA RequestMove ==
    ASSUME RequestTypeOK, NEW r \in Requests,
           NEW pc \in OpenPoints \cup AnsweredPoints,
           NEW id \in Requests \cup {Null}, NEW value \in Results \cup {Null},
           Requested(r, pc, id, value)
    PROVE  /\ RequestTypeOK'
           /\ request'[r].pc = pc /\ request'[r].job = id /\ request'[r].value = value
           /\ request'[r].body = request[r].body
           /\ \A q \in Requests \ {r} : request'[q] = request[q]
<1> DEFINE s == [request[r] EXCEPT !.pc = pc, !.job = id, !.value = value]
<1>1. request' = [request EXCEPT ![r] = s]
  BY DEF Requested
<1>2. request[r] \in RequestStates
  BY DEF RequestTypeOK
<1>3. /\ s \in RequestStates /\ s.pc = pc /\ s.job = id /\ s.value = value
      /\ s.body = request[r].body
  BY <1>2 DEF RequestStates
<1> HIDE DEF s
<1> QED BY <1>1, <1>3 DEF RequestTypeOK

LEMMA MoveIsRequested ==
    ASSUME RequestTypeOK, NEW r \in Requests, NEW pc, Move(r, pc)
    PROVE  Requested(r, pc, request[r].job, request[r].value)
<1>1. request[r] \in RequestStates
  BY DEF RequestTypeOK
<1>2. [request[r] EXCEPT !.pc = pc]
        = [request[r] EXCEPT !.pc = pc, !.job = request[r].job, !.value = request[r].value]
  BY <1>1 DEF RequestStates
<1> QED BY <1>2 DEF Move, Requested

LEMMA AcceptIsRequested ==
    ASSUME RequestTypeOK, NEW r \in Requests, NEW id, Accept(r, id)
    PROVE  Requested(r, "accepted", id, request[r].value)
<1>1. request[r] \in RequestStates
  BY DEF RequestTypeOK
<1>2. [request[r] EXCEPT !.pc = "accepted", !.job = id]
        = [request[r] EXCEPT !.pc = "accepted", !.job = id, !.value = request[r].value]
  BY <1>1 DEF RequestStates
<1> QED BY <1>2 DEF Accept, Requested

LEMMA FaultsKept ==
    ASSUME FaultsTypeOK, UNCHANGED faults \/ \E f \in FaultKinds : Spend(f)
    PROVE  FaultsTypeOK'
BY FaultsAssumption DEF FaultsTypeOK, Spend

(* What every step of a request does to the types. *)
LEMMA RequestKeepsTypes ==
    ASSUME TypeInv, NEW r \in Requests,
           NEW pc \in OpenPoints \cup AnsweredPoints,
           NEW id \in Requests \cup {Null}, NEW value \in Results \cup {Null},
           Requested(r, pc, id, value),
           JobTypeOK', DOMAIN job \subseteq DOMAIN job', DOMAIN job' \subseteq DOMAIN job \cup {r},
           pc \in BeforeInsert => r \notin DOMAIN job',
           pc \in AfterInsert => r \in DOMAIN job',
           StreamOp(DOMAIN job), FaultsTypeOK',
           UNCHANGED <<cache, redisClient, polled, worker>>
    PROVE  TypeInv'
<1>1. /\ StreamTypeOK(DOMAIN job)' /\ NoGroupNothingDelivered'
      /\ last \in Nat /\ last' \in Nat /\ last <= last'
  BY StreamKept DEF TypeInv, TypeOK
<1>2. /\ RequestTypeOK' /\ request'[r].pc = pc
      /\ \A q \in Requests \ {r} : request'[q] = request[q]
  BY RequestMove DEF TypeInv, TypeOK, ServiceTypeOK, RequestTypeOK
<1>3. RowsOfRequests'
  BY <1>2 DEF TypeInv, RowsOfRequests
<1>4. ServiceTypeOK' /\ CacheTypeOK' /\ WorkerTypeOK'
  BY <1>2 DEF TypeInv, TypeOK, ServiceTypeOK, RequestTypeOK, CacheTypeOK, WorkerTypeOK
<1>5. 1..last \subseteq 1..last'
  BY <1>1
<1>6. MessagesInHand'
  BY <1>1, <1>5 DEF TypeInv, MessagesInHand
<1> QED BY <1>1, <1>3, <1>4, <1>6 DEF TypeInv, TypeOK

LEMMA RequestTypeInv ==
    ASSUME TypeInv, NEW r \in Requests, RequestStep(r) \/ RequestFault(r), UNCHANGED worker
    PROVE  TypeInv'
<1> DEFINE q == request[r]
<1>0. /\ JobTypeOK /\ StreamTypeOK(DOMAIN job) /\ RequestTypeOK /\ FaultsTypeOK /\ CacheTypeOK
      /\ q \in RequestStates /\ q.body \in Bodies
      /\ q.job \in Requests \cup {Null} /\ q.value \in Results \cup {Null}
      /\ q.pc \in BeforeInsert => r \notin DOMAIN job
      /\ q.pc \in AfterInsert => r \in DOMAIN job
  BY DEF TypeInv, TypeOK, ServiceTypeOK, RequestTypeOK, RequestStates, RowsOfRequests
<1> HIDE DEF q
<1>1. CASE AssertQueueReady(r)
  <2>1. PICK pc \in {"unavailable", "lookup", "cacheGet", "insert"} : Move(r, pc)
    BY <1>1 DEF AssertQueueReady
  <2>2. pc \in OpenPoints \cup AnsweredPoints /\ pc \notin AfterInsert /\ r \notin DOMAIN job
    BY <1>0, <1>1, <2>1 DEF AssertQueueReady, OpenPoints, AnsweredPoints, AfterInsert, BeforeInsert, q
  <2> QED BY <1>0, <1>1, <2>1, <2>2, MoveIsRequested, RequestKeepsTypes, FaultsKept
          DEF AssertQueueReady, StreamOp, JobTypeOK, q
<1>2. CASE FindExisting(r)
  <2>1. CASE \E id \in DOMAIN job : Accept(r, id)
    <3>1. PICK id \in DOMAIN job : Accept(r, id)
      BY <2>1
    <3>2. id \in Requests /\ "accepted" \in AnsweredPoints /\ "accepted" \notin BeforeInsert \cup AfterInsert
      BY <1>0 DEF JobTypeOK, AnsweredPoints, BeforeInsert, AfterInsert
    <3> QED BY <1>0, <1>2, <3>1, <3>2, AcceptIsRequested, RequestKeepsTypes, FaultsKept
            DEF FindExisting, StreamOp, JobTypeOK, q
  <2>2. CASE \E pc \in {"cacheGet", "insert"} : Move(r, pc)
    <3>1. PICK pc \in {"cacheGet", "insert"} : Move(r, pc)
      BY <2>2
    <3>2. pc \in OpenPoints /\ pc \notin AfterInsert /\ r \notin DOMAIN job
      BY <1>0, <1>2, <3>1 DEF FindExisting, OpenPoints, AfterInsert, BeforeInsert, q
    <3> QED BY <1>0, <1>2, <3>1, <3>2, MoveIsRequested, RequestKeepsTypes, FaultsKept
            DEF FindExisting, StreamOp, JobTypeOK, q
  <2> QED BY <1>2, <2>1, <2>2 DEF FindExisting
<1>3. CASE GetCached(r)
  <2> DEFINE value == CacheGet(Body(r).type, Body(r).payload)
             pc == IF value # Null THEN "cached" ELSE "insert"
  <2>1. value \in Results \cup {Null}
    BY <1>0, BodiesAssumption DEF CacheTypeOK, CacheGet, CacheKeys, BuildCacheKey, Body, q
  <2>2. pc \in OpenPoints /\ pc \notin AfterInsert /\ r \notin DOMAIN job
    BY <1>0, <1>3 DEF GetCached, OpenPoints, AfterInsert, BeforeInsert, q
  <2>3. request' = [request EXCEPT ![r].pc = pc, ![r].value = value]
    BY <1>3 DEF GetCached
  <2> HIDE DEF value, pc
  <2>4. [q EXCEPT !.pc = pc, !.value = value] = [q EXCEPT !.pc = pc, !.job = q.job, !.value = value]
    BY <1>0 DEF RequestStates
  <2>5. Requested(r, pc, q.job, value)
    BY <1>0, <2>3, <2>4 DEF Requested, RequestTypeOK, q
  <2> QED BY <1>0, <1>3, <2>1, <2>2, <2>5, RequestKeepsTypes, FaultsKept
          DEF GetCached, StreamOp, JobTypeOK
<1>4. CASE InsertCached(r)
  <2>1. JobTypeOK' /\ DOMAIN job' = DOMAIN job \cup {r}
    BY <1>0, <1>4, CreateType DEF InsertCached, Body, q
  <2>2. "accepted" \in AnsweredPoints /\ "accepted" \notin BeforeInsert \cup AfterInsert
    BY DEF AnsweredPoints, BeforeInsert, AfterInsert
  <2> QED BY <1>0, <1>4, <2>1, <2>2, AcceptIsRequested, RequestKeepsTypes, FaultsKept
          DEF InsertCached, StreamOp, q
<1>5. CASE InsertQueued(r)
  <2>1. JobTypeOK' /\ DOMAIN job' = DOMAIN job \cup {r}
    BY <1>0, <1>5, CreateType DEF InsertQueued, Body, q
  <2>2. "group" \in OpenPoints /\ "group" \notin BeforeInsert
    BY DEF OpenPoints, BeforeInsert
  <2> QED BY <1>0, <1>5, <2>1, <2>2, MoveIsRequested, RequestKeepsTypes, FaultsKept
          DEF InsertQueued, StreamOp, q
<1>6. CASE UniqueViolation(r)
  <2>1. "failed" \in AnsweredPoints /\ "failed" \notin BeforeInsert \cup AfterInsert
    BY DEF AnsweredPoints, BeforeInsert, AfterInsert
  <2> QED BY <1>0, <1>6, <2>1, MoveIsRequested, RequestKeepsTypes, FaultsKept
          DEF UniqueViolation, StreamOp, JobTypeOK, q
<1>7. CASE EnsureConsumerGroup(r)
  <2>1. "add" \in OpenPoints /\ "add" \notin BeforeInsert /\ r \in DOMAIN job
    BY <1>0, <1>7 DEF EnsureConsumerGroup, OpenPoints, BeforeInsert, AfterInsert, q
  <2> QED BY <1>0, <1>7, <2>1, MoveIsRequested, RequestKeepsTypes, FaultsKept
          DEF EnsureConsumerGroup, StreamOp, JobTypeOK, q
<1>8. CASE Enqueue(r)
  <2>1. /\ "accepted" \in AnsweredPoints /\ "accepted" \notin BeforeInsert \cup AfterInsert
        /\ r \in DOMAIN job /\ "resend" \in FaultKinds
    BY <1>0, <1>8 DEF Enqueue, AnsweredPoints, BeforeInsert, AfterInsert, FaultKinds, q
  <2> QED BY <1>0, <1>8, <2>1, AcceptIsRequested, RequestKeepsTypes, FaultsKept
          DEF Enqueue, StreamOp, JobTypeOK, q
<1>9. CASE RequestFails(r)
  <2>1. "failed" \in AnsweredPoints /\ "failed" \notin BeforeInsert \cup AfterInsert
    BY DEF AnsweredPoints, BeforeInsert, AfterInsert
  <2>2. FaultsTypeOK'
    BY <1>0, <1>9, FaultsKept DEF RequestFails, FaultKinds
  <2> QED BY <1>0, <1>9, <2>1, <2>2, MoveIsRequested, RequestKeepsTypes
          DEF RequestFails, StreamOp, JobTypeOK, q
<1>10. CASE RequestReplyLost(r)
  <2>1. "failed" \in AnsweredPoints /\ "failed" \notin BeforeInsert \cup AfterInsert
    BY DEF AnsweredPoints, BeforeInsert, AfterInsert
  <2>2. FaultsTypeOK'
    BY <1>0, <1>10, FaultsKept DEF RequestReplyLost, FaultKinds
  <2>3. CASE q.pc \in {"cached", "insert"}
    <3>1. /\ CreateSucceeded(r, Body(r), request[r].value) \/ CreateQueued(r, Body(r))
          /\ UNCHANGED streamVars
      BY <1>10, <2>3 DEF RequestReplyLost, q
    <3>2. JobTypeOK' /\ DOMAIN job' = DOMAIN job \cup {r}
      BY <1>0, <3>1, CreateType DEF Body, q
    <3> QED BY <1>0, <1>10, <2>1, <2>2, <3>1, <3>2, MoveIsRequested, RequestKeepsTypes
            DEF RequestReplyLost, StreamOp, q
  <2>4. CASE q.pc \in {"group", "add"}
    <3>1. UNCHANGED job /\ (XGroupCreate \/ XAdd(r)) /\ r \in DOMAIN job
      BY <1>0, <1>10, <2>4 DEF RequestReplyLost, AfterInsert, q
    <3> QED BY <1>0, <1>10, <2>1, <2>2, <3>1, MoveIsRequested, RequestKeepsTypes
            DEF RequestReplyLost, StreamOp, JobTypeOK, q
  <2> QED BY <1>10, <2>3, <2>4 DEF RequestReplyLost, q
<1> QED BY <1>1, <1>2, <1>3, <1>4, <1>5, <1>6, <1>7, <1>8, <1>9, <1>10
        DEF RequestStep, RequestFault

(* The other steps of the API's side. *)
LEMMA PollTypeInv ==
    ASSUME TypeInv, UNCHANGED worker,
           (\E u \in Users : PollStep(u)) \/ (\E k \in CacheKeys : ExpireCache(k))
    PROVE  TypeInv'
<1>1. UNCHANGED <<job, streamVars, redisClient, request>>
  BY DEF PollStep, GetJob, CacheJobResult, NothingCached, ExpireCache
<1>2. FaultsTypeOK'
  BY FaultsKept DEF TypeInv, TypeOK, PollStep, GetJob, CacheJobResult, NothingCached,
                    ExpireCache, FaultKinds
<1>3. \A u \in Users : polled[u] \in [key : CacheKeys, value : Results] \cup {Null}
  BY DEF TypeInv, TypeOK, ServiceTypeOK
<1>4. CacheTypeOK' /\ polled' \in [Users -> [key : CacheKeys, value : Results] \cup {Null}]
  <2>1. ASSUME NEW u \in Users, NEW id \in Requests, GetJob(u, id)
        PROVE  CacheTypeOK' /\ polled' \in [Users -> [key : CacheKeys, value : Results] \cup {Null}]
    <3>1. job[id] \in Row /\ UNCHANGED cache
      BY <2>1 DEF GetJob, TypeInv, TypeOK, JobTypeOK
    <3>2. [key |-> BuildCacheKey(job[id].type, job[id].payload), value |-> job[id].result]
            \in [key : CacheKeys, value : Results]
      BY <2>1, <3>1 DEF GetJob, Row, CacheKeys, BuildCacheKey
    <3> QED BY <2>1, <3>1, <3>2 DEF GetJob, TypeInv, TypeOK, ServiceTypeOK, CacheTypeOK
  <2>2. ASSUME NEW u \in Users, CacheJobResult(u)
        PROVE  CacheTypeOK' /\ polled' \in [Users -> [key : CacheKeys, value : Results] \cup {Null}]
    BY <1>3, <2>2 DEF CacheJobResult, CacheSet, TypeInv, TypeOK, ServiceTypeOK, CacheTypeOK
  <2>3. ASSUME NEW u \in Users, NothingCached(u)
        PROVE  CacheTypeOK' /\ polled' \in [Users -> [key : CacheKeys, value : Results] \cup {Null}]
    BY <2>3 DEF NothingCached, TypeInv, TypeOK, ServiceTypeOK, CacheTypeOK
  <2>4. ASSUME NEW k \in CacheKeys, ExpireCache(k)
        PROVE  CacheTypeOK' /\ polled' \in [Users -> [key : CacheKeys, value : Results] \cup {Null}]
    BY <2>4 DEF ExpireCache, CacheExpires, TypeInv, TypeOK, ServiceTypeOK, CacheTypeOK
  <2> QED BY <2>1, <2>2, <2>3, <2>4 DEF PollStep
<1> QED BY <1>1, <1>2, <1>4
        DEF TypeInv, TypeOK, JobTypeOK, StreamTypeOK, ServiceTypeOK, WorkerTypeOK,
            MessagesInHand, RowsOfRequests, NoGroupNothingDelivered, streamVars

-----------------------------------------------------------------------------
(* What every step of a worker does to the types. *)
LEMMA WorkerKeepsTypes ==
    ASSUME TypeInv, NEW w \in Workers, Moves(w) \/ UNCHANGED worker,
           JobTypeOK', DOMAIN job' = DOMAIN job,
           StreamOp(DOMAIN job), FaultsTypeOK', UNCHANGED serviceVars
    PROVE  TypeInv'
<1>1. /\ StreamTypeOK(DOMAIN job)' /\ NoGroupNothingDelivered'
      /\ last \in Nat /\ last' \in Nat /\ last <= last'
  BY StreamKept DEF TypeInv, TypeOK
<1>2. WorkerTypeOK' /\ MessagesInHand'
  <2>1. CASE Moves(w)
    BY <1>1, <2>1, WorkerMoves DEF TypeInv, TypeOK
  <2>2. CASE UNCHANGED worker
    <3>1. 1..last \subseteq 1..last'
      BY <1>1
    <3> QED BY <2>2, <3>1 DEF TypeInv, TypeOK, WorkerTypeOK, MessagesInHand
  <2> QED BY <2>1, <2>2
<1> QED BY <1>1, <1>2 DEF TypeInv, TypeOK, serviceVars, CacheTypeOK, ServiceTypeOK, RowsOfRequests

(* A worker's message names a row; what it takes next was delivered. *)
LEMMA InHandType ==
    ASSUME TypeInv, NEW w \in Workers
    PROVE  /\ worker[w] \in WorkerStates
           /\ worker[w].pc \in HandlePoints =>
                /\ worker[w].msg \in MessageIds /\ worker[w].msg \in Nat
                /\ JobOf(w) \in DOMAIN job
           /\ ClaimableNow(WorkerConcurrency) \subseteq 1..last
           /\ WorkerConcurrency \in Nat
<1>1. /\ worker[w] \in WorkerStates
      /\ worker[w].pc \in HandlePoints => worker[w].msg \in 1..last
      /\ last \in Nat /\ last <= Len(log) /\ Len(log) \in Nat /\ log \in Seq(DOMAIN job)
      /\ idle \subseteq (evicted + 1)..last /\ evicted \in Nat
  BY DEF TypeInv, TypeOK, WorkerTypeOK, MessagesInHand, StreamTypeOK
<1>2. ASSUME worker[w].pc \in HandlePoints
      PROVE  /\ worker[w].msg \in MessageIds /\ worker[w].msg \in Nat
             /\ JobOf(w) \in DOMAIN job
  BY <1>1, <1>2 DEF MessageIds, JobOf
<1>3. (evicted + 1)..last \subseteq 1..last
  BY <1>1
<1>4. ClaimableNow(WorkerConcurrency) \subseteq 1..last
  BY <1>1, <1>3 DEF ClaimableNow
<1> QED BY <1>1, <1>2, <1>4, WorkerAssumption

LEMMA TakenIsDelivered ==
    ASSUME TypeInv, NEW n \in Nat, XReadGroup(Undelivered(n))
    PROVE  Undelivered(n) \subseteq 1..last'
<1>1. PICK m \in Undelivered(n) : (\A k \in Undelivered(n) : k <= m) /\ last' = m
  BY DEF XReadGroup
<1>2. Len(log) \in Nat
  BY DEF TypeInv, TypeOK, StreamTypeOK
<1> QED BY <1>1, <1>2 DEF Undelivered, MessageIds

LEMMA WorkerTypeInv ==
    ASSUME TypeInv, NEW w \in Workers, WorkerStep(w), UNCHANGED serviceVars
    PROVE  TypeInv'
<1>0. /\ JobTypeOK /\ FaultsTypeOK /\ worker[w] \in WorkerStates
      /\ UNCHANGED job => JobTypeOK' /\ DOMAIN job' = DOMAIN job
      /\ UNCHANGED faults => FaultsTypeOK'
      /\ UNCHANGED streamVars => StreamOp(DOMAIN job)
  BY FaultsKept DEF TypeInv, TypeOK, JobTypeOK, StreamOp, WorkerTypeOK
<1>a. \A pc \in LoopPoints \cup EndPoints : Goto(w, pc) \/ Ends(w, pc) => Moves(w)
  BY DEF Moves, Move2
<1>b. LoopAgain(w) \/ NextMessage(w) => Moves(w)
  BY DEF Moves, Move4
<1>c. worker[w].pc \in HandlePoints => \A pc \in HandlePoints : Goto(w, pc) => Moves(w)
  BY DEF Moves, Move1
<1>1. CASE EnsureGroup(w)
  BY <1>0, <1>b, <1>1, WorkerKeepsTypes DEF EnsureGroup, StreamOp
<1>2. CASE Reclaim(w)
  <2>1. CASE XAutoClaim(ClaimableNow(WorkerConcurrency)) /\ Take(w, ClaimableNow(WorkerConcurrency))
    <3>1. StreamOp(DOMAIN job) /\ last' = last
      BY <2>1, InHandType DEF StreamOp, XAutoClaim
    <3>2. Moves(w)
      BY <2>1, <3>1, InHandType DEF Moves, Move3
    <3> QED BY <1>0, <1>2, <3>1, <3>2, WorkerKeepsTypes DEF Reclaim
  <2>2. CASE Goto(w, "read") /\ UNCHANGED streamVars
    BY <1>0, <1>a, <1>2, <2>2, WorkerKeepsTypes DEF Reclaim, LoopPoints
  <2> QED BY <1>2, <2>1, <2>2 DEF Reclaim
<1>3. CASE Read(w)
  <2> DEFINE got == Undelivered(WorkerConcurrency)
  <2>1. CASE group /\ XReadGroup(got) /\ Take(w, got)
    <3>1. Moves(w)
      BY <2>1, InHandType, TakenIsDelivered DEF Moves, Move3
    <3> QED BY <1>0, <1>3, <2>1, <3>1, InHandType, WorkerKeepsTypes DEF Read, StreamOp
  <2>2. CASE (LoopAgain(w) \/ Ends(w, "dead")) /\ UNCHANGED streamVars
    BY <1>0, <1>a, <1>b, <1>3, <2>2, WorkerKeepsTypes DEF Read, EndPoints
  <2> QED BY <1>3, <2>1, <2>2 DEF Read
<1>4. CASE Claim(w)
  <2>1. CASE MarkRunning(JobOf(w)) /\ Claimable(JobOf(w))
             /\ worker' = [worker EXCEPT ![w].pc = "process",
                                         ![w].attempts = job[JobOf(w)].attempts + 1]
    <3>1. JobOf(w) \in DOMAIN job /\ job[JobOf(w)] \in Row /\ worker[w].pc \in HandlePoints
      BY <1>0, <1>4, <2>1 DEF Claimable, JobTypeOK, Claim, HandlePoints
    <3>2. job[JobOf(w)].attempts + 1 \in Nat
      BY <3>1 DEF Row
    <3>4. Moves(w)
      BY <2>1, <3>1, <3>2 DEF Moves, Move5
    <3>3. JobTypeOK' /\ DOMAIN job' = DOMAIN job
      BY <1>0, <2>1, <3>1, MarkType
    <3> QED BY <1>0, <1>4, <3>3, <3>4, WorkerKeepsTypes DEF Claim
  <2>2. CASE Goto(w, "ackSkip") /\ UNCHANGED job
    BY <1>0, <1>c, <1>4, <2>2, WorkerKeepsTypes DEF Claim, HandlePoints
  <2> QED BY <1>4, <2>1, <2>2 DEF Claim
<1>5. CASE AckSkip(w)
  BY <1>0, <1>b, <1>5, InHandType, WorkerKeepsTypes DEF AckSkip, StreamOp, HandlePoints
<1>6. CASE Process(w)
  BY <1>0, <1>c, <1>6, WorkerKeepsTypes DEF Process, HandlePoints
<1>7. CASE Succeed(w)
  <2>1. JobTypeOK' /\ DOMAIN job' = DOMAIN job
    BY <1>0, <1>7, InHandType, MarkType DEF Succeed, HandlePoints
  <2> QED BY <1>0, <1>c, <1>7, <2>1, WorkerKeepsTypes DEF Succeed, HandlePoints
<1>8. CASE Ack(w)
  BY <1>0, <1>b, <1>8, InHandType, WorkerKeepsTypes DEF Ack, StreamOp, HandlePoints
<1>9. CASE Fail(w)
  <2>1. Terminal(w) \in BOOLEAN /\ JobOf(w) \in DOMAIN job /\ MarkFailed(JobOf(w), Terminal(w))
    BY <1>9, InHandType DEF Fail, HandlePoints, Terminal
  <2>2. JobTypeOK' /\ DOMAIN job' = DOMAIN job
    BY <1>0, <2>1, MarkType
  <2> QED BY <1>0, <1>b, <1>c, <1>9, <2>2, WorkerKeepsTypes DEF Fail, HandlePoints
<1>10. CASE AckFailed(w)
  BY <1>0, <1>b, <1>10, InHandType, WorkerKeepsTypes DEF AckFailed, StreamOp, HandlePoints
<1> QED BY <1>1, <1>2, <1>3, <1>4, <1>5, <1>6, <1>7, <1>8, <1>9, <1>10 DEF WorkerStep

LEMMA RaiseMoves ==
    ASSUME TypeInv, NEW w \in Workers, Raise(w)
    PROVE  Moves(w)
BY DEF Raise, Moves, Move1, Move2, HandlePoints, EndPoints

LEMMA FaultTypeInv ==
    ASSUME TypeInv, NEW w \in Workers,
           WorkerFault(w) \/ Restart(w) \/ Ready(w), UNCHANGED serviceVars
    PROVE  TypeInv'
<1>0. /\ JobTypeOK /\ FaultsTypeOK
      /\ UNCHANGED job => JobTypeOK' /\ DOMAIN job' = DOMAIN job
      /\ UNCHANGED faults => FaultsTypeOK'
      /\ UNCHANGED streamVars => StreamOp(DOMAIN job)
  BY FaultsKept DEF TypeInv, TypeOK, JobTypeOK, StreamOp
<1>a. \A pc \in LoopPoints \cup EndPoints : Ends(w, pc) => Moves(w)
  BY DEF Moves, Move2
<1>b. WorkerFault(w) => FaultsTypeOK'
  BY <1>0, FaultsKept DEF WorkerFault, CallFails, RedisReplyLost, DbReplyLost, Crash, Stop,
                          FaultKinds
<1>1. CASE CallFails(w)
  BY <1>0, <1>b, <1>1, RaiseMoves, WorkerKeepsTypes DEF CallFails, WorkerFault
<1>2. CASE RedisReplyLost(w)
  <2>1. StreamOp(DOMAIN job)
    BY <1>2, InHandType DEF RedisReplyLost, StreamOp, HandlePoints
  <2> QED BY <1>0, <1>b, <1>2, <2>1, RaiseMoves, WorkerKeepsTypes DEF RedisReplyLost, WorkerFault
<1>3. CASE DbReplyLost(w)
  <2>1. JobOf(w) \in DOMAIN job /\ Terminal(w) \in BOOLEAN
    BY <1>3, InHandType DEF DbReplyLost, HandlePoints, Terminal
  <2>2. JobTypeOK' /\ DOMAIN job' = DOMAIN job
    BY <1>0, <1>3, <2>1, MarkType DEF DbReplyLost
  <2> QED BY <1>0, <1>b, <1>3, <2>2, RaiseMoves, WorkerKeepsTypes DEF DbReplyLost, WorkerFault
<1>4. CASE Crash(w)
  BY <1>0, <1>a, <1>b, <1>4, WorkerKeepsTypes DEF Crash, WorkerFault, EndPoints
<1>5. CASE Stop(w)
  <2>1. Moves(w)
    BY <1>5 DEF Stop, Moves, Move6
  <2> QED BY <1>0, <1>b, <1>5, <2>1, WorkerKeepsTypes DEF Stop, WorkerFault
<1>6. CASE Restart(w)
  BY <1>0, <1>a, <1>6, WorkerKeepsTypes DEF Restart, LoopPoints
<1>7. CASE Ready(w)
  BY <1>0, <1>7, WorkerKeepsTypes DEF Ready, StreamOp
<1> QED BY <1>1, <1>2, <1>3, <1>4, <1>5, <1>6, <1>7 DEF WorkerFault

LEMMA EnvironmentTypeInv ==
    ASSUME TypeInv, UNCHANGED serviceVars,
           (\E m \in MessageIds : ClaimIdlePasses(m)) \/ EvictStream
    PROVE  TypeInv'
<1>1. UNCHANGED <<job, worker>> /\ StreamOp(DOMAIN job)
  BY DEF ClaimIdlePasses, EvictStream, StreamOp, MessageIds
<1>2. JobTypeOK' /\ FaultsTypeOK' /\ DOMAIN job' = DOMAIN job
  BY <1>1, FaultsKept DEF TypeInv, TypeOK, JobTypeOK, ClaimIdlePasses, EvictStream, FaultKinds
<1>3. /\ StreamTypeOK(DOMAIN job)' /\ NoGroupNothingDelivered'
      /\ last \in Nat /\ last' \in Nat /\ last <= last'
  BY <1>1, <1>2, StreamKept DEF TypeInv, TypeOK
<1>4. 1..last \subseteq 1..last'
  BY <1>3
<1>5. WorkerTypeOK' /\ MessagesInHand'
  BY <1>1, <1>4 DEF TypeInv, TypeOK, WorkerTypeOK, MessagesInHand
<1> QED BY <1>1, <1>2, <1>3, <1>5
        DEF TypeInv, TypeOK, serviceVars, CacheTypeOK, ServiceTypeOK, RowsOfRequests

-----------------------------------------------------------------------------
LEMMA InitTypeInv == Init => TypeInv
<1> SUFFICES ASSUME Init PROVE TypeInv
  OBVIOUS
<1>1. JobTypeOK /\ DOMAIN job = {}
  BY DEF Init, JobInit, JobTypeOK
<1>2. StreamTypeOK({}) /\ NoGroupNothingDelivered /\ last = 0
  <2>1. log = << >> /\ evicted = 0 /\ group = FALSE /\ last = 0 /\ pel = {} /\ idle = {}
    BY DEF Init, StreamInit
  <2>2. log \in Seq({}) /\ Len(log) = 0
    BY <2>1
  <2>3. group \in BOOLEAN
    BY <2>1
  <2> QED BY <2>1, <2>2, <2>3 DEF StreamTypeOK, NoGroupNothingDelivered
<1>3. /\ CacheTypeOK
      /\ redisClient \in BOOLEAN
      /\ polled \in [Users -> [key : CacheKeys, value : Results] \cup {Null}]
  BY DEF Init, ServiceInit, CacheInit, CacheTypeOK
<1>4. /\ request \in [Requests -> RequestStates]
      /\ \A r \in Requests : request[r].pc = "sent"
  BY DEF Init, ServiceInit, RequestStates, OpenPoints
<1>5. /\ WorkerTypeOK
      /\ \A w \in Workers : worker[w].pc = "start" /\ worker[w].rest = {}
  BY DEF Init, WorkerInit, WorkerTypeOK, WorkerStates, At, NoMessage, LoopPoints
<1>6. FaultsTypeOK
  BY FaultsAssumption DEF Init, FaultsInit, FaultsTypeOK
<1>7. RowsOfRequests
  BY <1>1, <1>4 DEF RowsOfRequests, AfterInsert
<1>8. MessagesInHand
  BY <1>5 DEF MessagesInHand, HandlePoints
<1> QED BY <1>1, <1>2, <1>3, <1>4, <1>5, <1>6, <1>7, <1>8 DEF TypeInv, TypeOK, ServiceTypeOK

LEMMA NextTypeInv == TypeInv /\ [Next]_vars => TypeInv'
<1> SUFFICES ASSUME TypeInv, [Next]_vars PROVE TypeInv'
  OBVIOUS
<1>1. CASE UNCHANGED vars
  BY <1>1 DEF vars, serviceVars, streamVars, TypeInv, TypeOK, JobTypeOK, StreamTypeOK,
              CacheTypeOK, ServiceTypeOK, WorkerTypeOK, FaultsTypeOK, MessagesInHand,
              RowsOfRequests, NoGroupNothingDelivered
<1>2. CASE Next
  BY <1>2, RequestTypeInv, PollTypeInv, WorkerTypeInv, FaultTypeInv, EnvironmentTypeInv DEF Next
<1> QED BY <1>1, <1>2

(* Every variable of every component keeps its type, whatever fails. *)
THEOREM TypeCorrect == Spec => []TypeOK
<1>1. TypeInv => TypeOK
  BY DEF TypeInv
<1> QED BY <1>1, InitTypeInv, NextTypeInv, PTL DEF Spec

-----------------------------------------------------------------------------
(* Why a message is never acknowledged too early.  A worker acknowledges on
   what it knew when it claimed the job, so the argument is that what it knew
   cannot become false: attempts only grow, a stored result stays. *)
RowGrows(id) ==
    /\ id \in DOMAIN job'
    /\ job'[id].maxAttempts = job[id].maxAttempts
    /\ job'[id].attempts >= job[id].attempts
    /\ job[id].result # Null => job'[id].result # Null

RowsGrow == \A id \in DOMAIN job : RowGrows(id)

(* What a worker knows of its job at each point of the handler. *)
Attempting == {"process", "succeed", "ack", "fail"}
AckPoints  == {"ackSkip", "ack", "ackFailed"}

Knows(w) ==
    /\ worker[w].pc \in Attempting => worker[w].attempts <= job[JobOf(w)].attempts
    /\ worker[w].pc \in AckPoints => Settled(JobOf(w))

RequestKnows == \A r \in Requests : request[r].pc = "cached" => request[r].value # Null

NeverCancelled == \A id \in DOMAIN job : job[id].status # "CANCELLED"

SettledInv ==
    /\ AckedOnlyWhenSettled
    /\ StatusTellsTruth
    /\ NeverCancelled
    /\ \A w \in Workers : Knows(w)
    /\ RequestKnows

RowsTruthful == StatusTellsTruth /\ NeverCancelled

LEMMA CreateGrows ==
    ASSUME JobTypeOK, RowsTruthful, NEW id \in Requests \ DOMAIN job, NEW body \in Bodies,
           NEW value \in Results \cup {Null},
           CreateQueued(id, body) \/ (CreateSucceeded(id, body, value) /\ value # Null)
    PROVE  RowsGrow /\ RowsTruthful'
<1> USE DEF RowsTruthful, NeverCancelled
<1>1. \A i \in DOMAIN job : job[i] \in Row /\ job'[i] = job[i] /\ i \in DOMAIN job'
  BY DEF CreateQueued, CreateSucceeded, Insert, JobTypeOK
<1>2. RowsGrow
  BY <1>1 DEF RowsGrow, RowGrows, Row
<1>3. DOMAIN job' = DOMAIN job \cup {id}
  BY DEF CreateQueued, CreateSucceeded, Insert
<1>4. CASE CreateQueued(id, body)
  <2>1. job'[id].status = "QUEUED" /\ ~job'[id].finished
    BY <1>4 DEF CreateQueued, Insert
  <2> QED BY <1>1, <1>2, <1>3, <2>1 DEF StatusTellsTruth
<1>5. CASE CreateSucceeded(id, body, value) /\ value # Null
  <2>1. /\ job'[id].status = "SUCCEEDED" /\ ~job'[id].error /\ job'[id].finished
        /\ job'[id].result # Null
    BY <1>5 DEF CreateSucceeded, Insert
  <2> QED BY <1>1, <1>2, <1>3, <2>1 DEF StatusTellsTruth
<1> QED BY <1>4, <1>5

LEMMA MarkGrows ==
    ASSUME JobTypeOK, RowsTruthful, NEW id \in DOMAIN job, NEW terminal \in BOOLEAN,
           terminal => job[id].attempts >= job[id].maxAttempts,
           MarkRunning(id) \/ MarkSucceeded(id) \/ MarkFailed(id, terminal)
    PROVE  RowsGrow /\ RowsTruthful'
<1> USE DEF RowsTruthful, NeverCancelled
<1>1. DOMAIN job' = DOMAIN job /\ \A i \in DOMAIN job \ {id} : job'[i] = job[i]
  BY DEF MarkRunning, MarkSucceeded, MarkFailed, JobTypeOK
<1>2. \A i \in DOMAIN job : job[i] \in Row
  BY DEF JobTypeOK
<1>3. CASE MarkRunning(id)
  <2>1. /\ job'[id].status = "RUNNING" /\ job'[id].attempts = job[id].attempts + 1
        /\ job'[id].maxAttempts = job[id].maxAttempts /\ job'[id].result = job[id].result
    BY <1>2, <1>3 DEF MarkRunning, Row, JobTypeOK
  <2> QED BY <1>1, <1>2, <2>1 DEF RowsGrow, RowGrows, StatusTellsTruth, Row
<1>4. CASE MarkSucceeded(id)
  <2>1. /\ job'[id].status = "SUCCEEDED" /\ job'[id].attempts = job[id].attempts
        /\ job'[id].maxAttempts = job[id].maxAttempts
        /\ job'[id].result = Output(job[id].type, job[id].payload)
        /\ job'[id].error = FALSE /\ job'[id].finished = TRUE
    BY <1>2, <1>4 DEF MarkSucceeded, Row, JobTypeOK
  <2>2. job'[id].result # Null
    BY <1>2, <2>1, NullAssumption DEF Output, Results, Row
  <2> QED BY <1>1, <1>2, <2>1, <2>2 DEF RowsGrow, RowGrows, StatusTellsTruth, Row
<1>5. CASE MarkFailed(id, terminal)
  <2>1. /\ job'[id].status = IF terminal THEN "FAILED" ELSE "QUEUED"
        /\ job'[id].attempts = job[id].attempts
        /\ job'[id].maxAttempts = job[id].maxAttempts /\ job'[id].result = job[id].result
        /\ job'[id].error = TRUE /\ job'[id].finished = terminal
    BY <1>2, <1>5 DEF MarkFailed, Row, JobTypeOK
  <2> QED BY <1>1, <1>2, <2>1 DEF RowsGrow, RowGrows, StatusTellsTruth, Row
<1> QED BY <1>3, <1>4, <1>5

(* Only XACK acknowledges: a step acknowledges nothing new, or what it XACKs. *)
LogGrows == \A m \in MessageIds : m \in MessageIds' /\ log'[m] = log[m]

NewlyAcked(S) ==
    \A m \in MessageIds' : Acked(m)' => m \in MessageIds /\ (Acked(m) \/ m \in S)

LEMMA AcksOfStream ==
    ASSUME StreamTypeOK(DOMAIN job), NoGroupNothingDelivered, NEW S,
           \/ XGroupCreate \/ UNCHANGED streamVars
           \/ \E id \in DOMAIN job : XAdd(id) \/ XAddTwice(id)
           \/ \E n \in Nat : XReadGroup(Undelivered(n)) /\ group
           \/ \E n \in Nat : XAutoClaim(ClaimableNow(n))
           \/ \E m \in S : XAck(m)
           \/ \E m \in Nat : GoesIdle(m)
           \/ StreamLost
    PROVE  LogGrows /\ NewlyAcked(S)
<1> USE DEF LogGrows, NewlyAcked, Acked, MessageIds
<1>0. /\ Len(log) \in Nat /\ evicted \in Nat /\ last \in Nat /\ evicted <= last /\ last <= Len(log)
      /\ log \in Seq(DOMAIN job)
  BY DEF StreamTypeOK
<1>1. CASE XGroupCreate \/ UNCHANGED streamVars
  <2>1. UNCHANGED <<log, evicted, pel>> /\ last' = last
    BY <1>1 DEF XGroupCreate, streamVars, NoGroupNothingDelivered
  <2> QED BY <2>1
<1>2. CASE \E id \in DOMAIN job : XAdd(id) \/ XAddTwice(id)
  <2>1. PICK id \in DOMAIN job : XAdd(id) \/ XAddTwice(id)
    BY <1>2
  <2>2. UNCHANGED <<evicted, last, pel>>
    BY <2>1 DEF XAdd, XAddTwice
  <2>3. Len(log') \in Nat /\ Len(log') >= Len(log) /\ \A m \in 1..Len(log) : log'[m] = log[m]
    <3>1. CASE XAdd(id)
      BY <1>0, <3>1 DEF XAdd
    <3>2. CASE XAddTwice(id)
      <4>1. <<id, id>> \in Seq(DOMAIN job) /\ Len(<<id, id>>) = 2
        OBVIOUS
      <4> QED BY <1>0, <3>2, <4>1 DEF XAddTwice
    <3> QED BY <2>1, <3>1, <3>2
  <2> QED BY <1>0, <2>2, <2>3
<1>3. CASE \E n \in Nat : XReadGroup(Undelivered(n)) /\ group
  <2>1. PICK n \in Nat : XReadGroup(Undelivered(n))
    BY <1>3
  <2>2. PICK k \in Undelivered(n) : last' = k
    BY <2>1 DEF XReadGroup
  <2>3. UNCHANGED <<log, evicted>> /\ pel' = pel \cup Undelivered(n)
    BY <2>1 DEF XReadGroup
  <2>4. ASSUME NEW m \in 1..Len(log), last < m, m <= last' PROVE m \in Undelivered(n)
    BY <1>0, <2>2, <2>4 DEF Undelivered
  <2> QED BY <1>0, <2>2, <2>3, <2>4 DEF Undelivered
<1>4. CASE \E n \in Nat : XAutoClaim(ClaimableNow(n))
  BY <1>4 DEF XAutoClaim
<1>5. CASE \E m \in S : XAck(m)
  BY <1>5 DEF XAck
<1>6. CASE \E m \in Nat : GoesIdle(m)
  BY <1>6 DEF GoesIdle
<1>7. CASE StreamLost
  BY <1>0, <1>7 DEF StreamLost
<1> QED BY <1>1, <1>2, <1>3, <1>4, <1>5, <1>6, <1>7

(* What every step has to show to keep the invariant: rows grow, what is newly
   acknowledged is settled, and the worker that moves knows what it must. *)
SettledStep ==
    /\ RowsGrow /\ RowsTruthful'
    /\ LogGrows
    /\ \A m \in MessageIds' : Acked(m)' => m \in MessageIds /\ (Acked(m) \/ Settled(log[m]))
    /\ \A v \in Workers : worker'[v] = worker[v] \/ Knows(v)'
    /\ RequestKnows'

LEMMA SettledKept ==
    ASSUME JobTypeOK, JobTypeOK', log \in Seq(DOMAIN job), NEW id \in DOMAIN job, RowGrows(id),
           Settled(id)
    PROVE  Settled(id)'
<1>1. /\ job[id].attempts \in Nat /\ job'[id].attempts \in Nat
      /\ job[id].maxAttempts \in Nat /\ job'[id].maxAttempts \in Nat
  BY DEF RowGrows, JobTypeOK, Row, AttemptLimits
<1> QED BY <1>1 DEF Settled, RowGrows

LEMMA SettledStepKeeps ==
    ASSUME TypeInv, TypeInv', SettledInv, SettledStep
    PROVE  SettledInv'
<1>0. JobTypeOK /\ JobTypeOK' /\ log \in Seq(DOMAIN job) /\ Len(log) \in Nat
  BY DEF TypeInv, TypeOK, StreamTypeOK
<1>1. AckedOnlyWhenSettled'
  <2> SUFFICES ASSUME NEW m \in MessageIds', Acked(m)' PROVE Settled(log[m])'
    BY DEF AckedOnlyWhenSettled
  <2>1. m \in MessageIds /\ log'[m] = log[m] /\ (Acked(m) \/ Settled(log[m]))
    BY DEF SettledStep, LogGrows
  <2>2. Settled(log[m]) /\ log[m] \in DOMAIN job
    BY <1>0, <2>1 DEF SettledInv, AckedOnlyWhenSettled, MessageIds
  <2>3. RowGrows(log[m])
    BY <2>2 DEF SettledStep, RowsGrow
  <2> QED BY <1>0, <2>1, <2>2, <2>3, SettledKept DEF Settled
<1>2. ASSUME NEW v \in Workers PROVE Knows(v)'
  <2>1. CASE worker'[v] # worker[v]
    BY <2>1 DEF SettledStep
  <2>2. CASE worker'[v] = worker[v]
    <3>1. worker'[v] = worker[v] /\ Knows(v) /\ worker[v] \in WorkerStates
      BY <2>2 DEF SettledStep, SettledInv, TypeInv, TypeOK, WorkerTypeOK
    <3>2. ASSUME worker[v].pc \in HandlePoints
          PROVE  /\ JobOf(v)' = JobOf(v) /\ JobOf(v) \in DOMAIN job /\ RowGrows(JobOf(v))
      BY <3>1, <3>2, InHandType DEF SettledStep, LogGrows, RowsGrow, JobOf
    <3>3. ASSUME worker[v].pc \in Attempting
          PROVE  worker[v].attempts <= job'[JobOf(v)].attempts
      <4>1. JobOf(v) \in DOMAIN job /\ RowGrows(JobOf(v)) /\ worker[v].attempts \in Nat
        BY <3>1, <3>2, <3>3 DEF Attempting, HandlePoints, WorkerStates
      <4>2. /\ job[JobOf(v)].attempts \in Nat /\ job'[JobOf(v)].attempts \in Nat
            /\ job'[JobOf(v)].attempts >= job[JobOf(v)].attempts
        BY <1>0, <4>1 DEF RowGrows, JobTypeOK, Row
      <4> QED BY <3>1, <3>3, <4>1, <4>2 DEF Knows
    <3>4. ASSUME worker[v].pc \in AckPoints PROVE Settled(JobOf(v))'
      <4>1. JobOf(v) \in DOMAIN job /\ RowGrows(JobOf(v)) /\ JobOf(v)' = JobOf(v)
        BY <3>2, <3>4 DEF AckPoints, HandlePoints
      <4> QED BY <1>0, <3>1, <3>4, <4>1, SettledKept DEF Knows, Settled
    <3>5. ASSUME worker[v].pc \in Attempting PROVE JobOf(v)' = JobOf(v)
      BY <3>2, <3>5 DEF Attempting, HandlePoints
    <3> QED BY <3>1, <3>3, <3>4, <3>5 DEF Knows
  <2> QED BY <2>1, <2>2
<1> QED BY <1>1, <1>2 DEF SettledInv, SettledStep, RowsTruthful

LEMMA RequestSettledInv ==
    ASSUME TypeInv, TypeInv', SettledInv, NEW r \in Requests,
           RequestStep(r) \/ RequestFault(r), UNCHANGED worker
    PROVE  SettledInv'
<1>0. /\ JobTypeOK /\ StreamTypeOK(DOMAIN job) /\ NoGroupNothingDelivered /\ RequestTypeOK
      /\ RowsTruthful /\ RequestKnows
      /\ request[r] \in RequestStates /\ Body(r) \in Bodies
      /\ request[r].value \in Results \cup {Null}
      /\ request[r].pc \in BeforeInsert => r \notin DOMAIN job
      /\ request[r].pc \in AfterInsert => r \in DOMAIN job
  BY DEF TypeInv, TypeOK, ServiceTypeOK, RequestTypeOK, RequestStates, RowsOfRequests, Body,
         SettledInv, RowsTruthful
<1>1. RowsGrow /\ RowsTruthful'
  <2>1. CASE UNCHANGED job
    <3>1. \A id \in DOMAIN job : job[id].attempts \in Nat
      BY <1>0 DEF JobTypeOK, Row
    <3>2. RowsGrow
      BY <2>1, <3>1 DEF RowsGrow, RowGrows
    <3> QED BY <1>0, <2>1, <3>2 DEF RowsTruthful, NeverCancelled, StatusTellsTruth
  <2>2. CASE \/ CreateQueued(r, Body(r)) /\ r \notin DOMAIN job
             \/ /\ CreateSucceeded(r, Body(r), request[r].value) /\ r \notin DOMAIN job
                /\ request[r].value # Null
    <3> DEFINE value == request[r].value
    <3>1. r \in Requests \ DOMAIN job /\ value \in Results \cup {Null}
      BY <1>0, <2>2
    <3>2. CreateQueued(r, Body(r)) \/ (CreateSucceeded(r, Body(r), value) /\ value # Null)
      BY <2>2
    <3> HIDE DEF value
    <3> QED BY <1>0, <3>1, <3>2, CreateGrows
  <2> QED BY <1>0, <2>1, <2>2
          DEF RequestStep, RequestFault, AssertQueueReady, FindExisting, GetCached, InsertCached,
              InsertQueued, UniqueViolation, EnsureConsumerGroup, Enqueue, RequestFails,
              RequestReplyLost, BeforeInsert, RequestKnows
<1>2. LogGrows /\ NewlyAcked({})
  <2>1. \/ XGroupCreate \/ UNCHANGED streamVars
        \/ \E id \in DOMAIN job : XAdd(id) \/ XAddTwice(id)
    BY <1>0 DEF RequestStep, RequestFault, AssertQueueReady, FindExisting, GetCached, InsertCached,
              InsertQueued, UniqueViolation, EnsureConsumerGroup, Enqueue, RequestFails,
              RequestReplyLost, AfterInsert
  <2> QED BY <1>0, <2>1, AcksOfStream
<1>3. RequestKnows'
  <2>1. CASE GetCached(r)
    <3> DEFINE value == CacheGet(Body(r).type, Body(r).payload)
               t == [request[r] EXCEPT !.pc = IF value # Null THEN "cached" ELSE "insert",
                                       !.value = value]
    <3>1. request' = [request EXCEPT ![r] = t]
      BY <2>1 DEF GetCached
    <3>2. t.value = value /\ t.pc = IF value # Null THEN "cached" ELSE "insert"
      BY <1>0 DEF RequestStates
    <3> HIDE DEF value, t
    <3> QED BY <1>0, <3>1, <3>2 DEF RequestKnows, RequestTypeOK
  <2>2. CASE \E pc \in {"unavailable", "lookup", "cacheGet", "insert", "group", "add", "failed"} :
               Move(r, pc)
    <3>1. PICK pc \in {"unavailable", "lookup", "cacheGet", "insert", "group", "add", "failed"} :
               Move(r, pc)
      BY <2>2
    <3>2. [request[r] EXCEPT !.pc = pc].pc = pc
      BY <1>0 DEF RequestStates
    <3> QED BY <1>0, <3>1, <3>2 DEF RequestKnows, RequestTypeOK, Move
  <2>3. CASE \E id \in Requests : Accept(r, id)
    <3>1. PICK id \in Requests : Accept(r, id)
      BY <2>3
    <3>2. [request[r] EXCEPT !.pc = "accepted", !.job = id].pc = "accepted"
      BY <1>0 DEF RequestStates
    <3> QED BY <1>0, <3>1, <3>2 DEF RequestKnows, RequestTypeOK, Accept
  <2> QED BY <1>0, <2>1, <2>2, <2>3
          DEF RequestStep, RequestFault, AssertQueueReady, FindExisting, InsertCached,
              InsertQueued, UniqueViolation, EnsureConsumerGroup, Enqueue, RequestFails,
              RequestReplyLost, JobTypeOK
<1> QED BY <1>1, <1>2, <1>3, SettledStepKeeps DEF SettledStep, NewlyAcked

(* Where the moves of a worker leave it, and that they leave the others. *)
OthersStay(w) == \A v \in Workers \ {w} : worker'[v] = worker[v]

LEMMA GotoFacts ==
    ASSUME WorkerTypeOK, NEW w \in Workers, NEW pc, Goto(w, pc)
    PROVE  /\ OthersStay(w) /\ worker'[w].pc = pc
           /\ worker'[w].msg = worker[w].msg /\ worker'[w].attempts = worker[w].attempts
           /\ worker'[w].rest = worker[w].rest
<1>1. worker[w] \in WorkerStates
  BY DEF WorkerTypeOK
<1> DEFINE t == [worker[w] EXCEPT !.pc = pc]
<1>2. worker' = [worker EXCEPT ![w] = t]
  BY DEF Goto
<1>3. /\ t.pc = pc /\ t.msg = worker[w].msg /\ t.attempts = worker[w].attempts
      /\ t.rest = worker[w].rest
  BY <1>1 DEF WorkerStates
<1> HIDE DEF t
<1> QED BY <1>2, <1>3 DEF WorkerTypeOK, OthersStay

LEMMA TakeFacts ==
    ASSUME WorkerTypeOK, NEW w \in Workers, NEW batch, Take(w, batch)
    PROVE  /\ OthersStay(w) /\ worker'[w].pc = "claim"
           /\ worker'[w].rest \cup {worker'[w].msg} = batch
<1>1. worker[w] \in WorkerStates
  BY DEF WorkerTypeOK
<1>2. PICK m \in batch :
        worker' = [worker EXCEPT ![w].pc = "claim", ![w].msg = m,
                                 ![w].rest = batch \ {m}, ![w].attempts = 0]
  BY DEF Take
<1> DEFINE t == [worker[w] EXCEPT !.pc = "claim", !.msg = m, !.rest = batch \ {m}, !.attempts = 0]
<1>3. worker' = [worker EXCEPT ![w] = t]
  BY <1>2
<1>4. t.pc = "claim" /\ t.msg = m /\ t.rest = batch \ {m}
  BY <1>1 DEF WorkerStates
<1> HIDE DEF t
<1> QED BY <1>3, <1>4 DEF WorkerTypeOK, OthersStay

LEMMA LoopAgainFacts ==
    ASSUME WorkerTypeOK, NEW w \in Workers, LoopAgain(w)
    PROVE  /\ OthersStay(w) /\ worker'[w].pc \in {"reclaim", "stopped"}
           /\ worker'[w].rest = worker[w].rest
<1>1. worker[w] \in WorkerStates
  BY DEF WorkerTypeOK
<1> DEFINE pc == IF worker[w].running THEN "reclaim" ELSE "stopped"
           t == [worker[w] EXCEPT !.pc = pc, !.msg = NoMessage, !.attempts = 0]
<1>2. worker' = [worker EXCEPT ![w] = t]
  BY DEF LoopAgain
<1>3. pc \in {"reclaim", "stopped"}
  OBVIOUS
<1> HIDE DEF pc
<1>4. t.pc = pc /\ t.rest = worker[w].rest
  BY <1>1 DEF WorkerStates
<1> HIDE DEF t
<1> QED BY <1>2, <1>3, <1>4 DEF WorkerTypeOK, OthersStay

LEMMA EndsFacts ==
    ASSUME WorkerTypeOK, NEW w \in Workers, NEW pc, Ends(w, pc)
    PROVE  OthersStay(w) /\ worker'[w].pc = pc /\ worker'[w].rest = {}
BY DEF Ends, At, WorkerTypeOK, OthersStay

(* A move to a point where nothing need be known. *)
LEMMA MovesOn ==
    ASSUME WorkerTypeOK, NEW w \in Workers,
           \/ LoopAgain(w) \/ NextMessage(w)
           \/ \E batch : Take(w, batch)
           \/ \E pc \in LoopPoints \cup EndPoints : Goto(w, pc) \/ Ends(w, pc)
    PROVE  OthersStay(w) /\ Knows(w)'
<1>1. OthersStay(w) /\ worker'[w].pc \in LoopPoints \cup EndPoints \cup {"claim"}
  BY GotoFacts, TakeFacts, LoopAgainFacts, EndsFacts DEF NextMessage, LoopPoints, EndPoints
<1> QED BY <1>1 DEF Knows, LoopPoints, EndPoints, Attempting, AckPoints

LEMMA UnchangedRows ==
    ASSUME JobTypeOK, RowsTruthful, UNCHANGED job
    PROVE  RowsGrow /\ RowsTruthful'
<1>1. \A id \in DOMAIN job : job[id].attempts \in Nat
  BY DEF JobTypeOK, Row
<1>2. RowsGrow
  BY <1>1 DEF RowsGrow, RowGrows
<1> QED BY <1>2 DEF RowsTruthful, NeverCancelled, StatusTellsTruth

(* A step of worker w, with the messages S it acknowledges. *)
LEMMA WorkerSettledStep ==
    ASSUME TypeInv, TypeInv', SettledInv, UNCHANGED serviceVars,
           NEW w \in Workers, OthersStay(w), Knows(w)',
           RowsGrow, RowsTruthful', LogGrows,
           NEW S, NewlyAcked(S), \A m \in S : Settled(log[m])
    PROVE  SettledInv'
<1>1. RequestKnows'
  BY DEF SettledInv, RequestKnows, serviceVars
<1>2. SettledStep
  BY <1>1 DEF SettledStep, OthersStay, NewlyAcked
<1> QED BY <1>2, SettledStepKeeps

(* The outcome an attempt may record: failing for good takes the attempts the
   row has counted. *)
LEMMA TerminalMeansSpent ==
    ASSUME TypeInv, SettledInv, NEW w \in Workers, worker[w].pc \in Attempting, Terminal(w)
    PROVE  job[JobOf(w)].attempts >= job[JobOf(w)].maxAttempts
<1>1. JobOf(w) \in DOMAIN job /\ worker[w].attempts \in Nat
  BY InHandType DEF Attempting, HandlePoints, WorkerStates
<1>2. job[JobOf(w)].attempts \in Nat /\ job[JobOf(w)].maxAttempts \in Nat
  BY <1>1 DEF TypeInv, TypeOK, JobTypeOK, Row, AttemptLimits
<1>3. worker[w].attempts <= job[JobOf(w)].attempts
  BY DEF SettledInv, Knows
<1> QED BY <1>1, <1>2, <1>3 DEF Terminal

LEMMA WorkerSettledInv ==
    ASSUME TypeInv, TypeInv', SettledInv, NEW w \in Workers, WorkerStep(w), UNCHANGED serviceVars
    PROVE  SettledInv'
<1>0. /\ JobTypeOK /\ JobTypeOK' /\ StreamTypeOK(DOMAIN job) /\ NoGroupNothingDelivered
      /\ WorkerTypeOK /\ RowsTruthful /\ Knows(w)
      /\ UNCHANGED job => RowsGrow /\ RowsTruthful'
      /\ UNCHANGED streamVars => LogGrows /\ NewlyAcked({})
      /\ worker[w].pc \in HandlePoints => JobOf(w) \in DOMAIN job
  BY AcksOfStream, UnchangedRows, InHandType
     DEF TypeInv, TypeOK, SettledInv, RowsTruthful
<1>a. ASSUME worker[w].pc \in AckPoints, XAck(worker[w].msg), NextMessage(w), UNCHANGED job
      PROVE  SettledInv'
  <2>1. LogGrows /\ NewlyAcked({worker[w].msg})
    BY <1>0, <1>a, AcksOfStream
  <2>2. Settled(log[worker[w].msg])
    BY <1>0, <1>a DEF Knows, JobOf
  <2> QED BY <1>0, <1>a, <2>1, <2>2, MovesOn, WorkerSettledStep
<1>1. CASE EnsureGroup(w)
  <2>1. LogGrows /\ NewlyAcked({})
    BY <1>0, <1>1, AcksOfStream DEF EnsureGroup
  <2> QED BY <1>0, <1>1, <2>1, MovesOn, WorkerSettledStep DEF EnsureGroup
<1>2. CASE Reclaim(w)
  <2>1. LogGrows /\ NewlyAcked({})
    BY <1>0, <1>2, AcksOfStream, WorkerAssumption DEF Reclaim
  <2>2. OthersStay(w) /\ Knows(w)'
    BY <1>0, <1>2, MovesOn DEF Reclaim, LoopPoints
  <2> QED BY <1>0, <1>2, <2>1, <2>2, WorkerSettledStep DEF Reclaim
<1>3. CASE Read(w)
  <2>1. LogGrows /\ NewlyAcked({})
    BY <1>0, <1>3, AcksOfStream, WorkerAssumption DEF Read
  <2>2. OthersStay(w) /\ Knows(w)'
    BY <1>0, <1>3, MovesOn DEF Read, EndPoints
  <2> QED BY <1>0, <1>3, <2>1, <2>2, WorkerSettledStep DEF Read
<1>4. CASE Claim(w)
  <2>0. JobOf(w) \in DOMAIN job /\ job[JobOf(w)] \in Row /\ worker[w] \in WorkerStates
    BY <1>0, <1>4 DEF Claim, HandlePoints, JobTypeOK, WorkerTypeOK
  <2>1. CASE /\ MarkRunning(JobOf(w))
             /\ worker' = [worker EXCEPT ![w].pc = "process",
                                         ![w].attempts = job[JobOf(w)].attempts + 1]
    <3>1. RowsGrow /\ RowsTruthful'
      BY <1>0, <2>0, <2>1, MarkGrows
    <3> DEFINE n == job[JobOf(w)].attempts + 1
               t == [worker[w] EXCEPT !.pc = "process", !.attempts = n]
    <3>2. worker' = [worker EXCEPT ![w] = t]
      BY <2>1
    <3>3. t.pc = "process" /\ t.msg = worker[w].msg /\ t.attempts = n
      BY <2>0 DEF WorkerStates
    <3>4. job'[JobOf(w)].attempts = n /\ n \in Nat
      BY <1>0, <2>0, <2>1 DEF MarkRunning, JobTypeOK, Row
    <3> HIDE DEF t, n
    <3>5. worker'[w] = t /\ OthersStay(w)
      BY <1>0, <3>2 DEF WorkerTypeOK, OthersStay
    <3>6. JobOf(w)' = JobOf(w)
      BY <1>4, <3>3, <3>5 DEF JobOf, Claim, streamVars
    <3>7. Knows(w)'
      BY <3>3, <3>4, <3>5, <3>6 DEF Knows, AckPoints
    <3> QED BY <1>0, <1>4, <3>1, <3>5, <3>7, WorkerSettledStep DEF Claim
  <2>2. CASE ~Claimable(JobOf(w)) /\ Goto(w, "ackSkip") /\ UNCHANGED job
    <3>1. job[JobOf(w)].status = "SUCCEEDED"
      BY <1>0, <2>0, <2>2 DEF Claimable, Row, AiJobStatuses, RowsTruthful, NeverCancelled
    <3>2. Settled(JobOf(w))
      BY <1>0, <2>0, <3>1 DEF RowsTruthful, StatusTellsTruth, Settled
    <3>3. OthersStay(w) /\ worker'[w].pc = "ackSkip" /\ worker'[w].msg = worker[w].msg
      BY <1>0, <2>2, GotoFacts
    <3>4. JobOf(w)' = JobOf(w) /\ UNCHANGED job
      BY <1>4, <2>2, <3>3 DEF JobOf, Claim, streamVars
    <3>5. Knows(w)'
      BY <3>2, <3>3, <3>4 DEF Knows, Attempting, Settled
    <3> QED BY <1>0, <1>4, <2>2, <3>3, <3>5, WorkerSettledStep DEF Claim
  <2> QED BY <1>4, <2>1, <2>2 DEF Claim
<1>5. CASE AckSkip(w)
  BY <1>5, <1>a DEF AckSkip, AckPoints
<1>6. CASE Process(w)
  <2>1. PICK pc \in {"fail", "succeed"} : Goto(w, pc)
    BY <1>6 DEF Process
  <2>2. /\ OthersStay(w) /\ worker'[w].pc = pc /\ worker'[w].msg = worker[w].msg
        /\ worker'[w].attempts = worker[w].attempts
    BY <1>0, <2>1, GotoFacts
  <2>3. Knows(w)'
    BY <1>0, <1>6, <2>2 DEF Process, Knows, Attempting, AckPoints, JobOf, streamVars
  <2> QED BY <1>0, <1>6, <2>2, <2>3, WorkerSettledStep DEF Process
<1>7. CASE Succeed(w)
  <2>0. JobOf(w) \in DOMAIN job /\ job[JobOf(w)] \in Row /\ worker[w].pc \in Attempting
    BY <1>0, <1>7 DEF Succeed, HandlePoints, JobTypeOK, Attempting
  <2>1. RowsGrow /\ RowsTruthful'
    BY <1>0, <1>7, <2>0, MarkGrows DEF Succeed
  <2>2. /\ OthersStay(w) /\ worker'[w].pc = "ack" /\ worker'[w].msg = worker[w].msg
        /\ worker'[w].attempts = worker[w].attempts
    BY <1>0, <1>7, GotoFacts DEF Succeed
  <2>3. /\ JobOf(w)' = JobOf(w) /\ job'[JobOf(w)].attempts = job[JobOf(w)].attempts
        /\ job'[JobOf(w)].status = "SUCCEEDED"
    BY <1>0, <1>7, <2>0, <2>2 DEF JobOf, Succeed, streamVars, MarkSucceeded, JobTypeOK, Row
  <2>4. job'[JobOf(w)].result # Null
    BY <1>0, <2>0, <2>1, <2>3 DEF RowsTruthful, StatusTellsTruth, RowsGrow, RowGrows
  <2>5. Knows(w)'
    BY <1>0, <2>0, <2>2, <2>3, <2>4 DEF Knows, Settled
  <2> QED BY <1>0, <1>7, <2>1, <2>2, <2>5, WorkerSettledStep DEF Succeed
<1>8. CASE Ack(w)
  BY <1>8, <1>a DEF Ack, AckPoints
<1>9. CASE Fail(w)
  <2>0. /\ JobOf(w) \in DOMAIN job /\ job[JobOf(w)] \in Row /\ Terminal(w) \in BOOLEAN
        /\ worker[w].pc \in Attempting
    BY <1>0, <1>9 DEF Fail, HandlePoints, JobTypeOK, Attempting, Terminal
  <2>1. Terminal(w) => job[JobOf(w)].attempts >= job[JobOf(w)].maxAttempts
    BY <2>0, TerminalMeansSpent
  <2>2. RowsGrow /\ RowsTruthful'
    <3> DEFINE id == JobOf(w)
               terminal == Terminal(w)
    <3>1. id \in DOMAIN job /\ terminal \in BOOLEAN /\ MarkFailed(id, terminal)
          /\ (terminal => job[id].attempts >= job[id].maxAttempts)
      BY <1>9, <2>0, <2>1 DEF Fail
    <3> HIDE DEF id, terminal
    <3> QED BY <1>0, <3>1, MarkGrows
  <2>3. CASE Terminal(w) /\ Goto(w, "ackFailed")
    <3>1. OthersStay(w) /\ worker'[w].pc = "ackFailed" /\ worker'[w].msg = worker[w].msg
      BY <1>0, <2>3, GotoFacts
    <3>2. JobOf(w)' = JobOf(w)
      BY <1>9, <3>1 DEF JobOf, Fail, streamVars
    <3>3. Settled(JobOf(w)) /\ RowGrows(JobOf(w))
      BY <2>0, <2>1, <2>2, <2>3 DEF Settled, RowsGrow
    <3>4. Settled(JobOf(w))'
      BY <1>0, <2>0, <3>2, <3>3, SettledKept DEF StreamTypeOK, Settled
    <3>5. Knows(w)'
      BY <3>1, <3>4 DEF Knows, Attempting
    <3> QED BY <1>0, <1>9, <2>2, <3>1, <3>5, WorkerSettledStep DEF Fail
  <2>4. CASE NextMessage(w)
    BY <1>0, <1>9, <2>2, <2>4, MovesOn, WorkerSettledStep DEF Fail
  <2> QED BY <1>9, <2>3, <2>4 DEF Fail
<1>10. CASE AckFailed(w)
  BY <1>10, <1>a DEF AckFailed, AckPoints
<1> QED BY <1>1, <1>2, <1>3, <1>4, <1>5, <1>6, <1>7, <1>8, <1>9, <1>10 DEF WorkerStep

(* A call that raises inside the try leads to the except clause: an attempt
   still, with the count it was claimed with. *)
LEMMA RaiseKnows ==
    ASSUME TypeInv, NEW w \in Workers, Raise(w), RowsGrow, JobTypeOK', LogGrows, SettledInv,
           worker[w].pc = "succeed" => worker[w].attempts <= job[JobOf(w)].attempts,
           worker[w].pc = "ack" => worker[w].attempts <= job[JobOf(w)].attempts
    PROVE  OthersStay(w) /\ Knows(w)'
<1>0. WorkerTypeOK
  BY DEF TypeInv, TypeOK
<1>1. CASE Ends(w, "dead")
  BY <1>0, <1>1, MovesOn DEF EndPoints
<1>2. CASE Goto(w, "fail") /\ worker[w].pc \in {"succeed", "ack"}
  <2>1. /\ OthersStay(w) /\ worker'[w].pc = "fail" /\ worker'[w].msg = worker[w].msg
        /\ worker'[w].attempts = worker[w].attempts
    BY <1>0, <1>2, GotoFacts
  <2>2. /\ worker[w].msg \in MessageIds /\ JobOf(w) \in DOMAIN job
        /\ worker[w].attempts \in Nat
    BY <1>2, InHandType DEF HandlePoints, WorkerStates
  <2>3. JobOf(w)' = JobOf(w)
    BY <2>1, <2>2 DEF JobOf, LogGrows
  <2>4. /\ job[JobOf(w)].attempts \in Nat /\ job'[JobOf(w)].attempts \in Nat
        /\ job'[JobOf(w)].attempts >= job[JobOf(w)].attempts
    BY <2>2 DEF TypeInv, TypeOK, JobTypeOK, Row, RowsGrow, RowGrows
  <2> QED BY <1>2, <2>1, <2>2, <2>3, <2>4 DEF Knows, AckPoints
<1> QED BY <1>1, <1>2 DEF Raise

LEMMA FaultSettledInv ==
    ASSUME TypeInv, TypeInv', SettledInv, NEW w \in Workers,
           WorkerFault(w) \/ Restart(w) \/ Ready(w), UNCHANGED serviceVars
    PROVE  SettledInv'
<1>0. /\ JobTypeOK /\ JobTypeOK' /\ StreamTypeOK(DOMAIN job) /\ NoGroupNothingDelivered
      /\ WorkerTypeOK /\ RowsTruthful /\ Knows(w)
      /\ UNCHANGED job => RowsGrow /\ RowsTruthful'
      /\ UNCHANGED streamVars => LogGrows /\ NewlyAcked({})
  BY AcksOfStream, UnchangedRows DEF TypeInv, TypeOK, SettledInv, RowsTruthful
<1>a. worker[w].pc \in {"succeed", "ack"} => worker[w].attempts <= job[JobOf(w)].attempts
  BY <1>0 DEF Knows, Attempting
<1>1. CASE CallFails(w)
  <2>1. OthersStay(w) /\ Knows(w)'
    BY <1>0, <1>a, <1>1, RaiseKnows DEF CallFails
  <2> QED BY <1>0, <1>1, <2>1, WorkerSettledStep DEF CallFails
<1>2. CASE RedisReplyLost(w)
  <2> DEFINE S == {m \in {worker[w].msg} : worker[w].pc \in AckPoints}
  <2>1. LogGrows /\ NewlyAcked(S)
    BY <1>0, <1>2, AcksOfStream, WorkerAssumption DEF RedisReplyLost, AckPoints
  <2>2. \A m \in S : Settled(log[m])
    BY <1>0 DEF Knows, JobOf
  <2>3. OthersStay(w) /\ Knows(w)'
    BY <1>0, <1>a, <1>2, <2>1, RaiseKnows DEF RedisReplyLost
  <2> HIDE DEF S
  <2> QED BY <1>0, <1>2, <2>1, <2>2, <2>3, WorkerSettledStep DEF RedisReplyLost
<1>3. CASE DbReplyLost(w)
  <2>0. JobOf(w) \in DOMAIN job
    BY <1>3, InHandType DEF DbReplyLost, HandlePoints
  <2>1. ASSUME MarkRunning(JobOf(w)) \/ MarkSucceeded(JobOf(w))
        PROVE  RowsGrow /\ RowsTruthful'
    BY <1>0, <2>0, <2>1, MarkGrows
  <2>2. ASSUME worker[w].pc = "fail", MarkFailed(JobOf(w), Terminal(w))
        PROVE  RowsGrow /\ RowsTruthful'
    <3> DEFINE id == JobOf(w)
               terminal == Terminal(w)
    <3>1. /\ id \in DOMAIN job /\ terminal \in BOOLEAN /\ MarkFailed(id, terminal)
          /\ terminal => job[id].attempts >= job[id].maxAttempts
      BY <2>0, <2>2, TerminalMeansSpent DEF Attempting, Terminal
    <3> HIDE DEF id, terminal
    <3> QED BY <1>0, <3>1, MarkGrows
  <2>4. RowsGrow /\ RowsTruthful'
    BY <1>3, <2>1, <2>2 DEF DbReplyLost
  <2>5. OthersStay(w) /\ Knows(w)'
    BY <1>0, <1>a, <1>3, <2>4, RaiseKnows DEF DbReplyLost
  <2> QED BY <1>0, <1>3, <2>4, <2>5, WorkerSettledStep DEF DbReplyLost
<1>4. CASE Crash(w)
  BY <1>0, <1>4, MovesOn, WorkerSettledStep DEF Crash, EndPoints
<1>5. CASE Stop(w)
  <2> DEFINE t == [worker[w] EXCEPT !.running = FALSE]
  <2>1. worker' = [worker EXCEPT ![w] = t]
    BY <1>5 DEF Stop
  <2>2. t.pc = worker[w].pc /\ t.msg = worker[w].msg /\ t.attempts = worker[w].attempts
    BY <1>0 DEF WorkerTypeOK, WorkerStates
  <2> HIDE DEF t
  <2>3. OthersStay(w) /\ worker'[w] = t
    BY <1>0, <2>1 DEF OthersStay, WorkerTypeOK
  <2>4. UNCHANGED <<job, log>>
    BY <1>5 DEF Stop, streamVars
  <2>5. Knows(w)'
    BY <1>0, <2>2, <2>3, <2>4 DEF Knows, JobOf, Settled
  <2> QED BY <1>0, <1>5, <2>3, <2>5, WorkerSettledStep DEF Stop
<1>6. CASE Restart(w)
  BY <1>0, <1>6, MovesOn, WorkerSettledStep DEF Restart, LoopPoints
<1>7. CASE Ready(w)
  <2>1. LogGrows /\ NewlyAcked({})
    BY <1>0, <1>7, AcksOfStream DEF Ready
  <2>2. OthersStay(w) /\ UNCHANGED <<job, log, worker>>
    BY <1>7 DEF Ready, OthersStay, XGroupCreate, streamVars
  <2>3. Knows(w)'
    BY <1>0, <2>2 DEF Knows, JobOf, Settled
  <2> QED BY <1>0, <1>7, <2>1, <2>2, <2>3, WorkerSettledStep DEF Ready
<1> QED BY <1>1, <1>2, <1>3, <1>4, <1>5, <1>6, <1>7 DEF WorkerFault

(* Steps that change neither rows nor workers nor requests. *)
LEMMA OtherSettledInv ==
    ASSUME TypeInv, TypeInv', SettledInv,
           \/ /\ UNCHANGED worker
              /\ (\E u \in Users : PollStep(u)) \/ (\E k \in CacheKeys : ExpireCache(k))
           \/ /\ UNCHANGED serviceVars
              /\ (\E m \in MessageIds : ClaimIdlePasses(m)) \/ EvictStream
    PROVE  SettledInv'
<1>0. JobTypeOK /\ StreamTypeOK(DOMAIN job) /\ NoGroupNothingDelivered /\ RowsTruthful
  BY DEF TypeInv, TypeOK, SettledInv, RowsTruthful
<1>1. UNCHANGED <<job, worker, request>>
  BY DEF PollStep, GetJob, CacheJobResult, NothingCached, ExpireCache, ClaimIdlePasses,
         EvictStream, serviceVars
<1>2. UNCHANGED streamVars \/ (\E m \in Nat : GoesIdle(m)) \/ StreamLost
  BY DEF PollStep, GetJob, CacheJobResult, NothingCached, ExpireCache, ClaimIdlePasses,
         EvictStream, MessageIds
<1>3. LogGrows /\ NewlyAcked({})
  BY <1>0, <1>2, AcksOfStream
<1>4. RowsGrow /\ RowsTruthful'
  BY <1>0, <1>1, UnchangedRows
<1>5. RequestKnows'
  BY <1>1 DEF SettledInv, RequestKnows
<1> QED BY <1>1, <1>3, <1>4, <1>5, SettledStepKeeps DEF SettledStep, NewlyAcked

LEMMA InitSettledInv == Init => SettledInv
<1> SUFFICES ASSUME Init PROVE SettledInv
  OBVIOUS
<1>1. DOMAIN job = {} /\ last = 0 /\ evicted = 0 /\ Len(log) = 0
  BY DEF Init, JobInit, StreamInit
<1>2. AckedOnlyWhenSettled
  BY <1>1 DEF AckedOnlyWhenSettled, MessageIds
<1>3. StatusTellsTruth /\ NeverCancelled
  BY <1>1 DEF StatusTellsTruth, NeverCancelled
<1>4. \A w \in Workers : Knows(w)
  BY DEF Init, WorkerInit, At, Knows, Attempting, AckPoints
<1>5. RequestKnows
  BY DEF Init, ServiceInit, RequestKnows
<1> QED BY <1>2, <1>3, <1>4, <1>5 DEF SettledInv

LEMMA NextSettledInv == TypeInv /\ TypeInv' /\ SettledInv /\ [Next]_vars => SettledInv'
<1> SUFFICES ASSUME TypeInv, TypeInv', SettledInv, [Next]_vars PROVE SettledInv'
  OBVIOUS
<1>1. CASE UNCHANGED vars
  BY <1>1 DEF vars, serviceVars, streamVars, SettledInv, AckedOnlyWhenSettled, StatusTellsTruth,
              NeverCancelled, Knows, RequestKnows, MessageIds, Acked, Settled, JobOf
<1>2. CASE Next
  BY <1>2, RequestSettledInv, OtherSettledInv, WorkerSettledInv, FaultSettledInv DEF Next
<1> QED BY <1>1, <1>2

(* Whatever fails, the group never forgets a message whose job has neither a
   result nor used up its attempts. *)
THEOREM NeverAckedEarly == Spec => []AckedOnlyWhenSettled
<1>1. SettledInv => AckedOnlyWhenSettled
  BY DEF SettledInv
<1> QED BY <1>1, InitTypeInv, NextTypeInv, InitSettledInv, NextSettledInv, PTL DEF Spec

(* Whatever fails, a status means what the API's documents say it means. *)
THEOREM StatusIsTruthful == Spec => []StatusTellsTruth
<1>1. SettledInv => StatusTellsTruth
  BY DEF SettledInv
<1> QED BY <1>1, InitTypeInv, NextTypeInv, InitSettledInv, NextSettledInv, PTL DEF Spec
=============================================================================
