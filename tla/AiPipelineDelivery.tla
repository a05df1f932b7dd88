------------------------- MODULE AiPipelineDelivery --------------------------
(***************************************************************************)
(* Who has a message in hand, why a job that is not finished is still owed  *)
(* a worker, and how many attempts the faults so far can have cost.         *)
(***************************************************************************)
EXTENDS AiPipelineResults, FiniteSetTheorems

(* A message in hand is nobody else's, it is in hand once, and XAUTOCLAIM does
   not offer it. *)
Once(w) == worker[w].pc \in HandlePoints => worker[w].msg \notin worker[w].rest

HoldInv == OneHolder /\ \A w \in Workers : Held(w) \cap idle = {} /\ Once(w)

(* What a worker has in hand after a step: no more than before, or what it has
   just taken over, or what the group had not delivered. *)
Takes(w) ==
    \/ Held(w)' \subseteq Held(w)
    \/ Held(w)' \subseteq idle /\ Held(w)' \cap idle' = {}
    \/ \A m \in Held(w)' : m \notin 1..last

-----------------------------------------------------------------------------
(* Held messages of the moves of a worker. *)
LEMMA GotoHolds ==
    ASSUME WorkerTypeOK, NEW w \in Workers, NEW pc, Goto(w, pc),
           pc \in HandlePoints => worker[w].pc \in HandlePoints
    PROVE  Held(w)' \subseteq Held(w) /\ (Once(w) => Once(w)')
BY GotoFacts DEF Held, Once

LEMMA TakeHolds ==
    ASSUME WorkerTypeOK, NEW w \in Workers, NEW batch, Take(w, batch)
    PROVE  Held(w)' = batch /\ Once(w)'
<1>1. worker[w] \in WorkerStates
  BY DEF WorkerTypeOK
<1>2. PICK m \in batch :
        worker' = [worker EXCEPT ![w].pc = "claim", ![w].msg = m,
                                 ![w].rest = batch \ {m}, ![w].attempts = 0]
  BY DEF Take
<1> DEFINE t == [worker[w] EXCEPT !.pc = "claim", !.msg = m, !.rest = batch \ {m}, !.attempts = 0]
<1>3. worker' = [worker EXCEPT ![w] = t]
  BY <1>2
<1>4. t.pc = "claim" /\ t.msg = m /\ t.rest = batch \ {m}
  BY <1>1 DEF WorkerStates
<1> HIDE DEF t
<1>5. worker'[w] = t
  BY <1>3 DEF WorkerTypeOK
<1> QED BY <1>4, <1>5 DEF Held, Once, HandlePoints

LEMMA NextHolds ==
    ASSUME WorkerTypeOK, NEW w \in Workers, LoopAgain(w) \/ NextMessage(w)
    PROVE  Held(w)' = worker[w].rest /\ Once(w)'
<1>1. ASSUME LoopAgain(w) PROVE Held(w)' = worker[w].rest /\ Once(w)'
  BY <1>1, LoopAgainFacts DEF Held, Once, HandlePoints
<1> QED BY <1>1, TakeHolds DEF NextMessage

LEMMA EndsHolds ==
    ASSUME WorkerTypeOK, NEW w \in Workers, NEW pc \in LoopPoints \cup EndPoints, Ends(w, pc)
    PROVE  Held(w)' = {} /\ Once(w)'
<1>1. worker'[w].pc \notin HandlePoints /\ worker'[w].rest = {}
  BY EndsFacts DEF HandlePoints, LoopPoints, EndPoints
<1> QED BY <1>1 DEF Held, Once

LEMMA RaiseHolds ==
    ASSUME WorkerTypeOK, NEW w \in Workers, Raise(w)
    PROVE  OthersStay(w) /\ Held(w)' \subseteq Held(w) /\ (Once(w) => Once(w)')
<1>1. CASE worker[w].pc \in {"succeed", "ack"} /\ Goto(w, "fail")
  BY <1>1, GotoFacts, GotoHolds DEF HandlePoints
<1>2. CASE Ends(w, "dead")
  <2>1. PICK pc \in LoopPoints \cup EndPoints : pc = "dead"
    BY DEF EndPoints
  <2> QED BY <1>2, <2>1, EndsFacts, EndsHolds
<1> QED BY <1>1, <1>2 DEF Raise

(* The steps of a worker take nothing that another one has. *)
LEMMA WorkerHolds ==
    ASSUME TypeInv, NEW w \in Workers,
           WorkerStep(w) \/ WorkerFault(w) \/ Restart(w) \/ Ready(w)
    PROVE  OthersStay(w) /\ idle' \subseteq idle /\ Takes(w) /\ (Once(w) => Once(w)')
<1> DEFINE Kept == OthersStay(w) /\ Takes(w) /\ (Once(w) => Once(w)')
<1>0. /\ WorkerTypeOK /\ worker[w] \in WorkerStates
      /\ UNCHANGED streamVars => idle' \subseteq idle
      /\ XGroupCreate => idle' \subseteq idle
      /\ \A m : XAck(m) => idle' \subseteq idle
      /\ \A got : XReadGroup(got) => idle' = idle
      /\ \A got : XAutoClaim(got) => idle' = idle \ got
  BY DEF TypeInv, TypeOK, WorkerTypeOK, streamVars, XGroupCreate, XAck, XReadGroup, XAutoClaim
<1>a. LoopAgain(w) \/ NextMessage(w) => Kept
  BY <1>0, MovesOn, NextHolds DEF Takes, Held, Once
<1>b. ASSUME NEW pc \in LoopPoints \cup EndPoints, Ends(w, pc)
      PROVE  Kept
  BY <1>0, <1>b, EndsFacts, EndsHolds DEF Takes
<1>c. ASSUME NEW pc, Goto(w, pc), pc \in HandlePoints => worker[w].pc \in HandlePoints
      PROVE  Kept
  BY <1>0, <1>c, GotoFacts, GotoHolds DEF Takes
<1>d. Raise(w) => Kept
  BY <1>0, RaiseHolds DEF Takes
<1>e. ASSUME NEW s, worker' = [worker EXCEPT ![w] = s], s.rest = worker[w].rest,
             s.msg = worker[w].msg, s.pc \in HandlePoints => worker[w].pc \in HandlePoints
      PROVE  Kept
  <2>1. worker'[w] = s /\ OthersStay(w)
    BY <1>0, <1>e DEF WorkerTypeOK, OthersStay
  <2> QED BY <1>e, <2>1 DEF Takes, Held, Once
<1>1. CASE EnsureGroup(w)
  BY <1>0, <1>1, <1>a DEF EnsureGroup
<1>2. CASE Reclaim(w)
  <2>1. CASE /\ XAutoClaim(ClaimableNow(WorkerConcurrency))
             /\ Take(w, ClaimableNow(WorkerConcurrency))
    <3> DEFINE got == ClaimableNow(WorkerConcurrency)
    <3>1. got \subseteq idle /\ idle' = idle \ got
      BY <1>0, <2>1 DEF ClaimableNow
    <3>2. Held(w)' = got /\ OthersStay(w) /\ Once(w)'
      BY <1>0, <2>1, TakeFacts, TakeHolds
    <3> HIDE DEF got
    <3> QED BY <3>1, <3>2 DEF Takes
  <2>2. CASE Goto(w, "read") /\ UNCHANGED streamVars
    BY <1>0, <1>c, <2>2 DEF HandlePoints
  <2> QED BY <1>2, <2>1, <2>2 DEF Reclaim
<1>3. CASE Read(w)
  <2>1. CASE /\ XReadGroup(Undelivered(WorkerConcurrency))
             /\ Take(w, Undelivered(WorkerConcurrency))
    <3> DEFINE got == Undelivered(WorkerConcurrency)
    <3>1. Held(w)' = got /\ OthersStay(w) /\ Once(w)' /\ idle' = idle
      BY <1>0, <2>1, TakeFacts, TakeHolds
    <3>2. \A m \in got : m \notin 1..last
      BY DEF Undelivered, MessageIds, TypeInv, TypeOK, StreamTypeOK
    <3> HIDE DEF got
    <3> QED BY <3>1, <3>2 DEF Takes
  <2>2. CASE LoopAgain(w) /\ UNCHANGED streamVars
    BY <1>0, <1>a, <2>2
  <2>3. CASE Ends(w, "dead") /\ UNCHANGED streamVars
    BY <1>0, <1>b, <2>3 DEF EndPoints
  <2> QED BY <1>3, <2>1, <2>2, <2>3 DEF Read
<1>4. CASE Claim(w)
  <2>1. idle' \subseteq idle /\ worker[w].pc \in HandlePoints
    BY <1>0, <1>4 DEF Claim, HandlePoints
  <2>2. ASSUME NEW n, worker' = [worker EXCEPT ![w].pc = "process", ![w].attempts = n]
        PROVE  Kept
    <3> DEFINE s == [worker[w] EXCEPT !.pc = "process", !.attempts = n]
    <3>1. /\ worker' = [worker EXCEPT ![w] = s] /\ s.rest = worker[w].rest
          /\ s.msg = worker[w].msg
      BY <1>0, <2>2 DEF WorkerStates
    <3> HIDE DEF s
    <3> QED BY <1>e, <2>1, <3>1
  <2> QED BY <1>4, <1>c, <2>1, <2>2 DEF Claim
<1>5. CASE AckSkip(w) \/ Ack(w) \/ AckFailed(w)
  BY <1>0, <1>5, <1>a DEF AckSkip, Ack, AckFailed
<1>6. CASE Process(w) \/ Succeed(w)
  BY <1>0, <1>6, <1>c DEF Process, Succeed, HandlePoints
<1>7. CASE Fail(w)
  BY <1>0, <1>7, <1>a, <1>c DEF Fail, HandlePoints
<1>8. CASE CallFails(w) \/ DbReplyLost(w)
  BY <1>0, <1>8, <1>d DEF CallFails, DbReplyLost
<1>9. CASE RedisReplyLost(w)
  <2>1. idle' \subseteq idle
    BY <1>0, <1>9 DEF RedisReplyLost
  <2> QED BY <1>9, <1>d, <2>1 DEF RedisReplyLost
<1>10. CASE Crash(w) \/ Restart(w)
  BY <1>0, <1>10, <1>b DEF Crash, Restart, LoopPoints, EndPoints
<1>11. CASE Stop(w)
  <2> DEFINE s == [worker[w] EXCEPT !.running = FALSE]
  <2>1. /\ worker' = [worker EXCEPT ![w] = s] /\ s.rest = worker[w].rest
        /\ s.msg = worker[w].msg /\ s.pc = worker[w].pc
    BY <1>0, <1>11 DEF WorkerStates, Stop
  <2> HIDE DEF s
  <2> QED BY <1>0, <1>11, <1>e, <2>1 DEF Stop
<1>12. CASE Ready(w)
  BY <1>0, <1>12 DEF Ready, OthersStay, Takes, Held, Once
<1> QED BY <1>1, <1>2, <1>3, <1>4, <1>5, <1>6, <1>7, <1>8, <1>9, <1>10, <1>11, <1>12
        DEF WorkerStep, WorkerFault

LEMMA HoldersKept ==
    ASSUME TypeInv, HoldInv, NEW w \in Workers, OthersStay(w), idle' \subseteq idle, Takes(w),
           Once(w)'
    PROVE  HoldInv'
<1>1. \A v \in Workers : Held(v) \subseteq 1..last /\ Held(v) \cap idle = {}
  BY DEF TypeInv, MessagesInHand, Held, HoldInv
<1>2. \A v \in Workers \ {w} : Held(v)' = Held(v)
  BY DEF OthersStay, Held
<1>3. idle \subseteq 1..last
  BY DEF TypeInv, TypeOK, StreamTypeOK
<1>4. \A v \in Workers \ {w} : Held(v) \cap Held(w)' = {}
  BY <1>1 DEF Takes, HoldInv, OneHolder
<1>5. Held(w)' \cap idle' = {}
  BY <1>1, <1>3 DEF Takes
<1>6. OneHolder'
  BY <1>2, <1>4 DEF HoldInv, OneHolder
<1>7. \A v \in Workers : Held(v)' \cap idle' = {} /\ Once(v)'
  BY <1>1, <1>2, <1>5 DEF OthersStay, HoldInv, Once
<1> QED BY <1>6, <1>7 DEF HoldInv

LEMMA InitHoldInv == Init => HoldInv
BY DEF Init, WorkerInit, At, HoldInv, OneHolder, Held, Once, HandlePoints

(* Only slowness lets a message in hand come of age. *)
LEMMA NextHoldInv ==
    ASSUME "slow" \notin Faults, TypeInv, HoldInv, [Next]_vars
    PROVE  HoldInv'
<1>1. CASE idle' \subseteq idle /\ UNCHANGED worker
  BY <1>1 DEF HoldInv, OneHolder, Held, Once
<1>2. ASSUME NEW w \in Workers, WorkerStep(w) \/ WorkerFault(w) \/ Restart(w) \/ Ready(w)
      PROVE  HoldInv'
  BY <1>2, WorkerHolds, HoldersKept DEF HoldInv
<1>3. CASE \E r \in Requests : (RequestStep(r) \/ RequestFault(r)) /\ UNCHANGED worker
  <2>1. idle' = idle
    BY <1>3 DEF RequestStep, RequestFault, AssertQueueReady, FindExisting, GetCached,
                InsertCached, InsertQueued, UniqueViolation, EnsureConsumerGroup, Enqueue,
                RequestFails, RequestReplyLost, XGroupCreate, XAdd, XAddTwice, streamVars
  <2> QED BY <1>1, <1>3, <2>1
<1>4. CASE \/ \E u \in Users : PollStep(u) /\ UNCHANGED worker
           \/ \E k \in CacheKeys : ExpireCache(k) /\ UNCHANGED worker
           \/ EvictStream
  BY <1>1, <1>4 DEF PollStep, GetJob, CacheJobResult, NothingCached, ExpireCache, streamVars,
                    EvictStream, StreamLost
<1>5. ASSUME NEW m \in MessageIds, ClaimIdlePasses(m)
      PROVE  HoldInv'
  <2>1. ~InHand(m) /\ idle' = idle \cup {m} /\ UNCHANGED worker
    BY <1>5 DEF ClaimIdlePasses, Spend, GoesIdle
  <2> QED BY <2>1 DEF HoldInv, OneHolder, InHand, Held, Once
<1>6. CASE UNCHANGED vars
  BY <1>1, <1>6 DEF vars, streamVars
<1> QED BY <1>2, <1>3, <1>4, <1>5, <1>6 DEF Next

(* Without slow workers no two have the same message in hand, through crashes,
   lost replies, evictions, restarts and redeliveries. *)
THEOREM OneHolderAtATime ==
    ASSUME "slow" \notin Faults
    PROVE  Spec => []OneHolder
<1>1. HoldInv => OneHolder
  BY DEF HoldInv
<1>2. TypeInv /\ HoldInv /\ [Next]_vars => HoldInv'
  BY NextHoldInv
<1> QED BY <1>1, <1>2, InitTypeInv, NextTypeInv, InitHoldInv, PTL DEF Spec

-----------------------------------------------------------------------------
(* What the group owes after a command: only XACK takes a message off it. *)
LEMMA OwesSame ==
    ASSUME StreamTypeOK(DOMAIN job), NoGroupNothingDelivered,
           \/ XGroupCreate \/ UNCHANGED streamVars
           \/ \E n \in Nat : XReadGroup(Undelivered(n))
           \/ \E got : XAutoClaim(got)
           \/ \E m : GoesIdle(m)
    PROVE  log' = log /\ pel \subseteq pel' /\ \A m \in MessageIds : Unacked(m)' <=> Unacked(m)
<1>0. /\ Len(log) \in Nat /\ evicted \in Nat /\ last \in Nat /\ last <= Len(log)
      /\ pel \subseteq (evicted + 1)..last
  BY DEF StreamTypeOK
<1>1. CASE UNCHANGED <<log, last, pel>>
  BY <1>1 DEF Unacked, MessageIds
<1>2. ASSUME NEW n \in Nat, XReadGroup(Undelivered(n))
      PROVE  log' = log /\ pel \subseteq pel' /\ \A m \in MessageIds : Unacked(m)' <=> Unacked(m)
  <2>1. PICK k \in Undelivered(n) : last' = k
    BY <1>2 DEF XReadGroup
  <2>2. log' = log /\ pel' = pel \cup Undelivered(n)
    BY <1>2 DEF XReadGroup
  <2>3. \A m \in Undelivered(n) : m \in 1..Len(log) /\ last < m /\ m <= last + n
    BY DEF Undelivered, MessageIds
  <2>4. \A m \in Undelivered(n) : m <= k
    BY <1>2, <2>1 DEF XReadGroup
  <2>5. ASSUME NEW m \in 1..Len(log), last < m, m <= k PROVE m \in Undelivered(n)
    BY <1>0, <2>3, <2>5 DEF Undelivered, MessageIds
  <2>6. ASSUME NEW m \in MessageIds PROVE Unacked(m)' <=> Unacked(m)
    <3>1. m \in Nat /\ k \in Nat /\ last < k /\ m \in MessageIds'
      BY <1>0, <2>2, <2>3 DEF MessageIds
    <3>2. CASE m <= last
      BY <1>0, <2>1, <2>2, <2>3, <3>1, <3>2 DEF Unacked
    <3>3. CASE last < m /\ m <= k
      BY <2>2, <2>5, <3>1, <3>3 DEF Unacked, MessageIds
    <3>4. CASE k < m
      BY <1>0, <2>1, <3>1, <3>4 DEF Unacked
    <3> QED BY <1>0, <3>1, <3>2, <3>3, <3>4
  <2> QED BY <2>2, <2>6
<1> QED BY <1>1, <1>2 DEF XGroupCreate, NoGroupNothingDelivered, streamVars, XAutoClaim, GoesIdle

LEMMA OwesLess ==
    ASSUME StreamTypeOK(DOMAIN job), NEW k \in 1..last, XAck(k)
    PROVE  /\ log' = log /\ last' = last /\ pel' = pel \ {k} /\ ~Unacked(k)'
           /\ \A m \in MessageIds \ {k} : Unacked(m)' <=> Unacked(m)
<1>0. last \in Nat
  BY DEF StreamTypeOK
<1> QED BY <1>0 DEF XAck, Unacked, MessageIds

LEMMA OwesMore ==
    ASSUME StreamTypeOK(DOMAIN job), NEW id \in DOMAIN job, XAdd(id) \/ XAddTwice(id)
    PROVE  /\ pel' = pel
           /\ \A m \in MessageIds : m \in MessageIds' /\ log'[m] = log[m]
           /\ \A m \in MessageIds : Unacked(m)' <=> Unacked(m)
           /\ \A m \in MessageIds' \ MessageIds : log'[m] = id
           /\ \E m \in MessageIds' : log'[m] = id /\ Unacked(m)' /\ m \notin 1..last
<1>0. /\ Len(log) \in Nat /\ last \in Nat /\ last <= Len(log) /\ log \in Seq(DOMAIN job)
  BY DEF StreamTypeOK
<1>1. UNCHANGED <<last, pel>>
  BY DEF XAdd, XAddTwice
<1>2. /\ Len(log') \in Nat /\ Len(log') > Len(log)
      /\ \A m \in 1..Len(log) : log'[m] = log[m]
      /\ \A m \in 1..Len(log') : m > Len(log) => log'[m] = id
  <2>1. CASE XAdd(id)
    <3>1. Len(log') = Len(log) + 1 /\ \A m \in 1..Len(log) : log'[m] = log[m]
      BY <1>0, <2>1 DEF XAdd
    <3>2. log'[Len(log) + 1] = id
      BY <1>0, <2>1 DEF XAdd
    <3>3. \A m \in 1..Len(log') : m > Len(log) => m = Len(log) + 1
      BY <1>0, <3>1
    <3> QED BY <1>0, <3>1, <3>2, <3>3
  <2>2. CASE XAddTwice(id)
    <3> DEFINE one == Append(log, id)
    <3>1. one \in Seq(DOMAIN job) /\ Len(one) = Len(log) + 1 /\ one[Len(log) + 1] = id
          /\ \A m \in 1..Len(log) : one[m] = log[m]
      BY <1>0
    <3>2. log' = Append(one, id)
      BY <1>0, <2>2 DEF XAddTwice
    <3> HIDE DEF one
    <3>3. /\ Len(log') = Len(log) + 2 /\ log'[Len(log) + 2] = id
          /\ \A m \in 1..(Len(log) + 1) : log'[m] = one[m]
      BY <1>0, <3>1, <3>2
    <3>4. ASSUME NEW m \in 1..Len(log'), m > Len(log) PROVE log'[m] = id
      <4>1. m = Len(log) + 1 \/ m = Len(log) + 2
        BY <1>0, <3>3, <3>4
      <4> QED BY <1>0, <3>1, <3>3, <4>1
    <3> QED BY <1>0, <3>1, <3>3, <3>4
  <2> QED BY <2>1, <2>2
<1>3. /\ \A m \in MessageIds : m \in MessageIds' /\ log'[m] = log[m]
      /\ \A m \in MessageIds : Unacked(m)' <=> Unacked(m)
      /\ \A m \in MessageIds' \ MessageIds : log'[m] = id
  BY <1>0, <1>1, <1>2 DEF MessageIds, Unacked
<1>4. \E m \in MessageIds' : log'[m] = id /\ Unacked(m)' /\ m \notin 1..last
  <2> DEFINE m == Len(log')
  <2>1. m \in MessageIds' /\ m \notin MessageIds /\ m \notin 1..last /\ last' < m
    BY <1>0, <1>1, <1>2 DEF MessageIds
  <2> QED BY <1>3, <2>1 DEF Unacked
<1> QED BY <1>1, <1>3, <1>4

-----------------------------------------------------------------------------
(* Why no job is stranded.  A message in hand is pending; a worker comes to a
   point where it will acknowledge only when the row is final; and who takes a
   row out of a final status has a message for it in hand, alone, that it is
   not about to acknowledge. *)
HeldIsPending == \A w \in Workers : Held(w) \subseteq pel

StrandInv == HeldIsPending /\ NoStrandedJob

AboutTo(w) == worker[w].pc \in AckPoints

StrandStep(w) ==
    /\ log' = log /\ DOMAIN job' = DOMAIN job
    /\ \A m \in MessageIds :
        Unacked(m) => Unacked(m)' \/ (AboutTo(w) /\ m = worker[w].msg)
    /\ \A m \in pel : m \in pel' \/ (AboutTo(w) /\ m = worker[w].msg)
    /\ Held(w)' \subseteq pel'
    /\ AboutTo(w)' =>
        Final(JobOf(w))' \/ (AboutTo(w) /\ worker'[w].msg = worker[w].msg)
    /\ \A id \in DOMAIN job :
        Final(id) /\ ~Final(id)' =>
            /\ JobOf(w) = id /\ worker[w].msg \in Held(w) \cap pel'
            /\ ~AboutTo(w) /\ ~AboutTo(w)'

LEMMA StrandStepKeeps ==
    ASSUME TypeInv, HoldInv, StrandInv, NEW w \in Workers, OthersStay(w), StrandStep(w)
    PROVE  StrandInv'
<1>0. /\ \A v \in Workers : AboutTo(v) => worker[v].msg \in Held(v) /\ worker[v].msg \in MessageIds
      /\ Len(log) \in Nat /\ pel \subseteq MessageIds
  <2>1. AckPoints \subseteq HandlePoints
    BY DEF AckPoints, HandlePoints
  <2>2. /\ Len(log) \in Nat /\ evicted \in Nat /\ last \in Nat /\ last <= Len(log)
        /\ pel \subseteq (evicted + 1)..last
    BY DEF TypeInv, TypeOK, StreamTypeOK
  <2>3. pel \subseteq MessageIds
    BY <2>2 DEF MessageIds
  <2> QED BY <2>1, <2>2, <2>3, InHandType DEF AboutTo, Held
<1>1. MessageIds' = MessageIds /\ \A m \in MessageIds : log'[m] = log[m]
  BY DEF StrandStep, MessageIds
<1>2. HeldIsPending'
  <2> SUFFICES ASSUME NEW v \in Workers, v # w PROVE Held(v)' \subseteq pel'
    BY DEF HeldIsPending, StrandStep
  <2>1. Held(v)' = Held(v) /\ Held(v) \subseteq pel
    BY DEF OthersStay, Held, StrandInv, HeldIsPending
  <2>2. AboutTo(w) => worker[w].msg \notin Held(v)
    BY <1>0 DEF HoldInv, OneHolder
  <2> QED BY <2>1, <2>2 DEF StrandStep
<1>3. NoStrandedJob'
  <2> SUFFICES ASSUME NEW id \in DOMAIN job, Enqueued(id), ~Final(id)'
               PROVE  \E m \in MessageIds : log[m] = id /\ Unacked(m)' /\ ~AboutToAck(m)'
    BY <1>1 DEF NoStrandedJob, Enqueued, StrandStep
  <2>1. CASE ~Final(id)
    <3>1. PICK m \in MessageIds : log[m] = id /\ Unacked(m) /\ ~AboutToAck(m)
      BY <2>1 DEF StrandInv, NoStrandedJob
    <3>2. \A v \in Workers : ~(AboutTo(v) /\ worker[v].msg = m)
      BY <3>1 DEF AboutToAck, AboutTo, AckPoints
    <3>3. Unacked(m)'
      BY <3>1, <3>2 DEF StrandStep
    <3>4. ASSUME NEW v \in Workers PROVE ~(AboutTo(v)' /\ worker'[v].msg = m)
      <4>1. CASE v # w
        BY <3>2, <4>1 DEF OthersStay, AboutTo
      <4>2. CASE v = w
        <5> SUFFICES ASSUME AboutTo(w)', worker'[w].msg = m PROVE FALSE
          BY <4>2
        <5>1. JobOf(w)' = id
          BY <1>1, <3>1 DEF JobOf
        <5>2. ~Final(JobOf(w))'
          BY <5>1 DEF Final
        <5> QED BY <3>2, <5>2 DEF StrandStep
      <4> QED BY <4>1, <4>2
    <3> QED BY <3>1, <3>3, <3>4 DEF AboutToAck, AboutTo, AckPoints
  <2>2. CASE Final(id)
    <3>0. PICK m \in {worker[w].msg} : TRUE
      OBVIOUS
    <3>1. /\ JobOf(w) = id /\ m \in Held(w) /\ m \in pel' /\ ~AboutTo(w) /\ ~AboutTo(w)'
      BY <2>2 DEF StrandStep
    <3>2. m \in MessageIds /\ log[m] = id /\ Unacked(m)'
      BY <1>0, <3>1 DEF StrandInv, HeldIsPending, JobOf, Unacked
    <3>3. ASSUME NEW v \in Workers PROVE ~(AboutTo(v)' /\ worker'[v].msg = m)
      <4>1. CASE v = w
        BY <3>1, <4>1
      <4>2. CASE v # w
        <5>1. worker'[v] = worker[v] /\ m \notin Held(v)
          BY <3>1, <4>2 DEF OthersStay, HoldInv, OneHolder
        <5> QED BY <1>0, <5>1 DEF AboutTo
      <4> QED BY <4>1, <4>2
    <3> QED BY <3>2, <3>3 DEF AboutToAck, AboutTo, AckPoints
  <2> QED BY <2>1, <2>2
<1> QED BY <1>2, <1>3 DEF StrandInv

(* Where the moves of a loop leave it when it is done with a message. *)
LEMMA MovesAway ==
    ASSUME WorkerTypeOK, NEW w \in Workers,
           \/ LoopAgain(w) \/ NextMessage(w)
           \/ \E batch : Take(w, batch)
           \/ \E pc \in LoopPoints \cup EndPoints : Goto(w, pc) \/ Ends(w, pc)
    PROVE  ~AboutTo(w)'
<1>1. worker'[w].pc \in LoopPoints \cup EndPoints \cup {"claim"}
  BY GotoFacts, EndsFacts, LoopAgainFacts, TakeFacts DEF NextMessage, LoopPoints, EndPoints
<1> QED BY <1>1 DEF AboutTo, AckPoints, LoopPoints, EndPoints

(* Only its acknowledgements take something off what the group owes. *)
LEMMA WorkerStream ==
    ASSUME TypeInv, Reliable, NEW w \in Workers,
           WorkerStep(w) \/ WorkerFault(w) \/ Restart(w) \/ Ready(w)
    PROVE  /\ log' = log
           /\ \A m \in MessageIds :
                Unacked(m) => Unacked(m)' \/ (AboutTo(w) /\ m = worker[w].msg)
           /\ \A m \in pel : m \in pel' \/ (AboutTo(w) /\ m = worker[w].msg)
<1>0. /\ StreamTypeOK(DOMAIN job) /\ NoGroupNothingDelivered /\ WorkerConcurrency \in Nat
      /\ AboutTo(w) => worker[w].msg \in 1..last
  BY WorkerAssumption
     DEF TypeInv, TypeOK, MessagesInHand, AboutTo, AckPoints, HandlePoints
<1>1. ~RedisReplyLost(w)
  BY DEF Reliable, RedisReplyLost, Spend
<1>2. \/ XGroupCreate \/ UNCHANGED streamVars
      \/ \E n \in Nat : XReadGroup(Undelivered(n))
      \/ \E got : XAutoClaim(got)
      \/ AboutTo(w) /\ XAck(worker[w].msg)
  BY <1>0, <1>1
     DEF WorkerStep, WorkerFault, Restart, Ready, EnsureGroup, Reclaim, Read, Claim, AckSkip,
         Process, Succeed, Ack, Fail, AckFailed, CallFails, DbReplyLost, Crash, Stop, AboutTo,
         AckPoints
<1>3. CASE AboutTo(w) /\ XAck(worker[w].msg)
  BY <1>0, <1>3, OwesLess
<1>4. CASE ~(AboutTo(w) /\ XAck(worker[w].msg))
  BY <1>0, <1>2, <1>4, OwesSame
<1> QED BY <1>3, <1>4

(* What it has in hand is pending: what it acknowledges it has no more. *)
LEMMA WorkerHeld ==
    ASSUME TypeInv, TypeInv', HoldInv, HeldIsPending, Reliable, NEW w \in Workers,
           WorkerStep(w) \/ WorkerFault(w) \/ Restart(w) \/ Ready(w)
    PROVE  Held(w)' \subseteq pel'
<1>0. /\ WorkerTypeOK /\ worker[w] \in WorkerStates
      /\ Held(w) \subseteq pel /\ idle \subseteq pel
      /\ Held(w)' \subseteq 1..last'
  BY DEF TypeInv, TypeOK, StreamTypeOK, WorkerTypeOK, HeldIsPending, MessagesInHand, Held
<1>1. ~RedisReplyLost(w)
  BY DEF Reliable, RedisReplyLost, Spend
<1>2. CASE AckSkip(w) \/ Ack(w) \/ AckFailed(w)
  <2>1. pel' = pel \ {worker[w].msg} /\ NextMessage(w) /\ worker[w].pc \in HandlePoints
    BY <1>2 DEF AckSkip, Ack, AckFailed, XAck, HandlePoints
  <2>2. Held(w)' = worker[w].rest /\ worker[w].msg \notin worker[w].rest
    BY <1>0, <2>1, NextHolds DEF HoldInv, Once
  <2> QED BY <1>0, <2>1, <2>2 DEF Held
<1>3. CASE Read(w) /\ ~UNCHANGED streamVars
  <2> DEFINE got == Undelivered(WorkerConcurrency)
  <2>1. pel' = pel \cup got /\ Take(w, got)
    BY <1>3 DEF Read, XReadGroup
  <2>2. Held(w)' = got
    BY <1>0, <2>1, TakeHolds
  <2> QED BY <2>1, <2>2
<1>4. CASE /\ ~AckSkip(w) /\ ~Ack(w) /\ ~AckFailed(w)
           /\ Read(w) => UNCHANGED streamVars
  <2>1. pel' = pel /\ last' = last
    BY <1>1, <1>4
       DEF WorkerStep, WorkerFault, Restart, Ready, EnsureGroup, Reclaim, Claim, Process,
           Succeed, Fail, CallFails, DbReplyLost, Crash, Stop, XGroupCreate, streamVars,
           XAutoClaim, TypeInv, NoGroupNothingDelivered
  <2> QED BY <1>0, <2>1, WorkerHolds DEF Takes
<1> QED BY <1>2, <1>3, <1>4

(* It comes to a point where it will acknowledge only by seeing or setting a
   final status. *)
LEMMA WorkerAcks ==
    ASSUME TypeInv, SettledInv, NEW w \in Workers,
           WorkerStep(w) \/ WorkerFault(w) \/ Restart(w) \/ Ready(w), AboutTo(w)'
    PROVE  Final(JobOf(w))' \/ (AboutTo(w) /\ worker'[w].msg = worker[w].msg)
<1>0. /\ WorkerTypeOK /\ JobTypeOK /\ worker[w] \in WorkerStates
      /\ worker[w].pc \in HandlePoints => JobOf(w) \in DOMAIN job
  BY InHandType DEF TypeInv, TypeOK
<1>a. ~(LoopAgain(w) \/ NextMessage(w) \/ \E batch : Take(w, batch))
  BY <1>0, MovesAway
<1>b. \A pc \in LoopPoints \cup EndPoints : ~Goto(w, pc) /\ ~Ends(w, pc)
  BY <1>0, MovesAway
<1>c. ASSUME NEW pc, Goto(w, pc) PROVE pc \in AckPoints /\ worker'[w].msg = worker[w].msg
  BY <1>0, <1>c, GotoFacts DEF AboutTo
<1>d. ~Raise(w)
  BY <1>b, <1>c DEF Raise, EndPoints, AckPoints
<1>1. CASE Claim(w)
  <2>1. ~Claimable(JobOf(w)) /\ Goto(w, "ackSkip") /\ UNCHANGED <<job, log>>
    <3>1. ASSUME NEW n PROVE worker' # [worker EXCEPT ![w].pc = "process", ![w].attempts = n]
      <4> SUFFICES ASSUME worker' = [worker EXCEPT ![w].pc = "process", ![w].attempts = n]
                   PROVE  FALSE
        OBVIOUS
      <4> DEFINE t == [worker[w] EXCEPT !.pc = "process", !.attempts = n]
      <4>1. worker' = [worker EXCEPT ![w] = t] /\ t.pc = "process"
        BY <1>0 DEF WorkerStates
      <4> HIDE DEF t
      <4>2. worker'[w].pc = "process"
        BY <1>0, <4>1 DEF WorkerTypeOK
      <4> QED BY <4>2 DEF AboutTo, AckPoints
    <3> QED BY <1>1, <3>1 DEF Claim, streamVars
  <2>2. JobOf(w) \in DOMAIN job /\ job[JobOf(w)].status = "SUCCEEDED"
    BY <1>0, <1>1, <2>1 DEF Claim, HandlePoints, Claimable, JobTypeOK, Row, AiJobStatuses,
                            SettledInv, NeverCancelled
  <2>3. JobOf(w)' = JobOf(w)
    BY <1>c, <2>1 DEF JobOf
  <2> QED BY <2>1, <2>2, <2>3 DEF Final
<1>2. CASE Succeed(w)
  <2>1. JobOf(w)' = JobOf(w) /\ JobOf(w) \in DOMAIN job
    BY <1>0, <1>2, <1>c DEF Succeed, JobOf, streamVars, HandlePoints
  <2>2. job'[JobOf(w)].status = "SUCCEEDED"
    BY <1>0, <1>2, <2>1 DEF Succeed, MarkSucceeded, JobTypeOK, Row
  <2> QED BY <2>1, <2>2 DEF Final
<1>3. CASE Fail(w)
  <2>1. Terminal(w) /\ Goto(w, "ackFailed")
    BY <1>3, <1>a DEF Fail
  <2>2. JobOf(w)' = JobOf(w) /\ JobOf(w) \in DOMAIN job
    BY <1>0, <1>3, <2>1, <1>c DEF Fail, JobOf, streamVars, HandlePoints
  <2>3. job'[JobOf(w)].status = "FAILED"
    BY <1>0, <1>3, <2>1, <2>2 DEF Fail, MarkFailed, JobTypeOK, Row
  <2> QED BY <2>2, <2>3 DEF Final
<1>4. CASE Stop(w)
  <2> DEFINE s == [worker[w] EXCEPT !.running = FALSE]
  <2>1. worker' = [worker EXCEPT ![w] = s] /\ s.msg = worker[w].msg /\ s.pc = worker[w].pc
    BY <1>0, <1>4 DEF WorkerStates, Stop
  <2> HIDE DEF s
  <2> QED BY <1>0, <2>1 DEF WorkerTypeOK, AboutTo
<1>5. CASE Ready(w)
  BY <1>5 DEF Ready, AboutTo
<1>6. ~(AckSkip(w) \/ Ack(w) \/ AckFailed(w) \/ EnsureGroup(w) \/ Reclaim(w) \/ Read(w))
  BY <1>a, <1>b DEF AckSkip, Ack, AckFailed, EnsureGroup, Reclaim, Read, LoopPoints, EndPoints
<1>7. ~(Process(w) \/ CallFails(w) \/ RedisReplyLost(w) \/ DbReplyLost(w) \/ Crash(w) \/ Restart(w))
  BY <1>b, <1>c, <1>d DEF Process, CallFails, RedisReplyLost, DbReplyLost, Crash, Restart,
                          LoopPoints, EndPoints, AckPoints
<1> QED BY <1>1, <1>2, <1>3, <1>4, <1>5, <1>6, <1>7 DEF WorkerStep, WorkerFault

(* Only a claim and a failure with attempts left take a row out of a final
   status, and neither is about to acknowledge. *)
LEMMA WorkerReopens ==
    ASSUME TypeInv, HeldIsPending, NEW w \in Workers,
           WorkerStep(w) \/ WorkerFault(w) \/ Restart(w) \/ Ready(w)
    PROVE  /\ DOMAIN job' = DOMAIN job
           /\ \A id \in DOMAIN job :
                Final(id) /\ ~Final(id)' =>
                    /\ JobOf(w) = id /\ worker[w].msg \in Held(w) \cap pel'
                    /\ ~AboutTo(w) /\ ~AboutTo(w)'
<1>0. /\ WorkerTypeOK /\ JobTypeOK /\ worker[w] \in WorkerStates
      /\ worker[w].pc \in HandlePoints => JobOf(w) \in DOMAIN job
  BY InHandType DEF TypeInv, TypeOK
<1>1. CASE UNCHANGED job
  BY <1>1 DEF Final
<1>2. CASE JobOf(w) \in DOMAIN job /\ MarkSucceeded(JobOf(w))
  <2>1. /\ DOMAIN job' = DOMAIN job /\ \A id \in DOMAIN job \ {JobOf(w)} : job'[id] = job[id]
        /\ job'[JobOf(w)].status = "SUCCEEDED"
    BY <1>0, <1>2 DEF MarkSucceeded, JobTypeOK, Row
  <2> QED BY <2>1 DEF Final
<1>3. CASE worker[w].pc \in {"claim", "fail"} /\ MarkRunning(JobOf(w)) /\ UNCHANGED streamVars /\ ~AboutTo(w)'
  <2>1. /\ DOMAIN job' = DOMAIN job /\ \A id \in DOMAIN job \ {JobOf(w)} : job'[id] = job[id]
    BY <1>0, <1>3 DEF MarkRunning, JobTypeOK, Row
  <2>2. worker[w].msg \in Held(w) \cap pel' /\ ~AboutTo(w)
    BY <1>3 DEF Held, HeldIsPending, HandlePoints, streamVars, AboutTo, AckPoints
  <2> QED BY <1>3, <2>1, <2>2 DEF Final
<1>4. CASE /\ worker[w].pc \in {"claim", "fail"} /\ MarkFailed(JobOf(w), Terminal(w)) /\ UNCHANGED streamVars
           /\ ~Terminal(w) => ~AboutTo(w)'
  <2>1. /\ DOMAIN job' = DOMAIN job /\ \A id \in DOMAIN job \ {JobOf(w)} : job'[id] = job[id]
        /\ Terminal(w) => job'[JobOf(w)].status = "FAILED"
    BY <1>0, <1>4 DEF MarkFailed, JobTypeOK, Row, HandlePoints
  <2>2. worker[w].msg \in Held(w) \cap pel' /\ ~AboutTo(w)
    BY <1>4 DEF Held, HeldIsPending, HandlePoints, streamVars, AboutTo, AckPoints
  <2> QED BY <1>4, <2>1, <2>2 DEF Final
<1>5. CASE Claim(w)
  <2>1. CASE /\ MarkRunning(JobOf(w))
             /\ worker' = [worker EXCEPT ![w].pc = "process",
                                         ![w].attempts = job[JobOf(w)].attempts + 1]
    <3> DEFINE t == [worker[w] EXCEPT !.pc = "process", !.attempts = job[JobOf(w)].attempts + 1]
    <3>1. worker' = [worker EXCEPT ![w] = t] /\ t.pc = "process"
      BY <1>0, <2>1 DEF WorkerStates
    <3> HIDE DEF t
    <3>2. ~AboutTo(w)'
      BY <1>0, <3>1 DEF WorkerTypeOK, AboutTo, AckPoints
    <3> QED BY <1>3, <1>5, <2>1, <3>2 DEF Claim
  <2> QED BY <1>1, <1>5, <2>1 DEF Claim
<1>6. CASE Fail(w)
  <2>1. ~Terminal(w) => ~AboutTo(w)'
    BY <1>0, <1>6, MovesAway DEF Fail
  <2> QED BY <1>4, <1>6, <2>1 DEF Fail
<1>7. CASE DbReplyLost(w)
  <2>1. worker[w].pc \in {"claim", "fail"} => ~AboutTo(w)'
    BY <1>0, <1>7, MovesAway DEF DbReplyLost, Raise, EndPoints
  <2> QED BY <1>0, <1>2, <1>3, <1>4, <1>7, <2>1 DEF DbReplyLost, HandlePoints
<1>8. CASE Succeed(w)
  BY <1>0, <1>2, <1>8 DEF Succeed, HandlePoints
<1> QED BY <1>1, <1>5, <1>6, <1>7, <1>8
        DEF WorkerStep, WorkerFault, Restart, Ready, EnsureGroup, Reclaim, Read, AckSkip,
            Process, Ack, AckFailed, CallFails, RedisReplyLost, Crash, Stop

LEMMA WorkerStrandInv ==
    ASSUME TypeInv, TypeInv', HoldInv, SettledInv, StrandInv, Reliable, NEW w \in Workers,
           WorkerStep(w) \/ WorkerFault(w) \/ Restart(w) \/ Ready(w)
    PROVE  StrandInv'
<1>1. HeldIsPending
  BY DEF StrandInv
<1>2. OthersStay(w)
  BY WorkerHolds
<1>3. Held(w)' \subseteq pel'
  BY <1>1, WorkerHeld
<1>4. AboutTo(w)' => Final(JobOf(w))' \/ (AboutTo(w) /\ worker'[w].msg = worker[w].msg)
  BY WorkerAcks
<1>5. StrandStep(w)
  BY <1>1, <1>3, <1>4, WorkerStream, WorkerReopens DEF StrandStep
<1> QED BY <1>2, <1>5, StrandStepKeeps

(* Steps of nobody's worker: a row keeps its status, the group owes what it
   owed, and a job newly on the stream is owed by that message. *)
LEMMA QuietStrandInv ==
    ASSUME TypeInv, StrandInv, UNCHANGED worker,
           \A id \in DOMAIN job' :
                \/ id \in DOMAIN job /\ job'[id] = job[id]
                \/ id \notin DOMAIN job,
           pel \subseteq pel',
           \A m \in MessageIds :
                m \in MessageIds' /\ log'[m] = log[m] /\ (Unacked(m) => Unacked(m)'),
           \A m \in MessageIds' \ MessageIds :
                \E k \in MessageIds' : log'[k] = log'[m] /\ Unacked(k)' /\ k \notin 1..last
    PROVE  StrandInv'
<1>0. /\ log \in Seq(DOMAIN job)
      /\ \A w \in Workers : worker[w].pc \in HandlePoints => worker[w].msg \in 1..last
  BY DEF TypeInv, TypeOK, StreamTypeOK, MessagesInHand
<1>1. HeldIsPending'
  BY DEF StrandInv, HeldIsPending, Held
<1>2. \A m \in Nat : AboutToAck(m)' <=> AboutToAck(m)
  BY DEF AboutToAck
<1>3. \A m \in Nat : m \notin 1..last => ~AboutToAck(m)
  BY <1>0 DEF AboutToAck, HandlePoints
<1>4. NoStrandedJob'
  <2> SUFFICES ASSUME NEW id \in DOMAIN job', NEW n \in MessageIds', log'[n] = id, ~Final(id)'
               PROVE  \E m \in MessageIds' : log'[m] = id /\ Unacked(m)' /\ ~AboutToAck(m)'
    BY DEF NoStrandedJob, Enqueued
  <2>1. CASE n \in MessageIds
    <3>1. log[n] = id /\ id \in DOMAIN job
      BY <1>0, <2>1 DEF MessageIds
    <3>2. ~Final(id)
      BY <3>1 DEF Final
    <3>3. PICK m \in MessageIds : log[m] = id /\ Unacked(m) /\ ~AboutToAck(m)
      BY <2>1, <3>1, <3>2 DEF StrandInv, NoStrandedJob, Enqueued
    <3>4. m \in Nat
      BY DEF MessageIds
    <3> QED BY <1>2, <3>3, <3>4
  <2>2. CASE n \notin MessageIds
    <3>1. PICK m \in MessageIds' : log'[m] = id /\ Unacked(m)' /\ m \notin 1..last
      BY <2>2
    <3>2. m \in Nat
      BY DEF MessageIds
    <3> QED BY <1>2, <1>3, <3>1, <3>2
  <2> QED BY <2>1, <2>2
<1> QED BY <1>1, <1>4 DEF StrandInv

LEMMA RequestStrandInv ==
    ASSUME TypeInv, StrandInv, Reliable, NEW r \in Requests,
           RequestStep(r) \/ RequestFault(r), UNCHANGED worker
    PROVE  StrandInv'
<1>0. /\ JobTypeOK /\ StreamTypeOK(DOMAIN job) /\ NoGroupNothingDelivered
      /\ request[r].pc \in BeforeInsert => r \notin DOMAIN job
      /\ request[r].pc \in AfterInsert => r \in DOMAIN job
  BY DEF TypeInv, TypeOK, RowsOfRequests
<1>1. \A id \in DOMAIN job' :
        \/ id \in DOMAIN job /\ job'[id] = job[id]
        \/ id \notin DOMAIN job
  <2>1. \/ UNCHANGED job
        \/ r \notin DOMAIN job /\ \E row : Insert(r, row)
    BY <1>0 DEF RequestStep, RequestFault, AssertQueueReady, FindExisting, GetCached,
                InsertCached, InsertQueued, UniqueViolation, EnsureConsumerGroup, Enqueue,
                RequestFails, RequestReplyLost, CreateQueued, CreateSucceeded, BeforeInsert
  <2> QED BY <2>1 DEF Insert
<1>2. \/ UNCHANGED streamVars \/ XGroupCreate
      \/ r \in DOMAIN job /\ (XAdd(r) \/ XAddTwice(r))
  BY <1>0 DEF RequestStep, RequestFault, AssertQueueReady, FindExisting, GetCached,
              InsertCached, InsertQueued, UniqueViolation, EnsureConsumerGroup, Enqueue,
              RequestFails, RequestReplyLost, Spend, Reliable, AfterInsert
<1>3. CASE UNCHANGED streamVars \/ XGroupCreate
  <2>1. log' = log /\ pel \subseteq pel' /\ \A m \in MessageIds : Unacked(m)' <=> Unacked(m)
    BY <1>0, <1>3, OwesSame
  <2>2. MessageIds' = MessageIds
    BY <2>1 DEF MessageIds
  <2> QED BY <1>1, <2>1, <2>2, QuietStrandInv
<1>4. CASE r \in DOMAIN job /\ (XAdd(r) \/ XAddTwice(r))
  <2>1. /\ pel' = pel
        /\ \A m \in MessageIds : m \in MessageIds' /\ log'[m] = log[m]
        /\ \A m \in MessageIds : Unacked(m)' <=> Unacked(m)
        /\ \A m \in MessageIds' \ MessageIds : log'[m] = r
        /\ \E m \in MessageIds' : log'[m] = r /\ Unacked(m)' /\ m \notin 1..last
    BY <1>0, <1>4, OwesMore
  <2> QED BY <1>1, <2>1, QuietStrandInv
<1> QED BY <1>2, <1>3, <1>4

LEMMA InitStrandInv == Init => StrandInv
<1> SUFFICES ASSUME Init PROVE StrandInv
  OBVIOUS
<1>1. DOMAIN job = {}
  BY DEF Init, JobInit
<1>2. \A w \in Workers : Held(w) = {}
  BY DEF Init, WorkerInit, At, Held, HandlePoints
<1> QED BY <1>1, <1>2 DEF StrandInv, HeldIsPending, NoStrandedJob

LEMMA NextStrandInv ==
    ASSUME TypeInv, TypeInv', HoldInv, SettledInv, StrandInv, Reliable, [Next]_vars
    PROVE  StrandInv'
<1>1. CASE \E r \in Requests : (RequestStep(r) \/ RequestFault(r)) /\ UNCHANGED worker
  BY <1>1, RequestStrandInv
<1>2. CASE \E w \in Workers :
            /\ WorkerStep(w) \/ WorkerFault(w) \/ Restart(w) \/ Ready(w)
            /\ UNCHANGED serviceVars
  BY <1>2, WorkerStrandInv
<1>3. ASSUME UNCHANGED <<job, worker>>, UNCHANGED streamVars \/ \E m \in MessageIds : GoesIdle(m)
      PROVE  StrandInv'
  <2>1. log' = log /\ pel \subseteq pel' /\ \A m \in MessageIds : Unacked(m)' <=> Unacked(m)
    BY <1>3, OwesSame DEF TypeInv, TypeOK
  <2>2. MessageIds' = MessageIds
    BY <2>1 DEF MessageIds
  <2> QED BY <1>3, <2>1, <2>2, QuietStrandInv
<1>4. CASE \/ \E u \in Users : PollStep(u) /\ UNCHANGED worker
           \/ \E k \in CacheKeys : ExpireCache(k) /\ UNCHANGED worker
           \/ \E m \in MessageIds : ClaimIdlePasses(m) /\ UNCHANGED serviceVars
           \/ UNCHANGED vars
  <2>1. UNCHANGED <<job, worker>> /\ (UNCHANGED streamVars \/ \E m \in MessageIds : GoesIdle(m))
    BY <1>4 DEF PollStep, GetJob, CacheJobResult, NothingCached, ExpireCache, ClaimIdlePasses,
                vars
  <2> QED BY <1>3, <2>1
<1>5. ~EvictStream
  BY DEF Reliable, EvictStream, Spend
<1> QED BY <1>1, <1>2, <1>4, <1>5 DEF Next

(* Without slow workers, lost Redis replies and evictions, a job that was put
   on the stream and has not come to a final status is owed a worker by a
   message that its holder is not about to acknowledge: whatever crashes, is
   stopped, or loses Postgres or its answers, nothing but a worker is needed. *)
THEOREM NoJobIsStranded ==
    ASSUME Reliable
    PROVE  Spec => []NoStrandedJob
<1>1. StrandInv => NoStrandedJob
  BY DEF StrandInv
<1>2. TypeInv /\ HoldInv /\ [Next]_vars => HoldInv'
  BY NextHoldInv DEF Reliable
<1>3. TypeInv /\ TypeInv' /\ HoldInv /\ SettledInv /\ StrandInv /\ [Next]_vars => StrandInv'
  BY NextStrandInv
<1> QED BY <1>1, <1>2, <1>3, InitTypeInv, NextTypeInv, InitHoldInv, InitSettledInv,
           NextSettledInv, InitStrandInv, PTL DEF Spec

-----------------------------------------------------------------------------
(* How many attempts a job can still come to.  A slot is a message that an
   attempt may yet begin or be repeated with: one that the group may hand out,
   or that a worker has in hand, unless that worker can only acknowledge it. *)
Nobody == CHOOSE n : n \notin Workers

Open(w, m) ==
    \/ m \in worker[w].rest
    \/ /\ m = worker[w].msg
       /\ worker[w].pc = "claim" \/ (worker[w].pc \in Attempting /\ ~Terminal(w))

Free(m) == Unacked(m) /\ (m \in idle \/ ~InHand(m))

Slots(id) ==
    {s \in (Workers \cup {Nobody}) \X MessageIds :
        /\ log[s[2]] = id
        /\ IF s[1] = Nobody THEN Free(s[2]) ELSE Open(s[1], s[2])}

Budget(id) ==
    LET slots == Cardinality(Slots(id)) IN
    IF job[id].attempts < job[id].maxAttempts
    THEN slots <= 1 + faults
    ELSE job[id].attempts + slots <= job[id].maxAttempts + faults

NotYetAdded ==
    \A r \in Requests : request[r].pc \in OpenPoints =>
        /\ \A m \in MessageIds : log[m] # r
        /\ r \in DOMAIN job => job[r].attempts = 0

AttemptInv ==
    /\ \A w \in Workers : Once(w)
    /\ NotYetAdded
    /\ \A id \in DOMAIN job : Budget(id)

(* No step deletes a row or changes its maxAttempts. *)
LimitsStay ==
    \A id \in DOMAIN job : id \in DOMAIN job' /\ job'[id].maxAttempts = job[id].maxAttempts

LEMMA NobodyIsNone == Nobody \notin Workers
BY NoSetContainsEverything DEF Nobody

LEMMA SlotIs ==
    ASSUME NEW id, NEW v, NEW m
    PROVE  <<v, m>> \in Slots(id) <=>
            /\ v \in Workers \cup {Nobody} /\ m \in MessageIds /\ log[m] = id
            /\ IF v = Nobody THEN Free(m) ELSE Open(v, m)
BY DEF Slots

LEMMA PairsAreFinite ==
    ASSUME IsFiniteSet(Workers), NEW n \in Nat,
           NEW S \in SUBSET ((Workers \cup {Nobody}) \X (1..n))
    PROVE  IsFiniteSet(S) /\ Cardinality(S) \in Nat
<1>1. IsFiniteSet(1..n)
  BY FS_Interval
<1>2. IsFiniteSet(Workers \cup {Nobody})
  BY FS_AddElement
<1>3. IsFiniteSet((Workers \cup {Nobody}) \X (1..n))
  BY <1>1, <1>2, FS_Product
<1>4. IsFiniteSet(S)
  BY <1>3, FS_Subset
<1> QED BY <1>4, FS_CardinalityType

LEMMA SlotsAre ==
    ASSUME IsFiniteSet(Workers), NEW id
    PROVE  /\ TypeInv => IsFiniteSet(Slots(id)) /\ Cardinality(Slots(id)) \in Nat
           /\ TypeInv' => IsFiniteSet(Slots(id)') /\ Cardinality(Slots(id)') \in Nat
<1>1. ASSUME TypeInv PROVE IsFiniteSet(Slots(id)) /\ Cardinality(Slots(id)) \in Nat
  <2>1. Len(log) \in Nat
    BY <1>1 DEF TypeInv, TypeOK, StreamTypeOK
  <2>2. Slots(id) \in SUBSET ((Workers \cup {Nobody}) \X (1..Len(log)))
    BY DEF Slots, MessageIds
  <2> QED BY <2>1, <2>2, PairsAreFinite
<1>2. ASSUME TypeInv' PROVE IsFiniteSet(Slots(id)') /\ Cardinality(Slots(id)') \in Nat
  <2>1. Len(log') \in Nat
    BY <1>2 DEF TypeInv, TypeOK, StreamTypeOK
  <2>2. Slots(id)' \in SUBSET ((Workers \cup {Nobody}) \X (1..Len(log')))
    BY DEF Slots, MessageIds
  <2> QED BY <2>1, <2>2, PairsAreFinite
<1> QED BY <1>1, <1>2

(* What comes of a set has no more elements. *)
LEMMA NoMore ==
    ASSUME NEW S, IsFiniteSet(S), NEW g, NEW T, \A t \in T : \E s \in S : g[s] = t
    PROVE  IsFiniteSet(T) /\ Cardinality(T) <= Cardinality(S)
<1> DEFINE R == {s \in S : g[s] \in T}
           h == [s \in R |-> g[s]]
<1>1. h \in [R -> T] /\ \A t \in T : \E s \in R : h[s] = t
  OBVIOUS
<1>2. R \in SUBSET S
  OBVIOUS
<1> HIDE DEF R, h
<1>3. h \in Surjection(R, T)
  BY <1>1 DEF Surjection
<1>4. IsFiniteSet(R) /\ Cardinality(R) <= Cardinality(S)
  BY <1>2, FS_Subset
<1>5. IsFiniteSet(T) /\ Cardinality(T) <= Cardinality(R)
  BY <1>3, <1>4, FS_Surjection
<1> QED BY <1>4, <1>5, FS_CardinalityType

LEMMA OneMore ==
    ASSUME NEW S, NEW T, NEW e, IsFiniteSet(S), IsFiniteSet(T),
           Cardinality(T \ {e}) <= Cardinality(S)
    PROVE  Cardinality(T) <= Cardinality(S) + 1
<1>1. IsFiniteSet(T \ {e}) /\ Cardinality(T \ {e}) >= Cardinality(T) - 1
  BY FS_RemoveElement, FS_CardinalityType
<1>2. /\ Cardinality(S) \in Nat /\ Cardinality(T) \in Nat
      /\ Cardinality(T \ {e}) \in Nat
  BY <1>1, FS_CardinalityType
<1> QED BY <1>1, <1>2

(* The budget, when slots and faults have changed by as much. *)
LEMMA BudgetKept ==
    ASSUME TypeInv, TypeInv', IsFiniteSet(Workers), NEW id \in DOMAIN job, Budget(id),
           LimitsStay, job'[id].attempts = job[id].attempts,
           \/ /\ faults' \in {faults, faults + 1}
              /\ Cardinality(Slots(id)') <= Cardinality(Slots(id))
           \/ /\ faults' = faults + 1
              /\ Cardinality(Slots(id)') <= Cardinality(Slots(id)) + 1
    PROVE  Budget(id)'
<1> DEFINE c == Cardinality(Slots(id))
           d == Cardinality(Slots(id)')
<1>1. /\ c \in Nat /\ d \in Nat /\ faults \in Nat /\ faults' \in Nat
      /\ job[id].attempts \in Nat /\ job[id].maxAttempts \in Nat
      /\ id \in DOMAIN job' /\ job'[id].maxAttempts = job[id].maxAttempts
  BY SlotsAre DEF TypeInv, TypeOK, JobTypeOK, Row, AttemptLimits, FaultsTypeOK, LimitsStay
<1>2. IF job[id].attempts < job[id].maxAttempts
      THEN c <= 1 + faults ELSE job[id].attempts + c <= job[id].maxAttempts + faults
  BY DEF Budget
<1>3. Budget(id)' <=> IF job'[id].attempts < job'[id].maxAttempts
                      THEN d <= 1 + faults'
                      ELSE job'[id].attempts + d <= job'[id].maxAttempts + faults'
  BY DEF Budget
<1>4. \/ faults' \in {faults, faults + 1} /\ d <= c
      \/ faults' = faults + 1 /\ d <= c + 1
  OBVIOUS
<1> HIDE DEF c, d
<1>5. PICK a \in Nat, n \in Nat : a = job[id].attempts /\ n = job[id].maxAttempts
  BY <1>1
<1>6. PICK f \in Nat, g \in Nat : f = faults /\ g = faults'
  BY <1>1
<1>7. PICK x \in Nat, y \in Nat : x = c /\ y = d
  BY <1>1
<1>8. job'[id].attempts = a /\ job'[id].maxAttempts = n
  BY <1>1, <1>5
<1>9. IF a < n THEN x <= 1 + f ELSE a + x <= n + f
  BY <1>2, <1>5, <1>6, <1>7
<1>10. \/ g \in {f, f + 1} /\ y <= x
       \/ g = f + 1 /\ y <= x + 1
  BY <1>4, <1>5, <1>6, <1>7, <1>8
<1>11. IF a < n THEN y <= 1 + g ELSE a + y <= n + g
  BY <1>9, <1>10
<1> QED BY <1>3, <1>6, <1>7, <1>8, <1>11

(* And when an attempt has begun. *)
LEMMA BudgetSpent ==
    ASSUME TypeInv, TypeInv', IsFiniteSet(Workers), NEW id \in DOMAIN job, Budget(id),
           LimitsStay, job'[id].attempts = job[id].attempts + 1,
           \/ /\ faults' = faults + 1
              /\ Cardinality(Slots(id)') <= Cardinality(Slots(id))
           \/ /\ faults' = faults
              /\ Cardinality(Slots(id)') <= Cardinality(Slots(id))
              /\ job'[id].attempts >= job[id].maxAttempts =>
                    Cardinality(Slots(id)') <= Cardinality(Slots(id)) - 1
    PROVE  Budget(id)'
<1> DEFINE c == Cardinality(Slots(id))
           d == Cardinality(Slots(id)')
<1>1. /\ c \in Nat /\ d \in Nat /\ faults \in Nat /\ faults' \in Nat
      /\ job[id].attempts \in Nat /\ job[id].maxAttempts \in Nat
      /\ id \in DOMAIN job' /\ job'[id].maxAttempts = job[id].maxAttempts
  BY SlotsAre DEF TypeInv, TypeOK, JobTypeOK, Row, AttemptLimits, FaultsTypeOK, LimitsStay
<1>2. IF job[id].attempts < job[id].maxAttempts
      THEN c <= 1 + faults ELSE job[id].attempts + c <= job[id].maxAttempts + faults
  BY DEF Budget
<1>3. Budget(id)' <=> IF job'[id].attempts < job'[id].maxAttempts
                      THEN d <= 1 + faults'
                      ELSE job'[id].attempts + d <= job'[id].maxAttempts + faults'
  BY DEF Budget
<1>4. \/ faults' = faults + 1 /\ d <= c
      \/ /\ faults' = faults /\ d <= c
         /\ job'[id].attempts >= job[id].maxAttempts => d <= c - 1
  OBVIOUS
<1> HIDE DEF c, d
<1>5. PICK a \in Nat, n \in Nat : a = job[id].attempts /\ n = job[id].maxAttempts
  BY <1>1
<1>6. PICK f \in Nat, g \in Nat : f = faults /\ g = faults'
  BY <1>1
<1>7. PICK x \in Nat, y \in Nat : x = c /\ y = d
  BY <1>1
<1>8. job'[id].attempts = a + 1 /\ job'[id].maxAttempts = n
  BY <1>1, <1>5
<1>9. IF a < n THEN x <= 1 + f ELSE a + x <= n + f
  BY <1>2, <1>5, <1>6, <1>7
<1>10. \/ g = f + 1 /\ y <= x
       \/ g = f /\ y <= x /\ (a + 1 >= n => y <= x - 1)
  BY <1>4, <1>5, <1>6, <1>7, <1>8
<1>11. IF a + 1 < n THEN y <= 1 + g ELSE a + 1 + y <= n + g
  BY <1>9, <1>10
<1> QED BY <1>3, <1>6, <1>7, <1>8, <1>11

-----------------------------------------------------------------------------
(* A worker that can only acknowledge the message it works on, or settle it. *)
Closed(w) == worker[w].pc \in HandlePoints /\ ~Open(w, worker[w].msg)

(* It lets go of that message and the group still owes it. *)
LetsGo(w) ==
    /\ Closed(w)
    /\ \E m \in MessageIds : m = worker[w].msg /\ m \notin Held(w)' /\ Unacked(m)'

(* What a step of one worker does to what is open and free. *)
Passes(w) ==
    /\ OthersStay(w) /\ log' = log /\ LimitsStay
    /\ idle' \subseteq idle /\ Takes(w)
    /\ \A m \in MessageIds : Unacked(m)' => Unacked(m)
    /\ Closed(w) /\ Held(w)' \subseteq Held(w) =>
        \A m \in MessageIds : m = worker[w].msg => ~Open(w, m)'

LEMMA OpenIsHeld ==
    ASSUME NEW w
    PROVE  \A m : (Open(w, m) => m \in Held(w)) /\ (Open(w, m)' => m \in Held(w)')
BY DEF Open, Held, Attempting, HandlePoints

LEMMA OpenStays ==
    ASSUME TypeInv, NEW v \in Workers, worker'[v] = worker[v], LogGrows, LimitsStay, NEW m
    PROVE  Open(v, m)' <=> Open(v, m)
<1>1. ASSUME worker[v].pc \in Attempting PROVE Terminal(v)' <=> Terminal(v)
  <2>1. worker[v].msg \in MessageIds /\ JobOf(v) \in DOMAIN job
    BY <1>1, InHandType DEF Attempting, HandlePoints
  <2>2. JobOf(v)' = JobOf(v)
    BY <2>1 DEF LogGrows, JobOf
  <2> QED BY <2>1, <2>2 DEF Terminal, LimitsStay
<1> QED BY <1>1 DEF Open

LEMMA FreeMoves ==
    ASSUME TypeInv, NEW w \in Workers, Passes(w), NEW m \in MessageIds, Free(m)', ~Free(m),
           Open(w, m) => m \in Held(w)'
    PROVE  LetsGo(w) /\ m = worker[w].msg
<1>1. Unacked(m) /\ m \notin idle /\ InHand(m)
  BY DEF Free, Passes
<1>2. m \notin idle' /\ ~InHand(m)' /\ Unacked(m)'
  BY <1>1 DEF Free, Passes
<1>3. m \in Held(w) /\ m \notin Held(w)'
  BY <1>1, <1>2 DEF InHand, Passes, OthersStay, Held
<1>4. worker[w].pc \in HandlePoints /\ m = worker[w].msg /\ ~Open(w, m)
  BY <1>3 DEF Held, Open
<1> QED BY <1>2, <1>3, <1>4 DEF LetsGo, Closed

LEMMA OpenMoves ==
    ASSUME TypeInv, NEW w \in Workers, Passes(w), NEW m \in MessageIds, Open(w, m)', ~Open(w, m)
    PROVE  Free(m) /\ ~Free(m)'
<1>0. /\ idle \subseteq pel /\ last \in Nat /\ m \in Nat /\ pel \subseteq 1..last
      /\ \A v \in Workers : Held(v) \subseteq 1..last
  BY DEF TypeInv, TypeOK, StreamTypeOK, MessagesInHand, Held, MessageIds
<1>1. m \in Held(w)'
  BY OpenIsHeld
<1>2. ~(Held(w)' \subseteq Held(w))
  BY <1>1 DEF Passes, Closed, Open, Held
<1>3. InHand(m)'
  BY <1>1 DEF InHand
<1>4. CASE Held(w)' \subseteq idle /\ Held(w)' \cap idle' = {}
  BY <1>0, <1>1, <1>3, <1>4 DEF Free, Unacked
<1>5. CASE \A k \in Held(w)' : k \notin 1..last
  <2>1. m \notin 1..last /\ m \notin idle' /\ ~InHand(m)
    BY <1>0, <1>1, <1>5 DEF InHand, Passes
  <2>2. last < m
    BY <1>0, <2>1 DEF MessageIds
  <2> QED BY <1>3, <2>1, <2>2 DEF Free, Unacked
<1> QED BY <1>2, <1>4, <1>5 DEF Passes, Takes

(* Where a slot goes in such a step: to the worker that takes its message, or
   to nobody when it lets go. *)
Goes(w) ==
    [s \in (Workers \cup {Nobody}) \X MessageIds |->
        IF s[1] = w /\ s[2] \notin Held(w)' THEN <<Nobody, s[2]>>
        ELSE IF s[1] = Nobody /\ ~Free(s[2])' THEN <<w, s[2]>> ELSE s]

LEMMA SlotGoes ==
    ASSUME TypeInv, NEW w \in Workers, Passes(w), NEW id, NEW v, NEW m,
           <<v, m>> \in Slots(id)', ~(v = Nobody /\ m = worker[w].msg /\ LetsGo(w))
    PROVE  \E s \in Slots(id) : Goes(w)[s] = <<v, m>>
<1>0. /\ m \in MessageIds /\ log[m] = id /\ v \in Workers \cup {Nobody} /\ Nobody \notin Workers
      /\ IF v = Nobody THEN Free(m)' ELSE Open(v, m)'
  BY NobodyIsNone DEF Slots, Passes, MessageIds
<1>1. CASE v = Nobody
  <2>1. CASE Free(m)
    <3>1. <<v, m>> \in Slots(id)
      BY <1>0, <1>1, <2>1, SlotIs
    <3>2. Goes(w)[<<v, m>>] = <<v, m>>
      BY <1>0, <1>1 DEF Goes
    <3> QED BY <3>1, <3>2
  <2>2. CASE ~Free(m)
    <3>1. Open(w, m) /\ m \notin Held(w)'
      BY <1>0, <1>1, <2>2, FreeMoves
    <3>2. <<w, m>> \in Slots(id)
      BY <1>0, <3>1, SlotIs
    <3>3. Goes(w)[<<w, m>>] = <<v, m>>
      BY <1>0, <1>1, <3>1 DEF Goes
    <3> QED BY <3>2, <3>3
  <2> QED BY <2>1, <2>2
<1>2. CASE v = w
  <2>1. CASE Open(w, m)
    <3>1. <<v, m>> \in Slots(id)
      BY <1>0, <1>2, <2>1, SlotIs
    <3>2. Goes(w)[<<v, m>>] = <<v, m>>
      BY <1>0, <1>2, OpenIsHeld DEF Goes
    <3> QED BY <3>1, <3>2
  <2>2. CASE ~Open(w, m)
    <3>1. Free(m) /\ ~Free(m)'
      BY <1>0, <1>2, <2>2, OpenMoves
    <3>2. <<Nobody, m>> \in Slots(id)
      BY <1>0, <3>1, SlotIs
    <3>3. Goes(w)[<<Nobody, m>>] = <<v, m>>
      BY <1>0, <1>2, <3>1 DEF Goes
    <3> QED BY <3>2, <3>3
  <2> QED BY <2>1, <2>2
<1>3. CASE v \in Workers \ {w}
  <2>1. LogGrows /\ LimitsStay /\ worker'[v] = worker[v]
    BY <1>3 DEF Passes, LogGrows, MessageIds, OthersStay
  <2>2. Open(v, m)
    BY <1>0, <1>3, <2>1, OpenStays
  <2>3. <<v, m>> \in Slots(id)
    BY <1>0, <1>3, <2>2, SlotIs
  <2>4. Goes(w)[<<v, m>>] = <<v, m>>
    BY <1>0, <1>3 DEF Goes
  <2> QED BY <2>3, <2>4
<1> QED BY <1>0, <1>1, <1>2, <1>3

LEMMA SlotsPass ==
    ASSUME TypeInv, TypeInv', IsFiniteSet(Workers), NEW w \in Workers, Passes(w), NEW id
    PROVE  /\ Cardinality(Slots(id)') <= Cardinality(Slots(id)) + 1
           /\ ~LetsGo(w) => Cardinality(Slots(id)') <= Cardinality(Slots(id))
<1>0. IsFiniteSet(Slots(id)) /\ IsFiniteSet(Slots(id)')
  BY SlotsAre
<1>1. \A t \in Slots(id)' : \E v, m : t = <<v, m>>
  BY DEF Slots
<1>2. PICK g : g = Goes(w)
  OBVIOUS
<1>3. PICK e : e = <<Nobody, worker[w].msg>>
  OBVIOUS
<1>4. \A t \in Slots(id)' \ {e} : \E s \in Slots(id) : g[s] = t
  BY <1>1, <1>2, <1>3, SlotGoes
<1>5. ~LetsGo(w) => \A t \in Slots(id)' : \E s \in Slots(id) : g[s] = t
  BY <1>1, <1>2, SlotGoes
<1>6. Cardinality(Slots(id)' \ {e}) <= Cardinality(Slots(id))
  BY <1>0, <1>4, NoMore
<1>7. Cardinality(Slots(id)') <= Cardinality(Slots(id)) + 1
  BY <1>0, <1>6, OneMore
<1> QED BY <1>0, <1>5, <1>7, NoMore

-----------------------------------------------------------------------------
(* The steps of a worker pass slots on. *)
LEMMA WorkerOwes ==
    ASSUME TypeInv, NEW w \in Workers,
           WorkerStep(w) \/ WorkerFault(w) \/ Restart(w) \/ Ready(w)
    PROVE  log' = log /\ \A m \in MessageIds : Unacked(m)' => Unacked(m)
<1>0. /\ StreamTypeOK(DOMAIN job) /\ NoGroupNothingDelivered /\ WorkerConcurrency \in Nat
      /\ AboutTo(w) => worker[w].msg \in 1..last
  BY WorkerAssumption
     DEF TypeInv, TypeOK, MessagesInHand, AboutTo, AckPoints, HandlePoints
<1>2. \/ XGroupCreate \/ UNCHANGED streamVars
      \/ \E n \in Nat : XReadGroup(Undelivered(n))
      \/ \E got : XAutoClaim(got)
      \/ AboutTo(w) /\ XAck(worker[w].msg)
  BY <1>0
     DEF WorkerStep, WorkerFault, Restart, Ready, EnsureGroup, Reclaim, Read, Claim, AckSkip,
         Process, Succeed, Ack, Fail, AckFailed, CallFails, RedisReplyLost, DbReplyLost, Crash,
         Stop, AboutTo, AckPoints
<1>3. CASE AboutTo(w) /\ XAck(worker[w].msg)
  BY <1>0, <1>3, OwesLess
<1>4. CASE ~(AboutTo(w) /\ XAck(worker[w].msg))
  BY <1>0, <1>2, <1>4, OwesSame
<1> QED BY <1>3, <1>4

LEMMA WorkerAttempts ==
    ASSUME TypeInv, NEW w \in Workers,
           WorkerStep(w) \/ WorkerFault(w) \/ Restart(w) \/ Ready(w)
    PROVE  /\ DOMAIN job' = DOMAIN job /\ LimitsStay
           /\ \A id \in DOMAIN job :
                \/ job'[id].attempts = job[id].attempts
                \/ /\ id = JobOf(w) /\ worker[w].pc = "claim"
                   /\ job'[id].attempts = job[id].attempts + 1
                   /\ (Claim(w) \/ DbReplyLost(w))
<1> DEFINE Shape ==
           /\ DOMAIN job' = DOMAIN job /\ LimitsStay
           /\ \A id \in DOMAIN job :
                \/ job'[id].attempts = job[id].attempts
                \/ /\ id = JobOf(w) /\ worker[w].pc = "claim"
                   /\ job'[id].attempts = job[id].attempts + 1
                   /\ (Claim(w) \/ DbReplyLost(w))
<1>0. JobTypeOK /\ (worker[w].pc \in HandlePoints => JobOf(w) \in DOMAIN job)
  BY InHandType DEF TypeInv, TypeOK
<1>1. UNCHANGED job => Shape
  BY DEF LimitsStay
<1>2. ASSUME JobOf(w) \in DOMAIN job, MarkSucceeded(JobOf(w)) \/ MarkFailed(JobOf(w), Terminal(w))
      PROVE  Shape
  BY <1>0, <1>2 DEF MarkSucceeded, MarkFailed, LimitsStay, JobTypeOK, Row
<1>3. ASSUME worker[w].pc = "claim", MarkRunning(JobOf(w)), Claim(w) \/ DbReplyLost(w)
      PROVE  Shape
  BY <1>0, <1>3 DEF MarkRunning, LimitsStay, JobTypeOK, Row, HandlePoints
<1>g. Shape => /\ DOMAIN job' = DOMAIN job /\ LimitsStay
              /\ \A id \in DOMAIN job :
                   \/ job'[id].attempts = job[id].attempts
                   \/ /\ id = JobOf(w) /\ worker[w].pc = "claim"
                      /\ job'[id].attempts = job[id].attempts + 1
                      /\ (Claim(w) \/ DbReplyLost(w))
  OBVIOUS
<1> HIDE DEF Shape
<1>4. CASE Claim(w)
  <2>1. \/ UNCHANGED job
        \/ worker[w].pc = "claim" /\ MarkRunning(JobOf(w))
    BY <1>4 DEF Claim
  <2> QED BY <1>1, <1>3, <1>4, <1>g, <2>1
<1>5. CASE DbReplyLost(w)
  <2>1. \/ worker[w].pc = "claim" /\ MarkRunning(JobOf(w))
        \/ /\ worker[w].pc \in {"succeed", "fail"}
           /\ MarkSucceeded(JobOf(w)) \/ MarkFailed(JobOf(w), Terminal(w))
    BY <1>5 DEF DbReplyLost
  <2> QED BY <1>0, <1>2, <1>3, <1>5, <1>g, <2>1 DEF HandlePoints
<1>6. CASE Succeed(w) \/ Fail(w)
  <2>1. /\ worker[w].pc \in {"succeed", "fail"}
        /\ MarkSucceeded(JobOf(w)) \/ MarkFailed(JobOf(w), Terminal(w))
    BY <1>6 DEF Succeed, Fail
  <2> QED BY <1>0, <1>2, <1>g, <2>1 DEF HandlePoints
<1>7. CASE ~(Claim(w) \/ DbReplyLost(w) \/ Succeed(w) \/ Fail(w))
  <2>1. UNCHANGED job
    BY <1>7 DEF WorkerStep, WorkerFault, Restart, Ready, EnsureGroup, Reclaim, Read, AckSkip,
                Process, Ack, AckFailed, CallFails, RedisReplyLost, Crash, Stop
  <2> QED BY <1>1, <1>g, <2>1
<1> QED BY <1>4, <1>5, <1>6, <1>7

(* A worker that is past its claim, with no attempts left, stays so until it
   lets go; and it lets go only of what it acknowledged, unless it fails. *)
LEMMA ClosedStays ==
    ASSUME TypeInv, NEW w \in Workers, Closed(w), log' = log, LimitsStay,
           NEW pc \in {"succeed", "ack", "fail", "ackFailed"}, worker'[w].pc = pc,
           worker'[w].msg = worker[w].msg, worker'[w].rest = worker[w].rest,
           worker'[w].attempts = worker[w].attempts,
           worker[w].pc \in Attempting
    PROVE  \A m : m = worker[w].msg => m \in Held(w)' /\ ~Open(w, m)'
<1>1. JobOf(w) \in DOMAIN job /\ JobOf(w)' = JobOf(w)
  BY InHandType DEF JobOf, Attempting, HandlePoints
<1>2. Terminal(w)' <=> Terminal(w)
  BY <1>1 DEF Terminal, LimitsStay
<1> QED BY <1>2 DEF Closed, Open, Held, HandlePoints, Attempting

LEMMA WorkerCloses ==
    ASSUME TypeInv, NEW w \in Workers, Once(w), Closed(w), NEW m \in MessageIds,
           m = worker[w].msg,
           WorkerStep(w) \/ WorkerFault(w) \/ Restart(w) \/ Ready(w)
    PROVE  /\ Held(w)' \subseteq Held(w) => ~Open(w, m)'
           /\ faults' = faults => m \in Held(w)' \/ ~Unacked(m)'
<1>0. /\ WorkerTypeOK /\ worker[w] \in WorkerStates /\ log' = log /\ LimitsStay
      /\ worker[w].pc \in HandlePoints \ {"claim"} /\ m \notin worker[w].rest
      /\ worker[w].pc \in Attempting => Terminal(w)
      /\ StreamTypeOK(DOMAIN job) /\ m \in 1..last
      /\ faults \in Nat
  BY WorkerOwes, WorkerAttempts
     DEF TypeInv, TypeOK, WorkerTypeOK, Closed, Open, Once, MessagesInHand, FaultsTypeOK
<1>a. ASSUME m \notin Held(w)' PROVE ~Open(w, m)'
  BY <1>a, OpenIsHeld
<1>b. ASSUME NEW pc \in {"succeed", "ack", "fail", "ackFailed"}, Goto(w, pc),
             worker[w].pc \in Attempting
      PROVE  m \in Held(w)' /\ ~Open(w, m)'
  BY <1>0, <1>b, GotoFacts, ClosedStays
<1>c. ASSUME NEW pc \in LoopPoints \cup EndPoints, Ends(w, pc) PROVE ~Open(w, m)'
  <2>1. m \notin Held(w)'
    BY <1>0, <1>c, EndsHolds
  <2> QED BY <1>a, <2>1
<1>d. Raise(w) => ~Open(w, m)'
  BY <1>b, <1>c DEF Raise, EndPoints, Attempting
<1>e. \A f : Spend(f) => faults' # faults
  BY <1>0 DEF Spend
<1>1. CASE AckSkip(w) \/ Ack(w) \/ AckFailed(w)
  <2>1. XAck(m) /\ NextMessage(w)
    BY <1>1 DEF AckSkip, Ack, AckFailed
  <2>2. m \notin Held(w)'
    BY <1>0, <2>1, NextHolds
  <2> QED BY <1>0, <1>a, <2>1, <2>2, OwesLess
<1>2. CASE Process(w) \/ Succeed(w)
  BY <1>b, <1>2 DEF Process, Succeed, Attempting
<1>3. CASE Fail(w)
  BY <1>0, <1>b, <1>3 DEF Fail, Attempting
<1>4. CASE CallFails(w) \/ DbReplyLost(w) \/ RedisReplyLost(w)
  BY <1>d, <1>e, <1>4 DEF CallFails, DbReplyLost, RedisReplyLost
<1>5. CASE Crash(w)
  BY <1>c, <1>e, <1>5 DEF Crash, EndPoints
<1>6. CASE Stop(w)
  <2> DEFINE s == [worker[w] EXCEPT !.running = FALSE]
  <2>1. /\ worker' = [worker EXCEPT ![w] = s] /\ s.rest = worker[w].rest
        /\ s.msg = worker[w].msg /\ s.pc = worker[w].pc /\ s.attempts = worker[w].attempts
    BY <1>0, <1>6 DEF WorkerStates, Stop
  <2> HIDE DEF s
  <2>2. /\ worker'[w].rest = worker[w].rest /\ worker'[w].msg = worker[w].msg
        /\ worker'[w].pc = worker[w].pc /\ worker'[w].attempts = worker[w].attempts
    BY <1>0, <2>1 DEF WorkerTypeOK
  <2>3. Terminal(w)' <=> Terminal(w)
    <3>1. JobOf(w) \in DOMAIN job /\ JobOf(w)' = JobOf(w)
      BY <1>0, <2>2, InHandType DEF JobOf
    <3> QED BY <1>0, <2>2, <3>1 DEF Terminal, LimitsStay
  <2>4. ~Open(w, m)'
    BY <1>0, <2>2, <2>3 DEF Open
  <2> QED BY <1>e, <1>6, <2>4 DEF Stop
<1>7. CASE Ready(w)
  <2>1. UNCHANGED <<job, worker>>
    BY <1>7 DEF Ready
  <2>2. m \in Held(w)' /\ (Terminal(w)' <=> Terminal(w))
    BY <1>0, <2>1 DEF Held, Terminal, JobOf
  <2> QED BY <1>0, <2>1, <2>2 DEF Open
<1>8. ~(EnsureGroup(w) \/ Reclaim(w) \/ Read(w) \/ Claim(w) \/ Restart(w))
  BY <1>0 DEF EnsureGroup, Reclaim, Read, Claim, Restart, HandlePoints
<1> QED BY <1>1, <1>2, <1>3, <1>4, <1>5, <1>6, <1>7, <1>8 DEF WorkerStep, WorkerFault

LEMMA WorkerPasses ==
    ASSUME TypeInv, NEW w \in Workers, Once(w),
           WorkerStep(w) \/ WorkerFault(w) \/ Restart(w) \/ Ready(w)
    PROVE  Passes(w) /\ (faults' = faults => ~LetsGo(w))
<1>1. /\ OthersStay(w) /\ log' = log /\ LimitsStay /\ idle' \subseteq idle /\ Takes(w)
      /\ \A m \in MessageIds : Unacked(m)' => Unacked(m)
  BY WorkerHolds, WorkerOwes, WorkerAttempts
<1>2. Closed(w) /\ Held(w)' \subseteq Held(w) =>
        \A m \in MessageIds : m = worker[w].msg => ~Open(w, m)'
  BY WorkerCloses
<1>3. faults' = faults => ~LetsGo(w)
  BY WorkerCloses DEF LetsGo
<1> QED BY <1>1, <1>2, <1>3 DEF Passes

(* A claim takes the slot of its message, when the attempt is the last one. *)
LEMMA ClaimSpends ==
    ASSUME TypeInv, TypeInv', IsFiniteSet(Workers), NEW w \in Workers, Once(w), Claim(w),
           NEW id, id = JobOf(w), job'[id].attempts = job[id].attempts + 1,
           job'[id].attempts >= job[id].maxAttempts
    PROVE  Cardinality(Slots(id)') <= Cardinality(Slots(id)) - 1
<1>0. /\ WorkerTypeOK /\ worker[w] \in WorkerStates /\ JobTypeOK /\ id \in DOMAIN job
      /\ worker[w].msg \in MessageIds
  BY InHandType DEF TypeInv, TypeOK, WorkerTypeOK, Claim, HandlePoints
<1>1. PICK n : n = job[id].attempts + 1
  OBVIOUS
<1>2. worker' = [worker EXCEPT ![w].pc = "process", ![w].attempts = n]
  <2>1. ~UNCHANGED job
    BY <1>0 DEF JobTypeOK, Row
  <2> QED BY <1>1, <2>1 DEF Claim
<1> DEFINE t == [worker[w] EXCEPT !.pc = "process", !.attempts = n]
<1>3. /\ worker' = [worker EXCEPT ![w] = t] /\ t.pc = "process" /\ t.attempts = n
      /\ t.msg = worker[w].msg /\ t.rest = worker[w].rest
  BY <1>0, <1>2 DEF WorkerStates
<1> HIDE DEF t
<1>4. /\ worker'[w].pc = "process" /\ worker'[w].attempts = n /\ OthersStay(w)
      /\ worker'[w].msg = worker[w].msg /\ worker'[w].rest = worker[w].rest
  BY <1>0, <1>3 DEF WorkerTypeOK, OthersStay
<1>5. LimitsStay /\ UNCHANGED streamVars /\ LogGrows /\ MessageIds' = MessageIds
  BY WorkerAttempts DEF Claim, WorkerStep, LogGrows, MessageIds, streamVars
<1>6. PICK k \in MessageIds : k = worker[w].msg
  BY <1>0
<1>7. Terminal(w)'
  <2>1. JobOf(w)' = id
    BY <1>4, <1>5 DEF JobOf, streamVars
  <2> QED BY <1>0, <1>1, <1>4, <1>5, <2>1 DEF Terminal, LimitsStay
<1>8. Open(w, k) /\ ~Open(w, k)' /\ \A m : Open(w, m)' => Open(w, m)
  BY <1>4, <1>6, <1>7 DEF Open, Claim, Once, HandlePoints
<1>9. \A v \in Workers : Held(v)' = Held(v)
  BY <1>4 DEF OthersStay, Held, Claim, HandlePoints
<1>10. \A m : Free(m)' <=> Free(m)
  BY <1>5, <1>9 DEF Free, InHand, Unacked, MessageIds, streamVars
<1>11. <<w, k>> \in Slots(id) /\ <<w, k>> \notin Slots(id)'
  <2>1. log[k] = id /\ w # Nobody
    BY <1>6, NobodyIsNone DEF JobOf
  <2> QED BY <1>8, <2>1 DEF Slots
<1>12. Slots(id)' \subseteq Slots(id)
  <2>1. \A v \in Workers \ {w} : \A m : Open(v, m)' <=> Open(v, m)
    BY <1>4, <1>5, OpenStays DEF OthersStay
  <2> QED BY <1>5, <1>8, <1>10, <2>1 DEF Slots, streamVars
<1>13. PICK S : S = Slots(id)
  OBVIOUS
<1>14. PICK T : T = Slots(id)'
  OBVIOUS
<1>15. IsFiniteSet(S) /\ Cardinality(S \ {<<w, k>>}) = Cardinality(S) - 1
  BY <1>11, <1>13, SlotsAre, FS_RemoveElement
<1>16. T \in SUBSET (S \ {<<w, k>>}) /\ IsFiniteSet(S \ {<<w, k>>})
  BY <1>11, <1>12, <1>13, <1>14, <1>15, FS_RemoveElement
<1>17. Cardinality(T) <= Cardinality(S \ {<<w, k>>})
  BY <1>16, FS_Subset
<1> QED BY <1>13, <1>14, <1>15, <1>17

LEMMA WorkerBudget ==
    ASSUME TypeInv, TypeInv', IsFiniteSet(Workers), NEW w \in Workers, Once(w),
           WorkerStep(w) \/ WorkerFault(w) \/ Restart(w) \/ Ready(w),
           NEW id \in DOMAIN job, Budget(id)
    PROVE  Budget(id)'
<1>0. /\ LimitsStay /\ faults \in Nat /\ faults' \in {faults, faults + 1}
      /\ WorkerStep(w) => faults' = faults
      /\ DbReplyLost(w) => faults' = faults + 1
  <2>1. faults \in Nat
    BY DEF TypeInv, TypeOK, FaultsTypeOK
  <2>2. LimitsStay
    BY WorkerAttempts
  <2>3. WorkerStep(w) \/ Restart(w) \/ Ready(w) => faults' = faults
    BY DEF WorkerStep, Restart, Ready, EnsureGroup, Reclaim, Read, Claim, AckSkip, Process,
           Succeed, Ack, Fail, AckFailed
  <2>4. WorkerFault(w) => \E f : Spend(f)
    BY DEF WorkerFault, CallFails, RedisReplyLost, DbReplyLost, Crash, Stop
  <2>5. DbReplyLost(w) => Spend("dbReply")
    BY DEF DbReplyLost
  <2>6. \A f : Spend(f) => faults' = faults + 1
    BY DEF Spend
  <2> QED BY <2>1, <2>2, <2>3, <2>4, <2>5, <2>6
<1>1. /\ Cardinality(Slots(id)') <= Cardinality(Slots(id)) + 1
      /\ ~LetsGo(w) => Cardinality(Slots(id)') <= Cardinality(Slots(id))
      /\ faults' = faults => ~LetsGo(w)
  BY WorkerPasses, SlotsPass
<1>2. CASE job'[id].attempts = job[id].attempts
  BY <1>0, <1>1, <1>2, BudgetKept
<1>3. CASE /\ id = JobOf(w) /\ worker[w].pc = "claim"
           /\ job'[id].attempts = job[id].attempts + 1
           /\ Claim(w) \/ DbReplyLost(w)
  <2>1. ~LetsGo(w)
    BY <1>3 DEF LetsGo, Closed, Open
  <2>2. CASE DbReplyLost(w)
    BY <1>0, <1>1, <1>3, <2>1, <2>2, BudgetSpent
  <2>3. CASE Claim(w)
    <3>1. faults' = faults
      BY <1>0, <2>3 DEF WorkerStep
    <3> QED BY <1>0, <1>1, <1>3, <2>1, <2>3, <3>1, ClaimSpends, BudgetSpent
  <2> QED BY <1>3, <2>2, <2>3
<1> QED BY <1>2, <1>3, WorkerAttempts

-----------------------------------------------------------------------------
(* Steps of the others.  No row of theirs is one that was there. *)
RowsStay == \A id \in DOMAIN job : id \in DOMAIN job' /\ job'[id] = job[id]

LEMMA QuietBudget ==
    ASSUME TypeInv, TypeInv', IsFiniteSet(Workers), UNCHANGED worker, log' = log, RowsStay,
           \A m \in MessageIds : Unacked(m)' => Unacked(m),
           faults' \in {faults, faults + 1},
           \/ idle' \subseteq idle
           \/ \E m \in MessageIds :
                idle' = idle \cup {m} /\ (InHand(m) => faults' = faults + 1),
           NEW id \in DOMAIN job, Budget(id)
    PROVE  Budget(id)'
<1>0. /\ LimitsStay /\ LogGrows /\ MessageIds' = MessageIds
      /\ job'[id].attempts = job[id].attempts
  BY DEF LimitsStay, RowsStay, LogGrows, MessageIds
<1>1. \A v \in Workers : \A m : Open(v, m)' <=> Open(v, m)
  BY <1>0, OpenStays
<1>2. \A m : InHand(m)' <=> InHand(m)
  BY DEF InHand, Held
<1>3. IsFiniteSet(Slots(id)) /\ IsFiniteSet(Slots(id)')
  BY SlotsAre
<1>4. PICK S : S = Slots(id)
  OBVIOUS
<1>5. PICK T : T = Slots(id)'
  OBVIOUS
<1>6. CASE \A m \in MessageIds : Free(m)' => Free(m)
  <2>1. T \in SUBSET S
    BY <1>0, <1>1, <1>4, <1>5, <1>6 DEF Slots
  <2>2. Cardinality(T) <= Cardinality(S)
    BY <1>3, <1>4, <2>1, FS_Subset
  <2> QED BY <1>0, <1>4, <1>5, <2>2, BudgetKept
<1>7. ASSUME NEW n \in MessageIds, idle' = idle \cup {n}, InHand(n), faults' = faults + 1
      PROVE  Budget(id)'
  <2>1. \A m \in MessageIds : Free(m)' => Free(m) \/ m = n
    BY <1>2, <1>7 DEF Free
  <2>2. PICK e : e = <<Nobody, n>>
    OBVIOUS
  <2>3. T \ {e} \in SUBSET S
    <3>1. ASSUME NEW t \in Slots(id)', t # e PROVE t \in Slots(id)
      <4>1. /\ t \in (Workers \cup {Nobody}) \X MessageIds /\ log[t[2]] = id
            /\ t = <<t[1], t[2]>>
            /\ IF t[1] = Nobody THEN Free(t[2])' ELSE Open(t[1], t[2])'
        BY <1>0 DEF Slots
      <4>2. t[1] = Nobody => Free(t[2])
        BY <2>1, <2>2, <3>1, <4>1
      <4> QED BY <1>1, <4>1, <4>2 DEF Slots
    <3> QED BY <1>4, <1>5, <3>1
  <2>4. Cardinality(T \ {e}) <= Cardinality(S)
    BY <1>3, <1>4, <2>3, FS_Subset
  <2>5. Cardinality(T) <= Cardinality(S) + 1
    BY <1>3, <1>4, <1>5, <2>4, OneMore
  <2> QED BY <1>0, <1>4, <1>5, <1>7, <2>5, BudgetKept
<1>8. CASE idle' \subseteq idle
  BY <1>2, <1>6, <1>8 DEF Free
<1>9. ASSUME NEW n \in MessageIds, idle' = idle \cup {n}, ~InHand(n)
      PROVE  Budget(id)'
  BY <1>2, <1>6, <1>9 DEF Free
<1> QED BY <1>7, <1>8, <1>9

(* A request inserts its row, then adds its message and is done. *)
Adds(r) ==
    /\ request[r].pc = "add" /\ request'[r].pc \notin OpenPoints /\ job' = job
    /\ \/ XAdd(r) /\ faults' \in {faults, faults + 1}
       \/ XAddTwice(r) /\ faults' = faults + 1

AddsNothing(r) ==
    /\ XGroupCreate \/ UNCHANGED streamVars
    /\ \/ job' = job
       \/ /\ r \notin DOMAIN job
          /\ \E row : Insert(r, row) /\ row.attempts = 0 /\ row.maxAttempts \in AttemptLimits

LEMMA RequestDoes ==
    ASSUME TypeInv, NEW r \in Requests, RequestStep(r) \/ RequestFault(r)
    PROVE  /\ Adds(r) \/ AddsNothing(r)
           /\ faults' \in {faults, faults + 1}
           /\ \A s \in Requests \ {r} : request'[s] = request[s]
           /\ request[r].pc \in OpenPoints
<1>0. /\ RequestTypeOK /\ request[r] \in RequestStates
      /\ request[r].pc \in BeforeInsert => r \notin DOMAIN job
      /\ Body(r).maxAttempts \in AttemptLimits
  BY BodiesAssumption
     DEF TypeInv, TypeOK, ServiceTypeOK, RequestTypeOK, RequestStates, Body, RowsOfRequests
<1>a. ASSUME NEW pc, Move(r, pc)
      PROVE  request'[r].pc = pc
  BY <1>0, <1>a DEF Move, RequestTypeOK, RequestStates
<1>b. ASSUME NEW id, Accept(r, id)
      PROVE  request'[r].pc = "accepted"
  <2>1. PICK t : t = [request[r] EXCEPT !.pc = "accepted", !.job = id]
    OBVIOUS
  <2>2. request' = [request EXCEPT ![r] = t] /\ t.pc = "accepted"
    BY <1>0, <1>b, <2>1 DEF Accept, RequestStates
  <2> QED BY <1>0, <2>2 DEF RequestTypeOK
<1>c. \A f : Spend(f) => faults' = faults + 1
  BY DEF Spend
<1>1. faults' \in {faults, faults + 1} /\ request[r].pc \in OpenPoints
  BY <1>c DEF RequestStep, RequestFault, AssertQueueReady, FindExisting, GetCached, InsertCached,
              InsertQueued, UniqueViolation, EnsureConsumerGroup, Enqueue, RequestFails,
              RequestReplyLost, OpenPoints
<1>2. \A s \in Requests \ {r} : request'[s] = request[s]
  BY <1>0 DEF RequestStep, RequestFault, AssertQueueReady, FindExisting, GetCached, InsertCached,
              InsertQueued, UniqueViolation, EnsureConsumerGroup, Enqueue, RequestFails,
              RequestReplyLost, Move, Accept, RequestTypeOK
<1>3. CASE Enqueue(r)
  <2>1. request'[r].pc \notin OpenPoints
    BY <1>3, <1>b DEF Enqueue, OpenPoints
  <2> QED BY <1>1, <1>2, <1>3, <1>c, <2>1 DEF Enqueue, Adds
<1>4. CASE RequestReplyLost(r) /\ request[r].pc = "add"
  <2>1. request'[r].pc \notin OpenPoints
    BY <1>4, <1>a DEF RequestReplyLost, OpenPoints
  <2> QED BY <1>1, <1>2, <1>4, <1>c, <2>1 DEF RequestReplyLost, Adds
<1>5. CASE ~Enqueue(r) /\ ~(RequestReplyLost(r) /\ request[r].pc = "add")
  <2>1. XGroupCreate \/ UNCHANGED streamVars
    BY <1>5 DEF RequestStep, RequestFault, AssertQueueReady, FindExisting, GetCached,
                InsertCached, InsertQueued, UniqueViolation, EnsureConsumerGroup, RequestFails,
                RequestReplyLost
  <2>2. \/ job' = job
        \/ /\ request[r].pc \in {"cached", "insert"}
           /\ CreateQueued(r, Body(r)) \/ CreateSucceeded(r, Body(r), request[r].value)
    BY <1>5 DEF RequestStep, RequestFault, AssertQueueReady, FindExisting, GetCached,
                InsertCached, InsertQueued, UniqueViolation, EnsureConsumerGroup, RequestFails,
                RequestReplyLost
  <2>3. CASE /\ request[r].pc \in {"cached", "insert"}
             /\ CreateQueued(r, Body(r)) \/ CreateSucceeded(r, Body(r), request[r].value)
    <3>1. r \notin DOMAIN job
      BY <1>0, <2>3 DEF BeforeInsert
    <3>2. \E row : Insert(r, row) /\ row.attempts = 0 /\ row.maxAttempts \in AttemptLimits
      BY <1>0, <2>3 DEF CreateQueued, CreateSucceeded
    <3> QED BY <1>1, <1>2, <2>1, <3>1, <3>2 DEF AddsNothing
  <2> QED BY <1>1, <1>2, <2>1, <2>2, <2>3 DEF AddsNothing
<1> QED BY <1>3, <1>4, <1>5

(* Its message is a slot that is paid for by the row's being new. *)
LEMMA NewSlots ==
    ASSUME TypeInv, TypeInv', NotYetAdded, UNCHANGED worker, NEW r \in DOMAIN job, Adds(r)
    PROVE  /\ XAdd(r) => \E e : Slots(r)' \subseteq {e}
           /\ XAddTwice(r) => \E e, f : Slots(r)' \subseteq {e, f}
<1>0. /\ StreamTypeOK(DOMAIN job) /\ r \in Requests /\ Len(log) \in Nat
      /\ \A v \in Workers : Held(v) \subseteq MessageIds
      /\ \A m \in MessageIds : log[m] # r
  <2>1. StreamTypeOK(DOMAIN job) /\ DOMAIN job \subseteq Requests /\ Len(log) \in Nat
        /\ last \in Nat /\ last <= Len(log)
    BY DEF TypeInv, TypeOK, JobTypeOK, StreamTypeOK
  <2>2. \A v \in Workers : Held(v) \subseteq MessageIds
    BY <2>1 DEF TypeInv, MessagesInHand, Held, MessageIds
  <2> QED BY <2>1, <2>2 DEF NotYetAdded, Adds, OpenPoints
<1>1. \A m \in MessageIds : m \in MessageIds' /\ log'[m] = log[m]
  BY <1>0, OwesMore DEF Adds
<1>2. PICK n \in Nat : n = Len(log)
  BY <1>0
<1>3. ASSUME NEW t \in Slots(r)'
      PROVE  \E m \in MessageIds' : m > n /\ t = <<Nobody, m>>
  <2>1. /\ t \in (Workers \cup {Nobody}) \X MessageIds' /\ log'[t[2]] = r
        /\ t = <<t[1], t[2]>>
        /\ IF t[1] = Nobody THEN Free(t[2])' ELSE Open(t[1], t[2])'
    BY DEF Slots
  <2>2. t[2] \notin MessageIds
    BY <1>0, <1>1, <2>1
  <2>3. t[1] = Nobody
    <3>1. SUFFICES ASSUME t[1] # Nobody PROVE FALSE
      OBVIOUS
    <3>2. t[1] \in Workers /\ t[2] \in Held(t[1])'
      BY <2>1, <3>1, OpenIsHeld
    <3>3. Held(t[1])' = Held(t[1])
      BY DEF Held
    <3> QED BY <1>0, <2>2, <3>2, <3>3
  <2>4. t[2] > n
    BY <1>0, <1>2, <2>1, <2>2 DEF MessageIds
  <2> QED BY <2>1, <2>3, <2>4
<1>4. ASSUME XAdd(r) PROVE Slots(r)' \subseteq {<<Nobody, n + 1>>}
  <2>1. Len(log') = n + 1
    BY <1>0, <1>2, <1>4 DEF XAdd, StreamTypeOK
  <2>2. \A m \in MessageIds' : m > n => m = n + 1
    BY <2>1 DEF MessageIds
  <2> QED BY <1>3, <2>2
<1>5. ASSUME XAddTwice(r) PROVE Slots(r)' \subseteq {<<Nobody, n + 1>>, <<Nobody, n + 2>>}
  <2>1. Len(log') = n + 2
    BY <1>0, <1>2, <1>5 DEF XAddTwice, StreamTypeOK
  <2>2. \A m \in MessageIds' : m > n => m = n + 1 \/ m = n + 2
    BY <2>1 DEF MessageIds
  <2> QED BY <1>3, <2>2
<1> QED BY <1>4, <1>5

LEMMA AddsBudget ==
    ASSUME TypeInv, TypeInv', IsFiniteSet(Workers), NotYetAdded, UNCHANGED worker,
           NEW r \in DOMAIN job, Adds(r), NEW id \in DOMAIN job, Budget(id)
    PROVE  Budget(id)'
<1>0. /\ StreamTypeOK(DOMAIN job) /\ faults \in Nat /\ faults' \in {faults, faults + 1}
      /\ IsFiniteSet(Slots(id)) /\ IsFiniteSet(Slots(id)')
      /\ Cardinality(Slots(id)') \in Nat
      /\ job' = job /\ idle' = idle
  BY SlotsAre DEF TypeInv, TypeOK, FaultsTypeOK, Adds, XAdd, XAddTwice
<1>1. CASE id = r
  <2>1. job[id].attempts = 0 /\ job[id].maxAttempts \in 1..10
    BY <1>1 DEF NotYetAdded, Adds, OpenPoints, TypeInv, TypeOK, JobTypeOK, Row, AttemptLimits
  <2>2. PICK T : T = Slots(id)'
    OBVIOUS
  <2>3. ASSUME NEW e, T \subseteq {e} PROVE Cardinality(T) <= 1
    <3>1. IsFiniteSet({e}) /\ Cardinality({e}) = 1
      BY FS_Singleton
    <3> QED BY <2>3, <3>1, FS_Subset
  <2>4. ASSUME NEW e, NEW f, T \subseteq {e, f} PROVE Cardinality(T) <= 2
    <3>1. IsFiniteSet({e}) /\ Cardinality({e}) = 1
      BY FS_Singleton
    <3>2. T \ {f} \in SUBSET {e}
      BY <2>4
    <3>3. Cardinality(T \ {f}) <= Cardinality({e})
      BY <3>1, <3>2, FS_Subset
    <3>4. Cardinality(T) <= Cardinality({e}) + 1
      BY <1>0, <2>2, <3>1, <3>3, OneMore
    <3> QED BY <3>1, <3>4
  <2>5. Cardinality(T) <= 1 + faults'
    <3>1. \/ Cardinality(T) <= 1
          \/ Cardinality(T) <= 2 /\ faults' = faults + 1
      BY <1>1, <2>2, <2>3, <2>4, NewSlots DEF Adds
    <3> QED BY <1>0, <2>2, <3>1
  <2> QED BY <1>0, <2>1, <2>2, <2>5 DEF Budget
<1>2. CASE id # r
  <2>1. /\ \A m \in MessageIds : m \in MessageIds' /\ log'[m] = log[m]
        /\ \A m \in MessageIds : Unacked(m)' <=> Unacked(m)
        /\ \A m \in MessageIds' \ MessageIds : log'[m] = r
    BY <1>0, OwesMore DEF Adds
  <2>2. \A v \in Workers : \A m : Open(v, m)' <=> Open(v, m)
    BY <1>0, <2>1, OpenStays DEF LogGrows, LimitsStay
  <2>3. \A m \in MessageIds : Free(m)' <=> Free(m)
    BY <1>0, <2>1 DEF Free, InHand, Held
  <2>4. Slots(id)' \in SUBSET Slots(id)
    <3>1. ASSUME NEW t \in Slots(id)' PROVE t \in Slots(id)
      <4>1. /\ t \in (Workers \cup {Nobody}) \X MessageIds' /\ log'[t[2]] = id
            /\ IF t[1] = Nobody THEN Free(t[2])' ELSE Open(t[1], t[2])'
        BY DEF Slots
      <4>2. t[2] \in MessageIds
        BY <1>2, <2>1, <4>1
      <4> QED BY <2>1, <2>2, <2>3, <4>1, <4>2 DEF Slots
    <3> QED BY <3>1
  <2>5. Cardinality(Slots(id)') <= Cardinality(Slots(id))
    <3>1. PICK S : S = Slots(id)
      OBVIOUS
    <3>2. PICK T : T = Slots(id)'
      OBVIOUS
    <3> QED BY <1>0, <2>4, <3>1, <3>2, FS_Subset
  <2> QED BY <1>0, <2>5, BudgetKept DEF LimitsStay
<1> QED BY <1>1, <1>2

LEMMA RequestAttemptInv ==
    ASSUME TypeInv, TypeInv', IsFiniteSet(Workers), AttemptInv, NEW r \in Requests,
           RequestStep(r) \/ RequestFault(r), UNCHANGED worker
    PROVE  AttemptInv'
<1>0. /\ Adds(r) \/ AddsNothing(r)
      /\ faults' \in {faults, faults + 1}
      /\ \A s \in Requests \ {r} : request'[s] = request[s]
      /\ request[r].pc \in OpenPoints
      /\ StreamTypeOK(DOMAIN job) /\ NoGroupNothingDelivered /\ JobTypeOK
      /\ request[r].pc = "add" => r \in DOMAIN job
  BY RequestDoes DEF TypeInv, TypeOK, RowsOfRequests, AfterInsert
<1>1. \A w \in Workers : Once(w)'
  BY DEF AttemptInv, Once
<1>2. CASE Adds(r)
  <2>1. r \in DOMAIN job /\ job' = job
    BY <1>0, <1>2 DEF Adds
  <2>2. NotYetAdded'
    <3>1. /\ \A m \in MessageIds : log'[m] = log[m]
          /\ \A m \in MessageIds' \ MessageIds : log'[m] = r
      BY <1>0, <1>2, <2>1, OwesMore DEF Adds
    <3> QED BY <1>0, <1>2, <2>1, <3>1 DEF Adds, AttemptInv, NotYetAdded
  <2>3. \A id \in DOMAIN job' : Budget(id)'
    BY <1>2, <2>1, AddsBudget DEF AttemptInv
  <2> QED BY <1>1, <2>2, <2>3 DEF AttemptInv
<1>3. CASE AddsNothing(r)
  <2>1. /\ log' = log /\ MessageIds' = MessageIds /\ idle' = idle
        /\ \A m \in MessageIds : Unacked(m)' => Unacked(m)
    <3>1. log' = log /\ \A m \in MessageIds : Unacked(m)' <=> Unacked(m)
      BY <1>0, <1>3, OwesSame DEF AddsNothing
    <3> QED BY <1>3, <3>1 DEF AddsNothing, MessageIds, XGroupCreate, streamVars
  <2>2. /\ RowsStay
        /\ \A id \in DOMAIN job' \ DOMAIN job :
            /\ id = r /\ job'[id].attempts = 0 /\ job'[id].maxAttempts \in 1..10
    BY <1>3 DEF AddsNothing, RowsStay, Insert, AttemptLimits
  <2>3. NotYetAdded'
    BY <1>0, <2>1, <2>2 DEF AttemptInv, NotYetAdded, RowsStay
  <2>4. \A id \in DOMAIN job : Budget(id)'
    BY <1>0, <2>1, <2>2, QuietBudget DEF AttemptInv
  <2>5. ASSUME NEW id \in DOMAIN job' \ DOMAIN job PROVE Budget(id)'
    <3>1. Slots(id)' = {}
      <4>1. \A m \in MessageIds : log[m] \in DOMAIN job
        BY <1>0 DEF StreamTypeOK, MessageIds
      <4> QED BY <2>1, <2>5, <4>1 DEF Slots
    <3>2. Cardinality(Slots(id)') = 0
      BY <3>1, FS_EmptySet
    <3>3. faults' \in Nat
      BY DEF TypeInv, TypeOK, FaultsTypeOK
    <3> QED BY <2>2, <2>5, <3>2, <3>3 DEF Budget
  <2> QED BY <1>1, <2>3, <2>4, <2>5 DEF AttemptInv
<1> QED BY <1>0, <1>2, <1>3

LEMMA WorkerAttemptInv ==
    ASSUME TypeInv, TypeInv', IsFiniteSet(Workers), AttemptInv, NEW w \in Workers,
           WorkerStep(w) \/ WorkerFault(w) \/ Restart(w) \/ Ready(w), UNCHANGED serviceVars
    PROVE  AttemptInv'
<1>1. \A v \in Workers : Once(v)'
  <2>1. OthersStay(w) /\ Once(w)'
    BY WorkerHolds DEF AttemptInv
  <2> QED BY <2>1 DEF AttemptInv, OthersStay, Once
<1>2. /\ DOMAIN job' = DOMAIN job /\ log' = log /\ MessageIds' = MessageIds
      /\ \A id \in DOMAIN job :
            \/ job'[id].attempts = job[id].attempts
            \/ id = JobOf(w) /\ worker[w].msg \in MessageIds
  BY WorkerOwes, WorkerAttempts, InHandType DEF MessageIds, HandlePoints
<1>3. NotYetAdded'
  BY <1>2 DEF AttemptInv, NotYetAdded, serviceVars, JobOf
<1>4. \A id \in DOMAIN job' : Budget(id)'
  BY <1>2, WorkerBudget DEF AttemptInv
<1> QED BY <1>1, <1>3, <1>4 DEF AttemptInv

LEMMA QuietAttemptInv ==
    ASSUME TypeInv, TypeInv', IsFiniteSet(Workers), AttemptInv,
           UNCHANGED <<job, worker>>, request' = request, log' = log,
           \A m \in MessageIds : Unacked(m)' => Unacked(m),
           faults' \in {faults, faults + 1},
           \/ idle' \subseteq idle
           \/ \E m \in MessageIds :
                idle' = idle \cup {m} /\ (InHand(m) => faults' = faults + 1)
    PROVE  AttemptInv'
<1>1. \A w \in Workers : Once(w)'
  BY DEF AttemptInv, Once
<1>2. NotYetAdded'
  BY DEF AttemptInv, NotYetAdded, MessageIds
<1>3. \A id \in DOMAIN job' : Budget(id)'
  BY QuietBudget DEF AttemptInv, RowsStay
<1> QED BY <1>1, <1>2, <1>3 DEF AttemptInv

LEMMA InitAttemptInv == Init => AttemptInv
<1> SUFFICES ASSUME Init PROVE AttemptInv
  OBVIOUS
<1>1. DOMAIN job = {} /\ MessageIds = {} /\ \A w \in Workers : worker[w].pc = "start"
  BY DEF Init, JobInit, StreamInit, MessageIds, WorkerInit, At
<1> QED BY <1>1 DEF AttemptInv, NotYetAdded, Once, HandlePoints

LEMMA NextAttemptInv ==
    ASSUME TypeInv, TypeInv', IsFiniteSet(Workers), AttemptInv, [Next]_vars
    PROVE  AttemptInv'
<1>0. StreamTypeOK(DOMAIN job) /\ NoGroupNothingDelivered
  BY DEF TypeInv, TypeOK
<1>1. CASE \E r \in Requests : (RequestStep(r) \/ RequestFault(r)) /\ UNCHANGED worker
  BY <1>1, RequestAttemptInv
<1>2. CASE \E w \in Workers :
            /\ WorkerStep(w) \/ WorkerFault(w) \/ Restart(w) \/ Ready(w)
            /\ UNCHANGED serviceVars
  BY <1>2, WorkerAttemptInv
<1>3. CASE \/ \E u \in Users : PollStep(u) /\ UNCHANGED worker
           \/ \E k \in CacheKeys : ExpireCache(k) /\ UNCHANGED worker
           \/ UNCHANGED vars
  <2>1. /\ UNCHANGED <<job, worker>> /\ request' = request /\ UNCHANGED streamVars
        /\ faults' \in {faults, faults + 1}
    BY <1>3 DEF PollStep, GetJob, CacheJobResult, NothingCached, ExpireCache, Spend, vars,
                serviceVars
  <2>2. log' = log /\ idle' = idle /\ \A m \in MessageIds : Unacked(m)' <=> Unacked(m)
    BY <1>0, <2>1, OwesSame DEF streamVars
  <2> QED BY <2>1, <2>2, QuietAttemptInv
<1>4. ASSUME NEW m \in MessageIds, ClaimIdlePasses(m), UNCHANGED serviceVars
      PROVE  AttemptInv'
  <2>1. /\ UNCHANGED <<job, worker>> /\ request' = request /\ GoesIdle(m)
        /\ faults' \in {faults, faults + 1} /\ (InHand(m) => faults' = faults + 1)
    BY <1>4 DEF ClaimIdlePasses, Spend, serviceVars
  <2>2. log' = log /\ idle' = idle \cup {m} /\ \A n \in MessageIds : Unacked(n)' <=> Unacked(n)
    BY <1>0, <2>1, OwesSame DEF GoesIdle
  <2> QED BY <2>1, <2>2, QuietAttemptInv
<1>5. CASE EvictStream /\ UNCHANGED serviceVars
  <2>1. /\ UNCHANGED <<job, worker>> /\ request' = request /\ log' = log /\ idle' = {}
        /\ faults' = faults + 1 /\ pel' = {} /\ last' = Len(log)
    BY <1>5 DEF EvictStream, StreamLost, Spend, serviceVars
  <2>2. \A m \in MessageIds : ~Unacked(m)'
    BY <1>0, <2>1 DEF Unacked, MessageIds, StreamTypeOK
  <2> QED BY <2>1, <2>2, QuietAttemptInv
<1> QED BY <1>1, <1>2, <1>3, <1>4, <1>5 DEF Next

(* maxAttempts does not bound the attempts of a job: a worker that dies, or
   whose answer is lost, never looks at it, and a redelivery claims the row
   again.  But whatever fails, and however workers, redeliveries and retries
   interleave, each attempt beyond maxAttempts is paid for by a fault of its
   own: the loop of worker.py alone never makes one. *)
THEOREM ExtraAttemptsArePaid ==
    ASSUME IsFiniteSet(Workers)
    PROVE  Spec => []ExtraAttemptsAreFaults
<1>1. TypeInv /\ AttemptInv => ExtraAttemptsAreFaults
  <2> SUFFICES ASSUME TypeInv, AttemptInv, NEW id \in DOMAIN job
               PROVE  job[id].attempts <= job[id].maxAttempts + faults
    BY DEF ExtraAttemptsAreFaults
  <2>1. /\ job[id].attempts \in Nat /\ job[id].maxAttempts \in Nat /\ faults \in Nat
        /\ Cardinality(Slots(id)) \in Nat
    BY SlotsAre DEF TypeInv, TypeOK, JobTypeOK, Row, AttemptLimits, FaultsTypeOK
  <2> QED BY <2>1 DEF AttemptInv, Budget
<1>2. TypeInv /\ TypeInv' /\ AttemptInv /\ [Next]_vars => AttemptInv'
  BY NextAttemptInv
<1> QED BY <1>1, <1>2, InitTypeInv, NextTypeInv, InitAttemptInv, PTL DEF Spec

=============================================================================
