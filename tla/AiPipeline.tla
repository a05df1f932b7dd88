----------------------------- MODULE AiPipeline ------------------------------
(***************************************************************************)
(* The AI job pipeline: API requests, the AiJob table, the Redis stream and *)
(* cache, and the workers, composed.  The parts share job and the stream.   *)
(***************************************************************************)
EXTENDS AiJobsService, AiWorker

vars == <<job, streamVars, serviceVars, worker, faults>>

Init == JobInit /\ StreamInit /\ ServiceInit /\ WorkerInit /\ FaultsInit

Next ==
    \/ \E r \in Requests : (RequestStep(r) \/ RequestFault(r)) /\ UNCHANGED worker
    \/ \E u \in Users : PollStep(u) /\ UNCHANGED worker
    \/ \E k \in CacheKeys : ExpireCache(k) /\ UNCHANGED worker
    \/ \E w \in Workers :
        /\ WorkerStep(w) \/ WorkerFault(w) \/ Restart(w) \/ Ready(w)
        /\ UNCHANGED serviceVars
    \/ \E m \in MessageIds : ClaimIdlePasses(m) /\ UNCHANGED serviceVars
    \/ EvictStream /\ UNCHANGED serviceVars

Spec == Init /\ [][Next]_vars

(* A worker's loop never waits for ever, the orchestrator restarts what has
   ended, and time passes.  Requests and polls may stop at any point: clients
   and API processes owe nothing.  A message is added once per request, and
   once more per fault. *)
MessageBound == Cardinality(Requests) + MaxFaults

Fairness ==
    /\ \A w \in Workers :
        /\ WF_vars(WorkerStep(w) /\ UNCHANGED serviceVars)
        /\ WF_vars(Restart(w) /\ UNCHANGED serviceVars)
    /\ \A m \in 1..MessageBound : WF_vars(ClaimIdlePasses(m) /\ UNCHANGED serviceVars)

FairSpec == Spec /\ Fairness

-----------------------------------------------------------------------------
(* Every variable keeps its type in every component. *)
TypeOK ==
    /\ JobTypeOK
    /\ StreamTypeOK(DOMAIN job)
    /\ CacheTypeOK
    /\ ServiceTypeOK
    /\ WorkerTypeOK
    /\ FaultsTypeOK

(* Under any fault: the group never forgets a message whose job has neither a
   result nor used up its attempts.  worker.py acknowledges in three places,
   each on what it knew when it claimed the job, while other workers and
   redeliveries move the row. *)
Settled(id) == job[id].result # Null \/ job[id].attempts >= job[id].maxAttempts

AckedOnlyWhenSettled ==
    \A m \in MessageIds : Acked(m) => Settled(log[m])

(* What a client may conclude from a status, whatever failed: SUCCEEDED comes
   with a result and without an error, FAILED with an error after at least
   maxAttempts attempts, and a QUEUED row is never marked finished. *)
StatusTellsTruth ==
    \A id \in DOMAIN job :
        LET row == job[id] IN
        /\ row.status = "SUCCEEDED" => row.result # Null /\ ~row.error /\ row.finished
        /\ row.status = "FAILED" =>
            row.error /\ row.finished /\ row.attempts >= row.maxAttempts
        /\ row.status = "QUEUED" => ~row.finished

(* A result, in a row or in the cache, was computed from the payload it stands
   for: keys hash the text of the payload as sent, rows hold what jsonb gave
   back, and the API fills the cache from rows it read earlier. *)
ResultsAreOfTheirJob ==
    /\ \A id \in DOMAIN job :
        job[id].result # Null => job[id].result = Output(job[id].type, job[id].payload)
    /\ \A k \in CacheKeys : cache[k] # Null => cache[k] = Output(k[1], k[2])

(* Two POSTs with one idempotency key that are both answered 202 name the same
   job, however they raced. *)
SameKeySameJob ==
    \A r, s \in Requests :
        (/\ request[r].pc = "accepted" /\ request[s].pc = "accepted"
         /\ Body(r).key = Body(s).key /\ Body(r).key # Null)
        => request[r].job = request[s].job

(* maxAttempts does not bound attempts, since a worker that dies never gets to
   look at it, but every attempt beyond it is paid for by a fault: the loop
   alone never makes one. *)
ExtraAttemptsAreFaults ==
    \A id \in DOMAIN job : job[id].attempts <= job[id].maxAttempts + faults

(* Once a result is stored no step clears or changes it, though the status may
   leave SUCCEEDED again. *)
ResultIsKept ==
    [][\A id \in DOMAIN job : job[id].result # Null => job'[id].result = job[id].result]_vars

-----------------------------------------------------------------------------
(* Without slow workers, lost Redis replies and evictions: a job that was put
   on the stream and is not in a final status has a message the group still
   owes, one that its holder is not about to acknowledge.  So nothing but a
   worker is needed to finish it. *)
Reliable == Faults \cap {"slow", "redisReply", "evict"} = {}

Enqueued(id) == \E m \in MessageIds : log[m] = id
Final(id)    == job[id].status \in {"SUCCEEDED", "FAILED"}

AboutToAck(m) ==
    \E w \in Workers : worker[w].pc \in {"ackSkip", "ack", "ackFailed"} /\ worker[w].msg = m

NoStrandedJob ==
    \A id \in DOMAIN job :
        Enqueued(id) /\ ~Final(id) =>
            \E m \in MessageIds : log[m] = id /\ Unacked(m) /\ ~AboutToAck(m)

(* Without slow workers, no two live workers have the same message in hand,
   through crashes, restarts and redeliveries. *)
OneHolder ==
    \A v, w \in Workers : v # w => Held(v) \cap Held(w) = {}

(* Liveness without Redis failures, lost replies and evictions: once a message
   for it is on the stream a job reaches a final status and keeps it, whatever
   workers crash, are stopped or lose the database, as long as one loop is left. *)
EnqueuedJobsFinish ==
    \A r \in Requests : (r \in DOMAIN job /\ Enqueued(r)) ~> [](r \in DOMAIN job /\ Final(r))

-----------------------------------------------------------------------------
(* The lifecycle the pipeline implements: a job is owed while the group has an
   unacknowledged message for it, and a worker is trying it from the claim to
   the end of the handler. *)
Tries(w, id) ==
    worker[w].pc \in {"process", "succeed", "ack", "fail"} /\ JobOf(w) = id

LifecycleOf(id) ==
    IF id \in DOMAIN job
    THEN [status   |-> job[id].status,
          answered |-> job[id].result # Null,
          tries    |-> job[id].attempts,
          limit    |-> job[id].maxAttempts,
          owed     |-> \E m \in MessageIds : log[m] = id /\ Unacked(m),
          trying   |-> {w \in Workers : Tries(w, id)}]
    ELSE [status |-> "NONE", answered |-> FALSE, tries |-> 0, limit |-> 0,
          owed |-> FALSE, trying |-> {}]

Lifecycle == INSTANCE AiJobLifecycle WITH
    Jobs <- Requests, Attempters <- Workers, Limits <- AttemptLimits,
    Lossy <- "evict" \in Faults,
    jobs <- [id \in Requests |-> LifecycleOf(id)]

(* Whatever fails, a job moves only as the at-least-once lifecycle allows. *)
ImplementsLifecycle == Lifecycle!Spec

-----------------------------------------------------------------------------
(* What the documents and comments say, and the code does not do. *)

(* ai-async-jobs.md: SUCCEEDED is a final state. *)
SucceededIsFinal ==
    [][\A id \in DOMAIN job : job[id].status = "SUCCEEDED" => job'[id].status = "SUCCEEDED"]_vars

(* ai-async-jobs.md: the API answers 202 after the XADD.  So when a POST is
   answered its job is on the stream, or needs none, or the request that
   inserted the row has yet to add it. *)
AcceptedIsEnqueued ==
    [][\A r, id \in Requests :
        request[r].pc # "accepted" /\ request'[r].pc = "accepted" /\ request'[r].job = id =>
            \/ Enqueued(id)'
            \/ job'[id].status = "SUCCEEDED"
            \/ request'[id].pc \in OpenPoints]_vars
=============================================================================
