------------------------------ MODULE AiWorker -------------------------------
(***************************************************************************)
(* apps/ai/app/worker.py: the loop that takes messages from the stream, has *)
(* the processor of the job's type run, and records the outcome.  Several   *)
(* workers share the consumer group.  Each network call is a step of its    *)
(* own, so workers interleave between any two of them.                      *)
(*                                                                         *)
(* A message always names a job and a type: enqueue() writes both.  The     *)
(* branch for a message without them is therefore left out.                 *)
(***************************************************************************)
EXTENDS AiJobTable, JobStream, Environment

CONSTANTS
    Workers,
    WorkerConcurrency   \* the COUNT given to XREADGROUP and XAUTOCLAIM

VARIABLE worker

ASSUME WorkerAssumption == WorkerConcurrency \in Nat \ {0}

workerVars == <<job, streamVars, worker, faults>>

(* Where the loop stands: before a call, or after it has ended.
     start                 ensure_group() of run_forever
     reclaim, read         the two ways to get a batch
     claim                 mark_running
     ackSkip               ack of a message whose job is not claimable
     process, succeed, ack the body of the try
     fail, ackFailed       its except clause
     dead                  the loop's thread ended with an exception
     stopped, down         the loop returned; the process was killed        *)
LoopPoints    == {"start", "reclaim", "read"}
HandlePoints  == {"claim", "ackSkip", "process", "succeed", "ack", "fail", "ackFailed"}
EndPoints     == {"dead", "stopped", "down"}

NoMessage == 0

(* msg is the message in hand, rest the others of the batch, attempts the
   count mark_running returned, running the flag stop() clears. *)
WorkerStates == [pc : LoopPoints \cup HandlePoints \cup EndPoints, msg : Nat,
                 rest : SUBSET Nat, attempts : Nat, running : BOOLEAN]

At(pc) == [pc |-> pc, msg |-> NoMessage, rest |-> {}, attempts |-> 0, running |-> TRUE]

WorkerInit   == worker = [w \in Workers |-> At("start")]
WorkerTypeOK == worker \in [Workers -> WorkerStates]

(* The messages a live worker has in hand, and the job of the first. *)
Held(w)    == worker[w].rest \cup
              (IF worker[w].pc \in HandlePoints THEN {worker[w].msg} ELSE {})
JobOf(w)   == log[worker[w].msg]
InHand(m)  == \E w \in Workers : m \in Held(w)

-----------------------------------------------------------------------------
(* Moves of one worker's control. *)
Goto(w, pc) == worker' = [worker EXCEPT ![w].pc = pc]
Ends(w, pc) == worker' = [worker EXCEPT ![w] = At(pc)]

(* for message_id, data in messages: the oldest first. *)
Take(w, batch) ==
    \E m \in batch :
        /\ \A k \in batch : m <= k
        /\ worker' = [worker EXCEPT ![w].pc = "claim", ![w].msg = m,
                                    ![w].rest = batch \ {m}, ![w].attempts = 0]

(* while self._running *)
LoopAgain(w) ==
    worker' = [worker EXCEPT ![w].pc = IF worker[w].running THEN "reclaim" ELSE "stopped",
                             ![w].msg = NoMessage, ![w].attempts = 0]

(* _handle_message has returned. *)
NextMessage(w) ==
    \/ Take(w, worker[w].rest)
    \/ worker[w].rest = {} /\ LoopAgain(w)

-----------------------------------------------------------------------------
(* One action per call of the loop. *)
EnsureGroup(w) ==
    /\ worker[w].pc = "start"
    /\ XGroupCreate
    /\ LoopAgain(w)
    /\ UNCHANGED <<job, faults>>

(* Mutation: the loop only ever reads new messages. *)
NeverReclaim(w) ==
    /\ worker[w].pc = "reclaim"
    /\ Goto(w, "read")
    /\ UNCHANGED <<job, streamVars, faults>>

(* A ResponseError (no group) is the same as no message. *)
Reclaim(w) ==
    /\ worker[w].pc = "reclaim"
    /\ \/ LET got == ClaimableNow(WorkerConcurrency)
          IN  XAutoClaim(got) /\ Take(w, got)
       \/ idle = {} /\ Goto(w, "read") /\ UNCHANGED streamVars
    /\ UNCHANGED <<job, faults>>

(* Without a group the read raises NOGROUP, which nothing catches. *)
Read(w) ==
    /\ worker[w].pc = "read"
    /\ LET got == Undelivered(WorkerConcurrency)
       IN  \/ group /\ XReadGroup(got) /\ Take(w, got)
           \/ group /\ got = {} /\ LoopAgain(w) /\ UNCHANGED streamVars
           \/ ~group /\ Ends(w, "dead") /\ UNCHANGED streamVars
    /\ UNCHANGED <<job, faults>>

Claim(w) ==
    /\ worker[w].pc = "claim"
    /\ \/ /\ Claimable(JobOf(w))
          /\ MarkRunning(JobOf(w))
          /\ worker' = [worker EXCEPT ![w].pc = "process",
                                      ![w].attempts = job[JobOf(w)].attempts + 1]
       \/ ~Claimable(JobOf(w)) /\ Goto(w, "ackSkip") /\ UNCHANGED job
    /\ UNCHANGED <<streamVars, faults>>

AckSkip(w) ==
    /\ worker[w].pc = "ackSkip"
    /\ XAck(worker[w].msg)
    /\ NextMessage(w)
    /\ UNCHANGED <<job, faults>>

Process(w) ==
    /\ worker[w].pc = "process"
    /\ Goto(w, IF <<job[JobOf(w)].type, job[JobOf(w)].payload>> \in Rejects
               THEN "fail" ELSE "succeed")
    /\ UNCHANGED <<job, streamVars, faults>>

Succeed(w) ==
    /\ worker[w].pc = "succeed"
    /\ MarkSucceeded(JobOf(w))
    /\ Goto(w, "ack")
    /\ UNCHANGED <<streamVars, faults>>

Ack(w) ==
    /\ worker[w].pc = "ack"
    /\ XAck(worker[w].msg)
    /\ NextMessage(w)
    /\ UNCHANGED <<job, faults>>

(* Mutation: > for >=. *)
PastLimit(w) == worker[w].attempts > job[JobOf(w)].maxAttempts

(* attempts >= max_attempts: the message will be acknowledged as well.  If not
   it stays pending until it is idle. *)
Terminal(w) == worker[w].attempts >= job[JobOf(w)].maxAttempts

(* Mutation: the ack is outside of "if terminal". *)
FailAndAck(w) ==
    /\ worker[w].pc = "fail"
    /\ MarkFailed(JobOf(w), Terminal(w))
    /\ Goto(w, "ackFailed")
    /\ UNCHANGED <<streamVars, faults>>

Fail(w) ==
    /\ worker[w].pc = "fail"
    /\ MarkFailed(JobOf(w), Terminal(w))
    /\ IF Terminal(w) THEN Goto(w, "ackFailed") ELSE NextMessage(w)
    /\ UNCHANGED <<streamVars, faults>>

AckFailed(w) ==
    /\ worker[w].pc = "ackFailed"
    /\ XAck(worker[w].msg)
    /\ NextMessage(w)
    /\ UNCHANGED <<job, faults>>

-----------------------------------------------------------------------------
(* A call raises.  Inside the try that leads to the except clause; elsewhere
   it ends the loop. *)
RedisPoints == {"start", "reclaim", "read", "ackSkip", "ack", "ackFailed"}
DbPoints    == {"claim", "succeed", "fail"}

Raise(w) == IF worker[w].pc \in {"succeed", "ack"} THEN Goto(w, "fail") ELSE Ends(w, "dead")

(* The call had no effect. *)
CallFails(w) ==
    /\ \/ worker[w].pc \in RedisPoints /\ Spend("redis")
       \/ worker[w].pc \in DbPoints /\ Spend("db")
    /\ Raise(w)
    /\ UNCHANGED <<job, streamVars>>

(* The call took effect and its answer was lost. *)
RedisReplyLost(w) ==
    /\ \/ worker[w].pc = "start" /\ XGroupCreate
       \/ worker[w].pc = "reclaim" /\ XAutoClaim(ClaimableNow(WorkerConcurrency))
       \/ /\ worker[w].pc = "read" /\ group
          /\ XReadGroup(Undelivered(WorkerConcurrency))
       \/ worker[w].pc \in {"ackSkip", "ack", "ackFailed"} /\ XAck(worker[w].msg)
    /\ Spend("redisReply")
    /\ Raise(w)
    /\ UNCHANGED job

DbReplyLost(w) ==
    /\ \/ worker[w].pc = "claim" /\ Claimable(JobOf(w)) /\ MarkRunning(JobOf(w))
       \/ worker[w].pc = "succeed" /\ MarkSucceeded(JobOf(w))
       \/ worker[w].pc = "fail" /\ MarkFailed(JobOf(w), Terminal(w))
    /\ Spend("dbReply")
    /\ Raise(w)
    /\ UNCHANGED streamVars

-----------------------------------------------------------------------------
(* The process is killed: whatever it had in hand stays pending. *)
Crash(w) ==
    /\ worker[w].pc # "down"
    /\ Spend("crash")
    /\ Ends(w, "down")
    /\ UNCHANGED <<job, streamVars>>

(* stop(), from a signal handler: the batch in hand is still finished. *)
Stop(w) ==
    /\ worker[w].pc \notin EndPoints
    /\ worker[w].running
    /\ Spend("stop")
    /\ worker' = [worker EXCEPT ![w].running = FALSE]
    /\ UNCHANGED <<job, streamVars>>

(* The orchestrator starts a process that has ended.  A dead loop is not one:
   its process still answers the probes. *)
Restart(w) ==
    /\ worker[w].pc \in {"stopped", "down"}
    /\ Ends(w, "start")
    /\ UNCHANGED <<job, streamVars, faults>>

(* GET /ready of a worker's process, which outlives its loop. *)
Ready(w) ==
    /\ worker[w].pc \notin {"stopped", "down"}
    /\ ~group
    /\ XGroupCreate
    /\ UNCHANGED <<job, worker, faults>>

(* A pending message comes of age; one that a live worker has in hand does so
   only if that worker is slow. *)
ClaimIdlePasses(m) ==
    /\ GoesIdle(m)
    /\ IF InHand(m) THEN Spend("slow") ELSE UNCHANGED faults
    /\ UNCHANGED <<job, worker>>

EvictStream ==
    /\ Len(log) > evicted
    /\ Spend("evict")
    /\ StreamLost
    /\ UNCHANGED <<job, worker>>

-----------------------------------------------------------------------------
(* What a worker does by itself. *)
WorkerStep(w) ==
    \/ EnsureGroup(w) \/ Reclaim(w) \/ Read(w)
    \/ Claim(w) \/ AckSkip(w)
    \/ Process(w) \/ Succeed(w) \/ Ack(w)
    \/ Fail(w) \/ AckFailed(w)

WorkerFault(w) ==
    CallFails(w) \/ RedisReplyLost(w) \/ DbReplyLost(w) \/ Crash(w) \/ Stop(w)
=============================================================================
