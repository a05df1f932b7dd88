----------------------------- MODULE AiJobTable ------------------------------
(***************************************************************************)
(* The AiJob table of Postgres, the source of truth for a job's status: one *)
(* row per job and one operator per statement the API and the worker issue. *)
(* A statement is atomic and commits at once: Prisma runs each outside a    *)
(* transaction, db.py commits after each.  A job's id is the request that   *)
(* created it.  No code deletes a row.                                      *)
(***************************************************************************)
EXTENDS AiContracts

CONSTANT Requests
VARIABLE job        \* the rows, by id; DOMAIN job is the set of ids in use

ASSUME RequestsAssumption == Null \notin Requests

(* maxAttempts is 1..10 in the body schema of POST /jobs. *)
AttemptLimits == 1..10

Row == [status : AiJobStatuses, user : Users, key : Keys \cup {Null},
        type : AiJobTypes, payload : Payloads, result : Results \cup {Null},
        error : BOOLEAN, finished : BOOLEAN,
        attempts : Nat, maxAttempts : AttemptLimits]

JobTypeOK ==
    /\ DOMAIN job \subseteq Requests
    /\ job \in [DOMAIN job -> Row]

JobInit == job = [id \in {} |-> Null]

-----------------------------------------------------------------------------
(* Mutation: the column loses its unique index. *)
NoUniqueIndex(key) == FALSE

(* The key column is unique; NULLs do not collide. *)
KeyTaken(key) == key # Null /\ \E id \in DOMAIN job : job[id].key = key

Insert(id, row) ==
    job' = [i \in DOMAIN job \cup {id} |-> IF i = id THEN row ELSE job[i]]

(* prisma.aiJob.create of a job the worker has to run. *)
CreateQueued(id, body) ==
    Insert(id, [status |-> "QUEUED", user |-> body.user, key |-> body.key,
                type |-> body.type, payload |-> Jsonb[body.payload],
                result |-> Null, error |-> FALSE, finished |-> FALSE,
                attempts |-> 0, maxAttempts |-> body.maxAttempts])

(* prisma.aiJob.create of a job answered from the cache. *)
CreateSucceeded(id, body, value) ==
    Insert(id, [status |-> "SUCCEEDED", user |-> body.user, key |-> body.key,
                type |-> body.type, payload |-> Jsonb[body.payload],
                result |-> value, error |-> FALSE, finished |-> TRUE,
                attempts |-> 0, maxAttempts |-> body.maxAttempts])

-----------------------------------------------------------------------------
(* Mutations: a job whose worker died looks taken; no look at the status. *)
ClaimableUnlessRunning(id) == id \in DOMAIN job /\ job[id].status \in {"QUEUED", "FAILED"}
ClaimableWhatever(id) == id \in DOMAIN job

(* db.py: the worker may claim a FAILED row again, but never a SUCCEEDED or
   CANCELLED one. *)
Claimable(id) == id \in DOMAIN job /\ job[id].status \in {"QUEUED", "RUNNING", "FAILED"}

MarkRunning(id) ==
    job' = [job EXCEPT ![id].status   = "RUNNING",
                       ![id].attempts = @ + 1]

(* Mutation: the error of an earlier attempt stays. *)
SucceedKeepsError(id) ==
    job' = [job EXCEPT ![id].status   = "SUCCEEDED",
                       ![id].result   = Output(job[id].type, job[id].payload),
                       ![id].finished = TRUE]

(* The two final updates name the row by its id and look at nothing else. *)
MarkSucceeded(id) ==
    job' = [job EXCEPT ![id].status   = "SUCCEEDED",
                       ![id].result   = Output(job[id].type, job[id].payload),
                       ![id].error    = FALSE,
                       ![id].finished = TRUE]

(* Mutation: a failed attempt also clears the result. *)
FailClearsResult(id, terminal) ==
    job' = [job EXCEPT ![id].status   = IF terminal THEN "FAILED" ELSE "QUEUED",
                       ![id].result   = Null,
                       ![id].error    = TRUE,
                       ![id].finished = terminal]

MarkFailed(id, terminal) ==
    job' = [job EXCEPT ![id].status   = IF terminal THEN "FAILED" ELSE "QUEUED",
                       ![id].error    = TRUE,
                       ![id].finished = terminal]
=============================================================================
