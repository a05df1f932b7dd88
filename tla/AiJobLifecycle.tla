---------------------------- MODULE AiJobLifecycle ----------------------------
(***************************************************************************)
(* What the pipeline promises of a job, without tables, messages, requests  *)
(* or loops: an at-least-once lifecycle.  A job is admitted, owed a worker's *)
(* attention until it is settled, and changed only by an attempt under way. *)
(***************************************************************************)
EXTENDS Naturals

CONSTANTS
    Jobs,
    Attempters,     \* who may be making an attempt
    Limits,         \* the values of maxAttempts
    Lossy           \* may the queue lose what it owes

VARIABLE jobs       \* what each job has come to

None == "NONE"      \* the status of a job that does not exist yet

States == [status : {None, "QUEUED", "RUNNING", "SUCCEEDED", "FAILED", "CANCELLED"},
           answered : BOOLEAN,            \* a result is stored
           tries : Nat, limit : Limits \cup {0},
           owed : BOOLEAN,                \* an unacknowledged message names it
           trying : SUBSET Attempters]    \* the attempts under way

Absent == [status |-> None, answered |-> FALSE, tries |-> 0, limit |-> 0,
           owed |-> FALSE, trying |-> {}]

Init == jobs = [j \in Jobs |-> Absent]

Exists(j)  == jobs[j].status # None
Settled(j) == jobs[j].answered \/ jobs[j].tries >= jobs[j].limit

-----------------------------------------------------------------------------
Admit(j) ==
    /\ ~Exists(j)
    /\ \E max \in Limits, answered \in BOOLEAN :
        jobs' = [jobs EXCEPT ![j].limit    = max,
                             ![j].answered = answered,
                             ![j].status   = IF answered THEN "SUCCEEDED" ELSE "QUEUED"]

Promise(j) ==
    /\ Exists(j)
    /\ jobs' = [jobs EXCEPT ![j].owed = TRUE]

(* The attempt may be over at once: who began it died. *)
Begin(j, a) ==
    /\ jobs[j].status \in {"QUEUED", "RUNNING", "FAILED"}
    /\ \A i \in Jobs : a \notin jobs[i].trying
    /\ \E died \in BOOLEAN :
        jobs' = [jobs EXCEPT ![j].status = "RUNNING",
                             ![j].tries  = @ + 1,
                             ![j].trying = IF died THEN @ ELSE @ \cup {a}]

Complete(j, a) ==
    /\ a \in jobs[j].trying
    /\ jobs' = [jobs EXCEPT ![j].status = "SUCCEEDED", ![j].answered = TRUE]

(* An attempt ends in an error: the job fails only when it has no tries left. *)
Fail(j, a) ==
    /\ a \in jobs[j].trying
    /\ \E status \in {"QUEUED", "FAILED"} :
        /\ status = "FAILED" => jobs[j].tries >= jobs[j].limit
        /\ jobs' = [jobs EXCEPT ![j].status = status, ![j].trying = @ \ {a}]

(* The last message of a job is acknowledged, by an attempt that is then over
   or by someone else.  Only a settled job is forgotten. *)
Release(j, gone) ==
    /\ Settled(j)
    /\ jobs' = [jobs EXCEPT ![j].owed = FALSE, ![j].trying = @ \ gone]

(* An attempt is over and leaves the job as it is. *)
Abandon(j, a) ==
    /\ a \in jobs[j].trying
    /\ jobs' = [jobs EXCEPT ![j].trying = @ \ {a}]

LoseAll ==
    /\ Lossy
    /\ jobs' = [j \in Jobs |-> [jobs[j] EXCEPT !.owed = FALSE]]

Next ==
    \/ \E j \in Jobs : Admit(j) \/ Promise(j)
    \/ \E j \in Jobs, a \in Attempters :
        Begin(j, a) \/ Complete(j, a) \/ Fail(j, a) \/ Abandon(j, a)
    \/ \E j \in Jobs : \E gone \in {{}} \cup {{a} : a \in Attempters} : Release(j, gone)
    \/ LoseAll

Spec == Init /\ [][Next]_jobs
=============================================================================
