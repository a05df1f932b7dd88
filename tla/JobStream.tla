------------------------------ MODULE JobStream ------------------------------
(***************************************************************************)
(* The Redis stream ai:jobs and its consumer group ai-workers, as           *)
(* apps/ai/app/queue.py and ai-jobs.ts use them.  Redis itself is outside   *)
(* the repository: a command is atomic.  The n-th message ever added has id *)
(* n.  A message carries the job's id; its type and payload are those of    *)
(* the row, which never change, so they are read from there.  The group's   *)
(* pending list does not name owners: XAUTOCLAIM takes an idle message from *)
(* any of them, the caller included.                                        *)
(***************************************************************************)
EXTENDS Naturals, Sequences, FiniteSets

VARIABLES
    log,        \* the job of every message ever added
    evicted,    \* messages 1..evicted were lost with the stream
    group,      \* does the consumer group exist
    last,       \* the group's last-delivered id
    pel,        \* delivered and not acknowledged
    idle        \* those of pel idle for claim_idle_ms or more

streamVars == <<log, evicted, group, last, pel, idle>>

StreamInit ==
    /\ log = << >>
    /\ evicted = 0
    /\ group = FALSE
    /\ last = 0
    /\ pel = {}
    /\ idle = {}

MessageIds == 1..Len(log)

StreamTypeOK(ids) ==
    /\ log \in Seq(ids)
    /\ evicted \in 0..Len(log)
    /\ group \in BOOLEAN
    /\ last \in evicted..Len(log)
    /\ pel \subseteq (evicted + 1)..last
    /\ idle \subseteq pel

(* What the group still owes a worker, and what it has had acknowledged. *)
Unacked(m) == m \in pel \/ (m \in MessageIds /\ last < m)
Acked(m)   == evicted < m /\ m <= last /\ m \notin pel

-----------------------------------------------------------------------------
(* XGROUP CREATE ... 0 MKSTREAM.  BUSYGROUP is ignored by both callers. *)
XGroupCreate ==
    \/ /\ group
       /\ UNCHANGED streamVars
    \/ /\ ~group
       /\ group' = TRUE
       /\ last' = evicted
       /\ UNCHANGED <<log, evicted, pel, idle>>

XAdd(id) ==
    /\ log' = Append(log, id)
    /\ UNCHANGED <<evicted, group, last, pel, idle>>

(* The client library sent the command twice and the first one had arrived. *)
XAddTwice(id) ==
    /\ log' = log \o <<id, id>>
    /\ UNCHANGED <<evicted, group, last, pel, idle>>

(* XREADGROUP COUNT n with id ">": the next n messages. *)
Undelivered(n) == {m \in MessageIds : last < m /\ m <= last + n}

XReadGroup(got) ==
    /\ pel' = pel \cup got
    /\ \E m \in got : (\A k \in got : k <= m) /\ last' = m
    /\ UNCHANGED <<log, evicted, group, idle>>

(* Mutation: min_idle_time is 0. *)
PendingOldest(n) == {m \in pel : Cardinality({k \in pel : k < m}) < n}

(* XAUTOCLAIM from 0-0 COUNT n: the n oldest idle messages, idle no more. *)
ClaimableNow(n) == {m \in idle : Cardinality({k \in idle : k < m}) < n}

XAutoClaim(got) ==
    /\ idle' = idle \ got
    /\ UNCHANGED <<log, evicted, group, last, pel>>

(* XACK; of a message that is not pending, or without a group, it is a no-op. *)
XAck(m) ==
    /\ pel' = pel \ {m}
    /\ idle' = idle \ {m}
    /\ UNCHANGED <<log, evicted, group, last>>

-----------------------------------------------------------------------------
(* Nothing touched message m for claim_idle_ms. *)
GoesIdle(m) ==
    /\ m \in pel \ idle
    /\ idle' = idle \cup {m}
    /\ UNCHANGED <<log, evicted, group, last, pel>>

(* The stream key is gone, and the group with it. *)
StreamLost ==
    /\ evicted' = Len(log)
    /\ group' = FALSE
    /\ last' = Len(log)
    /\ pel' = {}
    /\ idle' = {}
    /\ UNCHANGED log
=============================================================================
