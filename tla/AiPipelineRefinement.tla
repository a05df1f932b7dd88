------------------------ MODULE AiPipelineRefinement -------------------------
(***************************************************************************)
(* AiPipeline implements AiJobLifecycle under every fault: inserts admit a  *)
(* job, XADDs promise it, the statements of the worker are the moves of an  *)
(* attempt, and an acknowledgement releases only what is settled.           *)
(***************************************************************************)
EXTENDS AiPipelineDelivery

Jobs       == [id \in Requests |-> LifecycleOf(id)]
Owed(id)   == \E m \in MessageIds : log[m] = id /\ Unacked(m)
Trying(id) == {w \in Workers : Tries(w, id)}

Answered(id) == job[id].result # Null

(* The record of what a job has come to. *)
Life(status, answered, tries, limit, owed, trying) ==
    [status |-> status, answered |-> answered, tries |-> tries, limit |-> limit,
     owed |-> owed, trying |-> trying]

OthersSame(id) == \A i \in Requests \ {id} : LifecycleOf(i)' = LifecycleOf(i)

(* A step of the lifecycle, or none. *)
Maps == [Lifecycle!Next]_Jobs

-----------------------------------------------------------------------------
(* What a job has come to before and after a step. *)
LEMMA LifecycleIs ==
    ASSUME NEW id \in DOMAIN job, NEW answered \in BOOLEAN, NEW owed \in BOOLEAN,
           Answered(id) <=> answered, Owed(id) <=> owed
    PROVE  LifecycleOf(id) = Life(job[id].status, answered, job[id].attempts,
                                  job[id].maxAttempts, owed, Trying(id))
BY DEF LifecycleOf, Owed, Trying, Answered, Life

LEMMA FieldsAre ==
    ASSUME NEW id \in DOMAIN job
    PROVE  /\ LifecycleOf(id).answered <=> Answered(id)
           /\ LifecycleOf(id).trying = Trying(id)
BY DEF LifecycleOf, Trying, Answered

LEMMA LifecycleIsThen ==
    ASSUME NEW id \in DOMAIN job', NEW answered \in BOOLEAN, NEW owed \in BOOLEAN,
           Answered(id)' <=> answered, Owed(id)' <=> owed
    PROVE  LifecycleOf(id)' = Life(job'[id].status, answered, job'[id].attempts,
                                   job'[id].maxAttempts, owed, Trying(id)')
BY DEF LifecycleOf, Owed, Trying, Answered, Life

-----------------------------------------------------------------------------
(* The moves of the lifecycle, as changes of the record of one job. *)
LEMMA NoneMoves ==
    ASSUME \A id \in Requests : LifecycleOf(id)' = LifecycleOf(id)
    PROVE  Maps
<1>1. Jobs' = Jobs
  BY DEF Jobs
<1> QED BY <1>1 DEF Maps

LEMMA OneMoves ==
    ASSUME NEW id \in Requests, OthersSame(id)
    PROVE  Jobs[id] = LifecycleOf(id) /\ Jobs' = [Jobs EXCEPT ![id] = LifecycleOf(id)']
BY DEF Jobs, OthersSame

LEMMA Begins ==
    ASSUME NEW id \in Requests, NEW w \in Workers, OthersSame(id),
           NEW s \in {"QUEUED", "RUNNING", "FAILED"}, NEW a, NEW t, NEW l, NEW o, NEW tr,
           NEW died \in BOOLEAN, NEW tries, NEW trying,
           LifecycleOf(id) = Life(s, a, t, l, o, tr),
           LifecycleOf(id)' = Life("RUNNING", a, tries, l, o, trying),
           \A i \in Requests : w \notin LifecycleOf(i).trying
    PROVE  tries = t + 1 /\ (trying = IF died THEN tr ELSE tr \cup {w}) => Maps
<1> DEFINE r  == LifecycleOf(id)
           r1 == [r EXCEPT !.status = "RUNNING"]
           r2 == [r1 EXCEPT !.tries = tries]
<1>1. r1 = Life("RUNNING", a, t, l, o, tr) /\ r.tries = t /\ r.trying = tr /\ r.status = s
  BY DEF Life
<1> HIDE DEF r1
<1>2. r2 = Life("RUNNING", a, tries, l, o, tr)
  BY <1>1 DEF Life
<1> HIDE DEF r2
<1>3. LifecycleOf(id)' = [r2 EXCEPT !.trying = trying]
  BY <1>2 DEF Life
<1> SUFFICES ASSUME tries = t + 1, trying = IF died THEN tr ELSE tr \cup {w} PROVE Maps
  OBVIOUS
<1>4. LifecycleOf(id)' = [r EXCEPT !.status = "RUNNING", !.tries = @ + 1,
                                   !.trying = IF died THEN @ ELSE @ \cup {w}]
  BY <1>1, <1>3 DEF r1, r2
<1>5. Jobs' = [Jobs EXCEPT ![id] = LifecycleOf(id)'] /\ r.status \in {"QUEUED", "RUNNING", "FAILED"}
  BY <1>1, OneMoves
<1>6. \A i \in Requests : Jobs[i] = LifecycleOf(i)
  BY DEF Jobs
<1>7. Jobs' = [Jobs EXCEPT ![id].status = "RUNNING", ![id].tries = @ + 1,
                           ![id].trying = IF died THEN @ ELSE @ \cup {w}]
  BY <1>4, <1>5, <1>6
<1>8. Jobs[id].status \in {"QUEUED", "RUNNING", "FAILED"} /\ \A i \in Requests : w \notin Jobs[i].trying
  BY <1>5, <1>6
<1>9. Lifecycle!Begin(id, w)
  BY <1>7, <1>8 DEF Lifecycle!Begin, Jobs
<1> QED BY <1>9 DEF Maps, Lifecycle!Next

LEMMA Completes ==
    ASSUME NEW id \in Requests, NEW w \in Workers, OthersSame(id),
           NEW s, NEW a, NEW t, NEW l, NEW o, NEW tr, NEW yes \in BOOLEAN,
           LifecycleOf(id) = Life(s, a, t, l, o, tr),
           LifecycleOf(id)' = Life("SUCCEEDED", yes, t, l, o, tr),
           w \in LifecycleOf(id).trying
    PROVE  yes => Maps
<1> DEFINE r  == LifecycleOf(id)
           r1 == [r EXCEPT !.status = "SUCCEEDED"]
<1>1. r1 = Life("SUCCEEDED", a, t, l, o, tr)
  BY DEF Life
<1> HIDE DEF r1
<1>2. LifecycleOf(id)' = [r1 EXCEPT !.answered = yes]
  BY <1>1 DEF Life
<1>3. LifecycleOf(id)' = [r EXCEPT !.status = "SUCCEEDED", !.answered = yes]
  BY <1>2 DEF r1
<1>4. Jobs' = [Jobs EXCEPT ![id] = LifecycleOf(id)']
  BY OneMoves
<1>5. yes => Lifecycle!Complete(id, w)
  BY <1>3, <1>4 DEF Lifecycle!Complete, Jobs
<1> QED BY <1>5 DEF Maps, Lifecycle!Next

LEMMA Fails ==
    ASSUME NEW id \in Requests, NEW w \in Workers, OthersSame(id),
           NEW s, NEW a, NEW t, NEW l, NEW o, NEW tr, NEW to \in {"QUEUED", "FAILED"},
           LifecycleOf(id) = Life(s, a, t, l, o, tr),
           LifecycleOf(id)' = Life(to, a, t, l, o, tr \ {w}),
           to = "FAILED" => t >= l,
           w \in LifecycleOf(id).trying
    PROVE  Maps
<1> DEFINE r  == LifecycleOf(id)
           r1 == [r EXCEPT !.status = to]
<1>1. r1 = Life(to, a, t, l, o, tr) /\ r.trying = tr /\ r.tries = t /\ r.limit = l
  BY DEF Life
<1> HIDE DEF r1
<1>2. LifecycleOf(id)' = [r1 EXCEPT !.trying = r.trying \ {w}]
  BY <1>1 DEF Life
<1>3. LifecycleOf(id)' = [r EXCEPT !.status = to, !.trying = @ \ {w}]
  BY <1>2 DEF r1
<1>4. Jobs' = [Jobs EXCEPT ![id] = LifecycleOf(id)'] /\ (to = "FAILED" => r.tries >= r.limit)
  BY <1>1, OneMoves
<1>5. Lifecycle!Fail(id, w)
  BY <1>3, <1>4 DEF Lifecycle!Fail, Jobs
<1> QED BY <1>5 DEF Maps, Lifecycle!Next

LEMMA Releases ==
    ASSUME NEW id \in Requests, NEW gone \in {{}} \cup {{v} : v \in Workers}, OthersSame(id),
           NEW s, NEW a, NEW t, NEW l, NEW o, NEW tr, NEW no \in BOOLEAN,
           LifecycleOf(id) = Life(s, a, t, l, o, tr),
           LifecycleOf(id)' = Life(s, a, t, l, no, tr \ gone),
           LifecycleOf(id).answered \/ t >= l
    PROVE  ~no => Maps
<1> DEFINE r  == LifecycleOf(id)
           r1 == [r EXCEPT !.owed = no]
<1>1. r1 = Life(s, a, t, l, no, tr) /\ r.trying = tr /\ r.tries = t /\ r.limit = l
  BY DEF Life
<1> HIDE DEF r1
<1>2. LifecycleOf(id)' = [r1 EXCEPT !.trying = r.trying \ gone]
  <2>1. PICK left : left = tr \ gone
    OBVIOUS
  <2>2. [r1 EXCEPT !.trying = left] = Life(s, a, t, l, no, left)
    BY <1>1 DEF Life
  <2> QED BY <1>1, <2>1, <2>2
<1>3. LifecycleOf(id)' = [r EXCEPT !.owed = no, !.trying = @ \ gone]
  BY <1>2 DEF r1
<1>4. Jobs' = [Jobs EXCEPT ![id] = LifecycleOf(id)']
  BY OneMoves
<1>5. r.answered \/ r.tries >= r.limit
  BY <1>1
<1>6. ~no => Lifecycle!Release(id, gone)
  BY <1>3, <1>4, <1>5 DEF Lifecycle!Release, Lifecycle!Settled, Jobs
<1> QED BY <1>6 DEF Maps, Lifecycle!Next

LEMMA Abandons ==
    ASSUME NEW id \in Requests, NEW w \in Workers, OthersSame(id),
           NEW s, NEW a, NEW t, NEW l, NEW o, NEW tr,
           LifecycleOf(id) = Life(s, a, t, l, o, tr),
           LifecycleOf(id)' = Life(s, a, t, l, o, tr \ {w}),
           w \in LifecycleOf(id).trying
    PROVE  Maps
<1>1. LifecycleOf(id)' = [LifecycleOf(id) EXCEPT !.trying = @ \ {w}]
  BY DEF Life
<1>2. Jobs' = [Jobs EXCEPT ![id] = LifecycleOf(id)']
  BY OneMoves
<1>3. Lifecycle!Abandon(id, w)
  BY <1>1, <1>2 DEF Lifecycle!Abandon, Jobs
<1> QED BY <1>3 DEF Maps, Lifecycle!Next

LEMMA Promises ==
    ASSUME NEW id \in Requests, OthersSame(id),
           NEW s, NEW a, NEW t, NEW l, NEW o, NEW tr, NEW yes \in BOOLEAN, s # "NONE",
           LifecycleOf(id) = Life(s, a, t, l, o, tr),
           LifecycleOf(id)' = Life(s, a, t, l, yes, tr)
    PROVE  yes => Maps
<1>1. LifecycleOf(id)' = [LifecycleOf(id) EXCEPT !.owed = yes] /\ LifecycleOf(id).status # "NONE"
  BY DEF Life
<1>2. Jobs' = [Jobs EXCEPT ![id] = LifecycleOf(id)']
  BY OneMoves
<1>3. yes => Lifecycle!Promise(id)
  BY <1>1, <1>2 DEF Lifecycle!Promise, Lifecycle!Exists, Lifecycle!None, Jobs
<1> QED BY <1>3 DEF Maps, Lifecycle!Next

LEMMA Admits ==
    ASSUME NEW id \in Requests, OthersSame(id),
           NEW max \in AttemptLimits, NEW answered \in BOOLEAN,
           NEW a, NEW t, NEW l, NEW o, NEW tr,
           LifecycleOf(id) = Life("NONE", a, t, l, o, tr),
           LifecycleOf(id)' = Life(IF answered THEN "SUCCEEDED" ELSE "QUEUED",
                                   answered, t, max, o, tr)
    PROVE  Maps
<1> DEFINE r  == LifecycleOf(id)
           r1 == [r EXCEPT !.limit = max]
           r2 == [r1 EXCEPT !.answered = answered]
           st == IF answered THEN "SUCCEEDED" ELSE "QUEUED"
<1>1. r1 = Life("NONE", a, t, max, o, tr) /\ r.status = "NONE"
  BY DEF Life
<1> HIDE DEF r1, st
<1>2. r2 = Life("NONE", answered, t, max, o, tr)
  BY <1>1 DEF Life
<1> HIDE DEF r2
<1>3. LifecycleOf(id)' = [r2 EXCEPT !.status = st]
  BY <1>2 DEF Life, st
<1>4. LifecycleOf(id)' = [r EXCEPT !.limit = max, !.answered = answered, !.status = st]
  BY <1>3 DEF r1, r2
<1>5. Jobs[id] = r /\ Jobs' = [Jobs EXCEPT ![id] = LifecycleOf(id)']
  BY OneMoves
<1>6. Jobs' = [Jobs EXCEPT ![id].limit = max, ![id].answered = answered, ![id].status = st]
  BY <1>4, <1>5
<1>7. ~Lifecycle!Exists(id)
  BY <1>1, <1>5 DEF Lifecycle!Exists, Lifecycle!None, Jobs
<1>8. Lifecycle!Admit(id)
  <2>1. Jobs' = [Jobs EXCEPT ![id].limit = max, ![id].answered = answered,
                             ![id].status = IF answered THEN "SUCCEEDED" ELSE "QUEUED"]
    BY <1>6 DEF st
  <2>2. \E m \in AttemptLimits, b \in BOOLEAN :
            Jobs' = [Jobs EXCEPT ![id].limit = m, ![id].answered = b,
                                 ![id].status = IF b THEN "SUCCEEDED" ELSE "QUEUED"]
    BY <2>1
  <2> QED BY <1>7, <2>2 DEF Lifecycle!Admit, Jobs
<1> QED BY <1>8 DEF Maps, Lifecycle!Next

-----------------------------------------------------------------------------
(* A step of one worker.  It begins no attempt unless it claims. *)
Keeps(w) ==
    worker'[w].pc \in Attempting =>
        worker[w].pc \in Attempting /\ worker'[w].msg = worker[w].msg

LEMMA TryingStep ==
    ASSUME NEW w \in Workers, OthersStay(w), log' = log, NEW id
    PROVE  Trying(id)' = IF Tries(w, id)' THEN Trying(id) \cup {w} ELSE Trying(id) \ {w}
<1>1. \A v \in Workers \ {w} : Tries(v, id)' <=> Tries(v, id)
  BY DEF OthersStay, Tries, JobOf
<1> QED BY <1>1 DEF Trying

LEMMA SameLife ==
    ASSUME NEW w \in Workers, OthersStay(w), log' = log, DOMAIN job' = DOMAIN job,
           NEW i \in Requests,
           i \in DOMAIN job =>
                job'[i] = job[i] /\ (Owed(i)' <=> Owed(i)) /\ (Tries(w, i)' <=> Tries(w, i))
    PROVE  LifecycleOf(i)' = LifecycleOf(i)
<1>1. CASE i \notin DOMAIN job
  BY <1>1 DEF LifecycleOf
<1>2. CASE i \in DOMAIN job
  <2>1. Trying(i)' = Trying(i)
    BY <1>2, TryingStep DEF Trying
  <2>2. PICK a \in BOOLEAN, o \in BOOLEAN : (Answered(i) <=> a) /\ (Owed(i) <=> o)
    OBVIOUS
  <2>3. (Answered(i)' <=> a) /\ (Owed(i)' <=> o)
    BY <1>2, <2>2 DEF Answered
  <2> QED BY <1>2, <2>1, <2>2, <2>3, LifecycleIs, LifecycleIsThen
<1> QED BY <1>1, <1>2

(* The job of the message in hand, and what a worker tries. *)
LEMMA TriesIts ==
    ASSUME NEW w \in Workers, NEW id
    PROVE  Tries(w, id) <=> worker[w].pc \in Attempting /\ id = JobOf(w)
BY DEF Tries, Attempting

LEMMA KeepsTrying ==
    ASSUME NEW w \in Workers, log' = log, Keeps(w), NEW id
    PROVE  Tries(w, id)' <=> Tries(w, id) /\ worker'[w].pc \in Attempting
BY DEF Keeps, Tries, JobOf, Attempting

LEMMA QuietMaps ==
    ASSUME TypeInv, NEW w \in Workers, OthersStay(w), log' = log, UNCHANGED job, Keeps(w),
           \A i \in DOMAIN job : Owed(i)' <=> Owed(i)
    PROVE  Maps
<1>1. CASE worker[w].pc \in Attempting => worker'[w].pc \in Attempting
  <2>1. \A i \in Requests : Tries(w, i)' <=> Tries(w, i)
    BY <1>1, KeepsTrying, TriesIts
  <2> QED BY <2>1, SameLife, NoneMoves
<1>2. CASE worker[w].pc \in Attempting /\ worker'[w].pc \notin Attempting
  <2>1. PICK id \in DOMAIN job : id = JobOf(w)
    BY <1>2, InHandType DEF Attempting, HandlePoints
  <2>2. id \in Requests /\ id \in DOMAIN job'
    BY DEF TypeInv, TypeOK, JobTypeOK
  <2>3. Tries(w, id) /\ w \in Trying(id) /\ \A i \in Requests : ~Tries(w, i)'
    BY <1>2, <2>1, TriesIts, KeepsTrying DEF Trying
  <2>4. \A i \in Requests \ {id} : ~Tries(w, i)
    BY <2>1, TriesIts
  <2>5. OthersSame(id)
    BY <2>3, <2>4, SameLife DEF OthersSame
  <2>6. Trying(id)' = Trying(id) \ {w}
    BY <2>2, <2>3, TryingStep
  <2>7. w \in LifecycleOf(id).trying
    BY <2>3, FieldsAre
  <2>8. PICK a \in BOOLEAN, o \in BOOLEAN : (Answered(id) <=> a) /\ (Owed(id) <=> o)
    OBVIOUS
  <2>9. LifecycleOf(id) = Life(job[id].status, a, job[id].attempts, job[id].maxAttempts,
                               o, Trying(id))
    BY <2>8, LifecycleIs
  <2>10. Answered(id)' <=> a
    BY <2>8 DEF Answered
  <2>11. LifecycleOf(id)' = Life(job[id].status, a, job[id].attempts, job[id].maxAttempts,
                                o, Trying(id) \ {w})
    BY <2>2, <2>6, <2>8, <2>10, LifecycleIsThen
  <2> QED BY <2>2, <2>5, <2>7, <2>9, <2>11, Abandons
<1> QED BY <1>1, <1>2

(* An acknowledgement, by an attempt that it ends or by someone else. *)
LEMMA AckMaps ==
    ASSUME TypeInv, SettledInv, NEW w \in Workers, OthersStay(w), UNCHANGED job, Keeps(w),
           worker[w].pc \in AckPoints, XAck(worker[w].msg)
    PROVE  Maps
<1>0. /\ StreamTypeOK(DOMAIN job) /\ worker[w].pc \in HandlePoints
      /\ worker[w].msg \in 1..last
  BY DEF TypeInv, TypeOK, MessagesInHand, AckPoints, HandlePoints
<1>1. PICK k \in 1..last : k = worker[w].msg
  BY <1>0
<1>2. PICK id \in DOMAIN job : id = JobOf(w)
  BY <1>0, InHandType
<1>3. /\ id \in Requests /\ id \in DOMAIN job' /\ log[k] = id /\ Settled(id)
  BY <1>1, <1>2 DEF TypeInv, TypeOK, JobTypeOK, JobOf, SettledInv, Knows
<1>4. /\ log' = log /\ MessageIds' = MessageIds /\ ~Unacked(k)'
      /\ \A m \in MessageIds \ {k} : Unacked(m)' <=> Unacked(m)
  BY <1>0, <1>1, OwesLess DEF MessageIds
<1>5. \A i \in DOMAIN job \ {id} : Owed(i)' <=> Owed(i)
  BY <1>3, <1>4 DEF Owed
<1>6. Owed(id)' => Owed(id)
  BY <1>4 DEF Owed
<1>7. CASE Owed(id)' <=> Owed(id)
  BY <1>4, <1>5, <1>7, QuietMaps
<1>8. CASE ~Owed(id)'
  <2>1. \A i \in Requests \ {id} : ~Tries(w, i) /\ ~Tries(w, i)'
    BY <1>2, <1>4, TriesIts, KeepsTrying
  <2>2. OthersSame(id)
    BY <1>4, <1>5, <2>1, SameLife DEF OthersSame
  <2>3. PICK gone \in {{}} \cup {{a} : a \in Workers} :
          gone = IF Tries(w, id) /\ ~Tries(w, id)' THEN {w} ELSE {}
    OBVIOUS
  <2>4. Tries(w, id)' => Tries(w, id)
    BY <1>4, KeepsTrying
  <2>5. Trying(id)' = Trying(id) \ gone
    <3>1. Tries(w, id) <=> w \in Trying(id)
      BY DEF Trying
    <3> QED BY <1>4, <2>3, <2>4, <3>1, TryingStep
  <2>6. PICK a \in BOOLEAN, o \in BOOLEAN, no \in BOOLEAN :
          (Answered(id) <=> a) /\ (Owed(id) <=> o) /\ ~no
    OBVIOUS
  <2>7. LifecycleOf(id) = Life(job[id].status, a, job[id].attempts, job[id].maxAttempts,
                               o, Trying(id))
    BY <2>6, LifecycleIs
  <2>8. Answered(id)' <=> a
    BY <2>6 DEF Answered
  <2>9. LifecycleOf(id)' = Life(job[id].status, a, job[id].attempts, job[id].maxAttempts,
                                no, Trying(id) \ gone)
    <3>1. Owed(id)' <=> no
      BY <1>8, <2>6
    <3>2. LifecycleOf(id)' = Life(job'[id].status, a, job'[id].attempts, job'[id].maxAttempts,
                                  no, Trying(id)')
      BY <1>3, <2>8, <3>1, LifecycleIsThen
    <3> QED BY <2>5, <3>2
  <2>10. LifecycleOf(id).answered \/ job[id].attempts >= job[id].maxAttempts
    <3>1. Answered(id) \/ job[id].attempts >= job[id].maxAttempts
      BY <1>3 DEF Settled, Answered
    <3> QED BY <3>1, FieldsAre
  <2> QED BY <1>3, <2>2, <2>6, <2>7, <2>9, <2>10, Releases
<1> QED BY <1>6, <1>7, <1>8

(* The three statements of an attempt. *)
LEMMA OwedQuiet ==
    ASSUME UNCHANGED streamVars, NEW i
    PROVE  Owed(i)' <=> Owed(i)
BY DEF Owed, MessageIds, Unacked, streamVars

LEMMA BeginMaps ==
    ASSUME TypeInv, NEW w \in Workers, OthersStay(w), UNCHANGED streamVars,
           worker[w].pc = "claim", Claimable(JobOf(w)), MarkRunning(JobOf(w)),
           worker'[w].pc \in Attempting => worker'[w].msg = worker[w].msg
    PROVE  Maps
<1>0. PICK id \in DOMAIN job : id = JobOf(w)
  BY InHandType DEF HandlePoints
<1>1. /\ id \in Requests /\ id \in DOMAIN job' /\ DOMAIN job' = DOMAIN job
      /\ \A i \in DOMAIN job \ {id} : job'[i] = job[i]
      /\ log' = log
  BY <1>0 DEF MarkRunning, streamVars, TypeInv, TypeOK, JobTypeOK
<1>2. /\ job'[id].status = "RUNNING" /\ job'[id].attempts = job[id].attempts + 1
      /\ job'[id].maxAttempts = job[id].maxAttempts /\ job'[id].result = job[id].result
      /\ job[id].status \in {"QUEUED", "RUNNING", "FAILED"}
  BY <1>0 DEF MarkRunning, Claimable, TypeInv, TypeOK, JobTypeOK, Row
<1>3. \A i \in Requests : Owed(i)' <=> Owed(i)
  BY OwedQuiet
<1>4. PICK a \in BOOLEAN, o \in BOOLEAN : (Answered(id) <=> a) /\ (Owed(id) <=> o)
  OBVIOUS
<1>5. LifecycleOf(id) = Life(job[id].status, a, job[id].attempts, job[id].maxAttempts,
                             o, Trying(id))
  BY <1>4, LifecycleIs
<1>6. \A i \in Requests : ~Tries(w, i)
  BY DEF Tries
<1>7. \A i \in Requests : Tries(w, i)' <=> worker'[w].pc \in Attempting /\ i = id
  BY <1>0, <1>1 DEF Tries, JobOf, Attempting
<1>8. OthersSame(id)
  BY <1>1, <1>3, <1>6, <1>7, SameLife DEF OthersSame
<1>9. PICK died \in BOOLEAN : died <=> worker'[w].pc \notin Attempting
  OBVIOUS
<1>10. PICK tries, trying : /\ tries = job[id].attempts + 1
                           /\ trying = IF died THEN Trying(id) ELSE Trying(id) \cup {w}
  OBVIOUS
<1>11. Trying(id)' = trying
  <2>1. w \notin Trying(id)
    BY <1>1, <1>6 DEF Trying
  <2>2. Trying(id)' = IF died THEN Trying(id) ELSE Trying(id) \cup {w}
    BY <1>1, <1>7, <1>9, <2>1, TryingStep
  <2> QED BY <1>10, <2>2
<1>12. Answered(id)' <=> a
  BY <1>2, <1>4 DEF Answered
<1>13. LifecycleOf(id)' = Life("RUNNING", a, tries, job[id].maxAttempts, o, trying)
  BY <1>1, <1>2, <1>3, <1>4, <1>10, <1>11, <1>12, LifecycleIsThen
<1>14. \A i \in Requests : w \notin LifecycleOf(i).trying
  BY <1>6 DEF LifecycleOf
<1> QED BY <1>1, <1>2, <1>5, <1>8, <1>10, <1>13, <1>14, Begins

LEMMA CompleteMaps ==
    ASSUME TypeInv, NEW w \in Workers, OthersStay(w), UNCHANGED streamVars,
           worker[w].pc = "succeed", MarkSucceeded(JobOf(w)),
           worker'[w].pc \in Attempting, worker'[w].msg = worker[w].msg
    PROVE  Maps
<1>0. PICK id \in DOMAIN job : id = JobOf(w)
  BY InHandType DEF HandlePoints
<1>1. /\ id \in Requests /\ id \in DOMAIN job' /\ DOMAIN job' = DOMAIN job
      /\ \A i \in DOMAIN job \ {id} : job'[i] = job[i]
      /\ log' = log
  BY <1>0 DEF MarkSucceeded, streamVars, TypeInv, TypeOK, JobTypeOK
<1>2. /\ job'[id].status = "SUCCEEDED" /\ job'[id].attempts = job[id].attempts
      /\ job'[id].maxAttempts = job[id].maxAttempts
      /\ job'[id].result = Output(job[id].type, job[id].payload)
  BY <1>0 DEF MarkSucceeded, TypeInv, TypeOK, JobTypeOK, Row
<1>3. \A i \in Requests : Owed(i)' <=> Owed(i)
  BY OwedQuiet
<1>4. PICK a \in BOOLEAN, o \in BOOLEAN : (Answered(id) <=> a) /\ (Owed(id) <=> o)
  OBVIOUS
<1>5. LifecycleOf(id) = Life(job[id].status, a, job[id].attempts, job[id].maxAttempts,
                             o, Trying(id))
  BY <1>4, LifecycleIs
<1>6. job'[id].result # Null
  BY <1>2, NullAssumption DEF TypeInv, TypeOK, JobTypeOK, Row, Output, Results
<1>7. \A i \in Requests : (Tries(w, i) <=> i = id) /\ (Tries(w, i)' <=> i = id)
  BY <1>0, <1>1 DEF Tries, JobOf, Attempting
<1>8. OthersSame(id)
  BY <1>1, <1>3, <1>7, SameLife DEF OthersSame
<1>9. w \in Trying(id) /\ Trying(id)' = Trying(id)
  BY <1>1, <1>7, TryingStep DEF Trying
<1>10. PICK yes \in BOOLEAN : yes
  OBVIOUS
<1>11. Answered(id)' <=> yes
  BY <1>6, <1>10 DEF Answered
<1>12. LifecycleOf(id)' = Life("SUCCEEDED", yes, job[id].attempts, job[id].maxAttempts, o,
                               Trying(id))
  BY <1>1, <1>2, <1>3, <1>4, <1>9, <1>11, LifecycleIsThen
<1>13. w \in LifecycleOf(id).trying
  BY <1>9, FieldsAre
<1> QED BY <1>1, <1>5, <1>8, <1>10, <1>12, <1>13, Completes

LEMMA FailMaps ==
    ASSUME TypeInv, SettledInv, NEW w \in Workers, OthersStay(w), UNCHANGED streamVars,
           worker[w].pc = "fail", MarkFailed(JobOf(w), Terminal(w)),
           worker'[w].pc \notin Attempting
    PROVE  Maps
<1>0. PICK id \in DOMAIN job : id = JobOf(w)
  BY InHandType DEF HandlePoints
<1>1. /\ id \in Requests /\ id \in DOMAIN job' /\ DOMAIN job' = DOMAIN job
      /\ \A i \in DOMAIN job \ {id} : job'[i] = job[i]
      /\ log' = log
  BY <1>0 DEF MarkFailed, streamVars, TypeInv, TypeOK, JobTypeOK
<1>2. /\ job'[id].attempts = job[id].attempts /\ job'[id].result = job[id].result
      /\ job'[id].maxAttempts = job[id].maxAttempts
      /\ job'[id].status = IF Terminal(w) THEN "FAILED" ELSE "QUEUED"
  BY <1>0 DEF MarkFailed, TypeInv, TypeOK, JobTypeOK, Row
<1>3. \A i \in Requests : Owed(i)' <=> Owed(i)
  BY OwedQuiet
<1>4. PICK a \in BOOLEAN, o \in BOOLEAN : (Answered(id) <=> a) /\ (Owed(id) <=> o)
  OBVIOUS
<1>5. LifecycleOf(id) = Life(job[id].status, a, job[id].attempts, job[id].maxAttempts,
                             o, Trying(id))
  BY <1>4, LifecycleIs
<1>6. PICK to \in {"QUEUED", "FAILED"} : to = IF Terminal(w) THEN "FAILED" ELSE "QUEUED"
  OBVIOUS
<1>7. to = "FAILED" => job[id].attempts >= job[id].maxAttempts
  BY <1>0, <1>6, TerminalMeansSpent DEF Attempting
<1>8. \A i \in Requests : (Tries(w, i) <=> i = id) /\ ~Tries(w, i)'
  BY <1>0 DEF Tries, Attempting
<1>9. OthersSame(id)
  BY <1>1, <1>3, <1>8, SameLife DEF OthersSame
<1>10. w \in Trying(id) /\ Trying(id)' = Trying(id) \ {w}
  BY <1>1, <1>8, TryingStep DEF Trying
<1>11. Answered(id)' <=> a
  BY <1>2, <1>4 DEF Answered
<1>12. LifecycleOf(id)' = Life(to, a, job[id].attempts, job[id].maxAttempts, o,
                               Trying(id) \ {w})
  BY <1>1, <1>2, <1>3, <1>4, <1>6, <1>10, <1>11, LifecycleIsThen
<1>13. w \in LifecycleOf(id).trying
  BY <1>10, FieldsAre
<1> QED BY <1>1, <1>5, <1>7, <1>9, <1>12, <1>13, Fails

-----------------------------------------------------------------------------
(* Where the moves of the loop lead: out of the handler, or on within it. *)
LEMMA AwayKeeps ==
    ASSUME WorkerTypeOK, NEW w \in Workers,
           \/ LoopAgain(w) \/ NextMessage(w)
           \/ \E batch : Take(w, batch)
           \/ \E pc \in LoopPoints \cup EndPoints : Goto(w, pc) \/ Ends(w, pc)
    PROVE  OthersStay(w) /\ worker'[w].pc \notin Attempting /\ Keeps(w)
<1>1. OthersStay(w) /\ worker'[w].pc \in LoopPoints \cup EndPoints \cup {"claim"}
  BY GotoFacts, TakeFacts, LoopAgainFacts, EndsFacts DEF NextMessage, LoopPoints, EndPoints
<1> QED BY <1>1 DEF Keeps, Attempting, LoopPoints, EndPoints

LEMMA OnKeeps ==
    ASSUME WorkerTypeOK, NEW w \in Workers, NEW pc, Goto(w, pc),
           pc \in Attempting => worker[w].pc \in Attempting
    PROVE  OthersStay(w) /\ Keeps(w) /\ worker'[w].pc = pc /\ worker'[w].msg = worker[w].msg
BY GotoFacts DEF Keeps

LEMMA RaiseKeeps ==
    ASSUME WorkerTypeOK, NEW w \in Workers, Raise(w)
    PROVE  /\ OthersStay(w) /\ Keeps(w)
           /\ worker[w].pc \in {"succeed", "ack"} =>
                worker'[w].pc \in Attempting /\ worker'[w].msg = worker[w].msg
           /\ worker[w].pc \notin {"succeed", "ack"} => worker'[w].pc \notin Attempting
<1>1. CASE worker[w].pc \in {"succeed", "ack"}
  BY <1>1, OnKeeps DEF Raise, Attempting
<1>2. CASE worker[w].pc \notin {"succeed", "ack"}
  BY <1>2, AwayKeeps DEF Raise, EndPoints
<1> QED BY <1>1, <1>2

(* Commands that owe the same leave every job as it is. *)
LEMMA OwedSame ==
    ASSUME TypeInv,
           \/ XGroupCreate \/ UNCHANGED streamVars
           \/ \E n \in Nat : XReadGroup(Undelivered(n))
           \/ \E got : XAutoClaim(got)
           \/ \E m : GoesIdle(m)
    PROVE  log' = log /\ \A i \in DOMAIN job : Owed(i)' <=> Owed(i)
<1>1. log' = log /\ \A m \in MessageIds : Unacked(m)' <=> Unacked(m)
  BY OwesSame DEF TypeInv, TypeOK
<1>2. MessageIds' = MessageIds
  BY <1>1 DEF MessageIds
<1> QED BY <1>1, <1>2 DEF Owed

LEMMA WorkerMaps ==
    ASSUME TypeInv, SettledInv, NEW w \in Workers,
           WorkerStep(w) \/ WorkerFault(w) \/ Restart(w) \/ Ready(w)
    PROVE  Maps
<1>0. WorkerTypeOK /\ worker[w] \in WorkerStates /\ WorkerConcurrency \in Nat
  BY WorkerAssumption DEF TypeInv, TypeOK, WorkerTypeOK
<1>a. ASSUME OthersStay(w), Keeps(w), UNCHANGED job,
             \/ XGroupCreate \/ UNCHANGED streamVars
             \/ \E n \in Nat : XReadGroup(Undelivered(n))
             \/ \E got : XAutoClaim(got)
      PROVE  Maps
  BY <1>a, OwedSame, QuietMaps
<1>1. CASE EnsureGroup(w)
  BY <1>0, <1>a, <1>1, AwayKeeps DEF EnsureGroup
<1>2. CASE Reclaim(w)
  <2>1. OthersStay(w) /\ Keeps(w)
    BY <1>0, <1>2, AwayKeeps DEF Reclaim, LoopPoints
  <2> QED BY <1>a, <1>2, <2>1 DEF Reclaim
<1>3. CASE Read(w)
  <2>1. OthersStay(w) /\ Keeps(w)
    BY <1>0, <1>3, AwayKeeps DEF Read, EndPoints
  <2> QED BY <1>0, <1>a, <1>3, <2>1 DEF Read
<1>4. CASE Claim(w)
  <2>1. CASE /\ Claimable(JobOf(w)) /\ MarkRunning(JobOf(w))
             /\ worker' = [worker EXCEPT ![w].pc = "process",
                                         ![w].attempts = job[JobOf(w)].attempts + 1]
    <3> DEFINE t == [worker[w] EXCEPT !.pc = "process", !.attempts = job[JobOf(w)].attempts + 1]
    <3>1. worker' = [worker EXCEPT ![w] = t] /\ t.msg = worker[w].msg
      BY <1>0, <2>1 DEF WorkerStates
    <3> HIDE DEF t
    <3>2. OthersStay(w) /\ worker'[w].msg = worker[w].msg
      BY <1>0, <3>1 DEF WorkerTypeOK, OthersStay
    <3> QED BY <1>4, <2>1, <3>2, BeginMaps DEF Claim
  <2>2. CASE Goto(w, "ackSkip") /\ UNCHANGED job
    BY <1>0, <1>a, <1>4, <2>2, OnKeeps DEF Claim, Attempting
  <2> QED BY <1>4, <2>1, <2>2 DEF Claim
<1>5. CASE AckSkip(w) \/ Ack(w) \/ AckFailed(w)
  <2>1. /\ worker[w].pc \in AckPoints /\ XAck(worker[w].msg) /\ NextMessage(w) /\ UNCHANGED job
    BY <1>5 DEF AckSkip, Ack, AckFailed, AckPoints
  <2> QED BY <1>0, <2>1, AwayKeeps, AckMaps
<1>6. CASE Process(w)
  BY <1>0, <1>a, <1>6, OnKeeps DEF Process, Attempting
<1>7. CASE Succeed(w)
  <2>1. OthersStay(w) /\ worker'[w].pc \in Attempting /\ worker'[w].msg = worker[w].msg
    BY <1>0, <1>7, OnKeeps DEF Succeed, Attempting
  <2> QED BY <1>7, <2>1, CompleteMaps DEF Succeed
<1>8. CASE Fail(w)
  <2>1. OthersStay(w) /\ worker'[w].pc \notin Attempting
    <3>1. CASE Goto(w, "ackFailed")
      BY <1>0, <3>1, OnKeeps DEF Attempting
    <3> QED BY <1>0, <1>8, <3>1, AwayKeeps DEF Fail
  <2> QED BY <1>8, <2>1, FailMaps DEF Fail
<1>9. CASE CallFails(w)
  BY <1>0, <1>a, <1>9, RaiseKeeps DEF CallFails
<1>10. CASE RedisReplyLost(w)
  <2>1. OthersStay(w) /\ Keeps(w) /\ UNCHANGED job
    BY <1>0, <1>10, RaiseKeeps DEF RedisReplyLost
  <2>2. CASE worker[w].pc \in AckPoints /\ XAck(worker[w].msg)
    BY <2>1, <2>2, AckMaps
  <2> QED BY <1>0, <1>a, <1>10, <2>1, <2>2 DEF RedisReplyLost, AckPoints
<1>11. CASE DbReplyLost(w)
  <2>1. Raise(w) /\ OthersStay(w) /\ UNCHANGED streamVars
    BY <1>0, <1>11, RaiseKeeps DEF DbReplyLost
  <2>2. CASE worker[w].pc = "claim" /\ Claimable(JobOf(w)) /\ MarkRunning(JobOf(w))
    BY <1>0, <2>1, <2>2, RaiseKeeps, BeginMaps
  <2>3. CASE worker[w].pc = "succeed" /\ MarkSucceeded(JobOf(w))
    BY <1>0, <2>1, <2>3, RaiseKeeps, CompleteMaps
  <2>4. CASE worker[w].pc = "fail" /\ MarkFailed(JobOf(w), Terminal(w))
    BY <1>0, <2>1, <2>4, RaiseKeeps, FailMaps
  <2> QED BY <1>11, <2>2, <2>3, <2>4 DEF DbReplyLost
<1>12. CASE Crash(w) \/ Restart(w)
  BY <1>0, <1>a, <1>12, AwayKeeps DEF Crash, Restart, EndPoints, LoopPoints
<1>13. CASE Stop(w)
  <2> DEFINE t == [worker[w] EXCEPT !.running = FALSE]
  <2>1. worker' = [worker EXCEPT ![w] = t] /\ t.pc = worker[w].pc /\ t.msg = worker[w].msg
    BY <1>0, <1>13 DEF WorkerStates, Stop
  <2> HIDE DEF t
  <2>2. OthersStay(w) /\ Keeps(w)
    BY <1>0, <2>1 DEF WorkerTypeOK, OthersStay, Keeps
  <2> QED BY <1>a, <1>13, <2>2 DEF Stop
<1>14. CASE Ready(w)
  BY <1>a, <1>14 DEF Ready, OthersStay, Keeps
<1> QED BY <1>1, <1>2, <1>3, <1>4, <1>5, <1>6, <1>7, <1>8, <1>9, <1>10, <1>11, <1>12, <1>13, <1>14
        DEF WorkerStep, WorkerFault

-----------------------------------------------------------------------------
(* Steps of nobody's worker. *)
LEMMA IdleTrying ==
    ASSUME TypeInv, UNCHANGED worker, LogGrows, NEW id
    PROVE  Trying(id)' = Trying(id)
<1>1. ASSUME NEW w \in Workers, worker[w].pc \in HandlePoints PROVE JobOf(w)' = JobOf(w)
  BY <1>1, InHandType DEF JobOf, LogGrows
<1>2. \A w \in Workers : Tries(w, id)' <=> Tries(w, id)
  BY <1>1 DEF Tries, HandlePoints
<1> QED BY <1>2 DEF Trying

LEMMA IdleLife ==
    ASSUME TypeInv, UNCHANGED worker, LogGrows, NEW i \in Requests,
           i \in DOMAIN job' <=> i \in DOMAIN job,
           i \in DOMAIN job => job'[i] = job[i] /\ (Owed(i)' <=> Owed(i))
    PROVE  LifecycleOf(i)' = LifecycleOf(i)
<1>1. CASE i \notin DOMAIN job
  BY <1>1 DEF LifecycleOf
<1>2. CASE i \in DOMAIN job
  <2>1. Trying(i)' = Trying(i)
    BY IdleTrying
  <2>2. PICK a \in BOOLEAN, o \in BOOLEAN : (Answered(i) <=> a) /\ (Owed(i) <=> o)
    OBVIOUS
  <2>3. Answered(i)' <=> a
    BY <1>2, <2>2 DEF Answered
  <2>4. LifecycleOf(i) = Life(job[i].status, a, job[i].attempts, job[i].maxAttempts, o, Trying(i))
    BY <1>2, <2>2, LifecycleIs
  <2>5. LifecycleOf(i)' = Life(job'[i].status, a, job'[i].attempts, job'[i].maxAttempts, o,
                               Trying(i)')
    BY <1>2, <2>2, <2>3, LifecycleIsThen
  <2> QED BY <1>2, <2>1, <2>4, <2>5
<1> QED BY <1>1, <1>2

LEMMA IdleMaps ==
    ASSUME TypeInv, UNCHANGED <<job, worker>>,
           XGroupCreate \/ UNCHANGED streamVars \/ \E m : GoesIdle(m)
    PROVE  Maps
<1>1. log' = log /\ \A i \in DOMAIN job : Owed(i)' <=> Owed(i)
  BY OwedSame
<1>2. LogGrows
  BY <1>1 DEF LogGrows, MessageIds
<1> QED BY <1>1, <1>2, IdleLife, NoneMoves

(* No message and no attempt is of a job that has no row. *)
LEMMA AbsentIs ==
    ASSUME TypeInv, NEW id, id \notin DOMAIN job
    PROVE  ~Owed(id) /\ Trying(id) = {}
<1>1. \A w \in Workers : ~Tries(w, id)
  BY InHandType DEF Tries, HandlePoints
<1>2. \A m \in MessageIds : log[m] \in DOMAIN job
  BY DEF TypeInv, TypeOK, StreamTypeOK, MessageIds
<1> QED BY <1>1, <1>2 DEF Owed, Trying

LEMMA InsertMaps ==
    ASSUME TypeInv, UNCHANGED <<worker, streamVars>>, NEW r \in Requests, r \notin DOMAIN job,
           NEW row, Insert(r, row), NEW answered \in BOOLEAN, row.result # Null <=> answered,
           row.status = IF answered THEN "SUCCEEDED" ELSE "QUEUED",
           row.attempts = 0, row.maxAttempts \in AttemptLimits
    PROVE  Maps
<1>1. /\ r \in DOMAIN job' /\ job'[r] = row
      /\ \A i \in Requests \ {r} :
            /\ i \in DOMAIN job' <=> i \in DOMAIN job
            /\ i \in DOMAIN job => job'[i] = job[i]
  BY DEF Insert
<1>2. LogGrows
  BY DEF LogGrows, MessageIds, streamVars
<1>3. \A i : Owed(i)' <=> Owed(i)
  BY OwedQuiet
<1>4. OthersSame(r)
  BY <1>1, <1>2, <1>3, IdleLife DEF OthersSame
<1>5. PICK no \in BOOLEAN : no <=> FALSE
  OBVIOUS
<1>6. LifecycleOf(r) = Life("NONE", no, 0, 0, no, {})
  BY <1>5 DEF LifecycleOf, Life
<1>7. ~Owed(r)' /\ Trying(r)' = {}
  BY <1>2, <1>3, AbsentIs, IdleTrying
<1>8. Answered(r)' <=> answered
  BY <1>1 DEF Answered
<1>9. LifecycleOf(r)' = Life(row.status, answered, row.attempts, row.maxAttempts, no, {})
  BY <1>1, <1>5, <1>7, <1>8, LifecycleIsThen
<1> QED BY <1>4, <1>6, <1>9, Admits

(* The message of an XADD, once or twice. *)
LEMMA PromiseMaps ==
    ASSUME TypeInv, UNCHANGED <<worker, job>>, NEW id \in DOMAIN job, XAdd(id) \/ XAddTwice(id)
    PROVE  Maps
<1>0. StreamTypeOK(DOMAIN job) /\ id \in Requests
  BY DEF TypeInv, TypeOK, JobTypeOK
<1>1. /\ \A m \in MessageIds : m \in MessageIds' /\ log'[m] = log[m]
      /\ \A m \in MessageIds : Unacked(m)' <=> Unacked(m)
      /\ \A m \in MessageIds' \ MessageIds : log'[m] = id
      /\ \E m \in MessageIds' : log'[m] = id /\ Unacked(m)' /\ m \notin 1..last
  BY <1>0, OwesMore
<1>2. LogGrows
  BY <1>1 DEF LogGrows
<1>3. Owed(id)' /\ \A i \in DOMAIN job \ {id} : Owed(i)' <=> Owed(i)
  BY <1>1 DEF Owed
<1>4. OthersSame(id)
  BY <1>2, <1>3, IdleLife DEF OthersSame
<1>5. PICK a \in BOOLEAN, o \in BOOLEAN, yes \in BOOLEAN :
        (Answered(id) <=> a) /\ (Owed(id) <=> o) /\ yes
  OBVIOUS
<1>6. LifecycleOf(id) = Life(job[id].status, a, job[id].attempts, job[id].maxAttempts, o,
                             Trying(id))
  BY <1>5, LifecycleIs
<1>7. Answered(id)' <=> a
  BY <1>5 DEF Answered
<1>8. Trying(id)' = Trying(id)
  BY <1>2, IdleTrying
<1>9. LifecycleOf(id)' = Life(job[id].status, a, job[id].attempts, job[id].maxAttempts, yes,
                              Trying(id))
  <2>1. id \in DOMAIN job' /\ job' = job
    OBVIOUS
  <2>2. Owed(id)' <=> yes
    BY <1>3, <1>5
  <2> QED BY <2>1, <2>2, <1>7, <1>8, LifecycleIsThen
<1>10. job[id].status # "NONE"
  BY DEF TypeInv, TypeOK, JobTypeOK, Row, AiJobStatuses
<1> QED BY <1>0, <1>4, <1>5, <1>6, <1>9, <1>10, Promises

LEMMA RequestMaps ==
    ASSUME TypeInv, SettledInv, NEW r \in Requests, RequestStep(r) \/ RequestFault(r),
           UNCHANGED worker
    PROVE  Maps
<1>0. /\ request[r].pc \in BeforeInsert => r \notin DOMAIN job
      /\ request[r].pc \in AfterInsert => r \in DOMAIN job
      /\ Body(r).maxAttempts \in AttemptLimits
      /\ request[r].pc = "cached" => request[r].value # Null
  BY BodiesAssumption
     DEF TypeInv, TypeOK, RowsOfRequests, ServiceTypeOK, RequestStates, Body, SettledInv,
         RequestKnows
<1>1. CASE \/ request[r].pc = "cached" /\ CreateSucceeded(r, Body(r), request[r].value)
           \/ request[r].pc = "insert" /\ CreateQueued(r, Body(r))
      /\ UNCHANGED streamVars
  <2>1. r \notin DOMAIN job
    BY <1>0, <1>1 DEF BeforeInsert
  <2>2. \E row :
          /\ Insert(r, row) /\ row.attempts = 0 /\ row.maxAttempts = Body(r).maxAttempts
          /\ \/ row.status = "SUCCEEDED" /\ row.result # Null
             \/ row.status = "QUEUED" /\ row.result = Null
    BY <1>0, <1>1 DEF CreateSucceeded, CreateQueued
  <2>3. PICK row :
          /\ Insert(r, row) /\ row.attempts = 0 /\ row.maxAttempts = Body(r).maxAttempts
          /\ \/ row.status = "SUCCEEDED" /\ row.result # Null
             \/ row.status = "QUEUED" /\ row.result = Null
    BY <2>2
  <2>4. PICK answered \in BOOLEAN : row.result # Null <=> answered
    OBVIOUS
  <2>5. row.status = IF answered THEN "SUCCEEDED" ELSE "QUEUED"
    BY <2>3, <2>4
  <2> QED BY <1>0, <1>1, <2>1, <2>3, <2>4, <2>5, InsertMaps
<1>2. CASE UNCHANGED job /\ request[r].pc \in AfterInsert /\ (XAdd(r) \/ XAddTwice(r))
  BY <1>0, <1>2, PromiseMaps
<1>3. CASE UNCHANGED job /\ (UNCHANGED streamVars \/ XGroupCreate)
  BY <1>3, IdleMaps
<1> QED BY <1>1, <1>2, <1>3
        DEF RequestStep, RequestFault, AssertQueueReady, FindExisting, GetCached,
            InsertCached, InsertQueued, UniqueViolation, EnsureConsumerGroup, Enqueue,
            RequestFails, RequestReplyLost, AfterInsert

(* The stream is lost with all it owed. *)
LEMMA EvictMaps ==
    ASSUME TypeInv, EvictStream
    PROVE  Maps
<1>1. "evict" \in Faults /\ log' = log /\ UNCHANGED <<job, worker>>
  BY DEF EvictStream, Spend, StreamLost
<1>2. \A i : ~Owed(i)'
  BY DEF Owed, Unacked, MessageIds, EvictStream, StreamLost, TypeInv, TypeOK, StreamTypeOK
<1>3. LogGrows
  BY <1>1 DEF LogGrows, MessageIds
<1>4. ASSUME NEW i \in Requests
      PROVE  LifecycleOf(i)' = [LifecycleOf(i) EXCEPT !.owed = FALSE]
  <2>1. CASE i \notin DOMAIN job
    <3>1. PICK no \in BOOLEAN : no = FALSE
      OBVIOUS
    <3>2. LifecycleOf(i) = Life("NONE", no, 0, 0, no, {})
      BY <2>1, <3>1 DEF LifecycleOf, Life
    <3>3. LifecycleOf(i)' = LifecycleOf(i)
      BY <1>1, <2>1 DEF LifecycleOf
    <3>4. LifecycleOf(i)' = [LifecycleOf(i) EXCEPT !.owed = no]
      BY <3>2, <3>3 DEF Life
    <3> QED BY <3>1, <3>4
  <2>2. CASE i \in DOMAIN job
    <3>1. PICK a \in BOOLEAN, o \in BOOLEAN, no \in BOOLEAN :
            (Answered(i) <=> a) /\ (Owed(i) <=> o) /\ no = FALSE
      OBVIOUS
    <3>2. LifecycleOf(i) = Life(job[i].status, a, job[i].attempts, job[i].maxAttempts, o,
                                Trying(i))
      BY <2>2, <3>1, LifecycleIs
    <3>3. Answered(i)' <=> a
      BY <1>1, <3>1 DEF Answered
    <3>4. Trying(i)' = Trying(i)
      BY <1>1, <1>3, IdleTrying
    <3>5. LifecycleOf(i)' = Life(job[i].status, a, job[i].attempts, job[i].maxAttempts, no,
                                 Trying(i))
      BY <1>1, <1>2, <2>2, <3>1, <3>3, <3>4, LifecycleIsThen
    <3>6. LifecycleOf(i)' = [LifecycleOf(i) EXCEPT !.owed = no]
      BY <3>2, <3>5 DEF Life
    <3> QED BY <3>1, <3>6
  <2> QED BY <2>1, <2>2
<1>5. Lifecycle!LoseAll
  BY <1>1, <1>4 DEF Lifecycle!LoseAll, Jobs
<1> QED BY <1>5 DEF Maps, Lifecycle!Next

-----------------------------------------------------------------------------
LEMMA InitMaps == Init => Lifecycle!Init
<1> SUFFICES ASSUME Init PROVE Lifecycle!Init
  OBVIOUS
<1>1. DOMAIN job = {}
  BY DEF Init, JobInit
<1> QED BY <1>1 DEF Lifecycle!Init, Lifecycle!Absent, Lifecycle!None, LifecycleOf

LEMMA NextMaps ==
    ASSUME TypeInv, SettledInv, [Next]_vars
    PROVE  Maps
<1>1. CASE \E r \in Requests : (RequestStep(r) \/ RequestFault(r)) /\ UNCHANGED worker
  BY <1>1, RequestMaps
<1>2. CASE \E w \in Workers : WorkerStep(w) \/ WorkerFault(w) \/ Restart(w) \/ Ready(w)
  BY <1>2, WorkerMaps
<1>3. CASE EvictStream
  BY <1>3, EvictMaps
<1>4. CASE \/ \E u \in Users : PollStep(u) /\ UNCHANGED worker
           \/ \E k \in CacheKeys : ExpireCache(k) /\ UNCHANGED worker
           \/ \E m \in MessageIds : ClaimIdlePasses(m) /\ UNCHANGED serviceVars
           \/ UNCHANGED vars
  <2>1. UNCHANGED <<job, worker>> /\ (UNCHANGED streamVars \/ \E m : GoesIdle(m))
    BY <1>4 DEF PollStep, GetJob, CacheJobResult, NothingCached, ExpireCache, ClaimIdlePasses,
                vars
  <2> QED BY <2>1, IdleMaps
<1> QED BY <1>1, <1>2, <1>3, <1>4 DEF Next

(* Whatever fails, and with any number of requests, workers and faults, a job
   moves only as the at-least-once lifecycle allows. *)
THEOREM PipelineImplementsLifecycle == Spec => ImplementsLifecycle
<1>1. TypeInv /\ SettledInv /\ [Next]_vars => [Lifecycle!Next]_Jobs
  BY NextMaps DEF Maps
<1> QED BY <1>1, InitMaps, InitTypeInv, NextTypeInv, InitSettledInv, NextSettledInv, PTL
        DEF Spec, ImplementsLifecycle, Lifecycle!Spec, Jobs

=============================================================================
