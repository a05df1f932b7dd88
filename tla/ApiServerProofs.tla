--------------------------- MODULE ApiServerProofs ---------------------------
(***************************************************************************)
(* Theorems of ApiServer for every number of replicas, requests, addresses  *)
(* and every limit, and any faults.                                         *)
(***************************************************************************)
EXTENDS ApiServer, FiniteSetTheorems, TLAPS

Serves(r) == replica[r] \in {"listening", "draining"}
Runs(r)   == Serves(r) \/ replica[r] = "closing"

(* The client of a process quits when it closes, and not before. *)
ClientInv ==
    \A r \in Replicas :
        /\ replica[r] # "closing" => client[r] # "quit"
        /\ redisUrl /\ Runs(r) => client[r] # "none"

(* A handler is on a process that runs, with a Redis client if it is to use it, and
   its own client waits only for one that still serves. *)
Placed(s) ==
    /\ s.on \in Replicas /\ s.source \in Sources
    /\ Runs(s.on)
    /\ s.waits => Serves(s.on)
    /\ s.pc = "queue" => client[s.on] # "none"

HandlerInv == \A q \in Requests : request[q].pc \in InFlight => Placed(request[q])

(* A request past the limiter has been counted at most once; each count more
   is of a command that was sent again. *)
Counted == {q \in Requests : request[q].pc \notin {"unsent", "limiter"}}

CountInv ==
    \A s \in Stores, a \in Sources :
        count[s][a] \in Nat /\ count[s][a] <= Cardinality(Counted) + faults

(* What Redis let through it has counted, or forgotten together with a window's
   worth of others. *)
LimitInv ==
    redisUrl => \A a \in Sources :
        /\ admitted[a] <= Max * losses[a] + count["redis"][a]
        /\ admitted[a] <= Max * losses[a] + Max

ApiInv == TypeOK /\ ClientInv /\ HandlerInv /\ CountInv /\ LimitInv /\ OnlyFaultsCut

-----------------------------------------------------------------------------
LEMMA CountedFinite ==
    ASSUME NEW S, S \subseteq Requests
    PROVE  IsFiniteSet(S) /\ Cardinality(S) \in Nat /\ Cardinality(S) <= Cardinality(Requests)
           /\ Cardinality(Requests) \in Nat
BY ApiServerAssumption, FS_Subset, FS_CardinalityType

(* A step of a process that ends no request. *)
LEMMA ProcessKeeps ==
    ASSUME ApiInv, NEW r \in Replicas, NEW state \in ProcessStates, NEW c \in {"none", "open", "quit"},
           replica' = [replica EXCEPT ![r] = state], client' = [client EXCEPT ![r] = c],
           UNCHANGED <<request, count, world, faults>>,
           state # "closing" => c # "quit", client[r] # "none" => c # "none",
           redisUrl /\ state \in {"listening", "draining", "closing"} => c # "none",
           Active(r) # {} => state \in {"listening", "draining", "closing"},
           Connected(r) # {} => state \in {"listening", "draining"}
    PROVE  ApiInv'
<1>0. /\ TypeOK /\ ClientInv /\ HandlerInv /\ CountInv /\ LimitInv /\ OnlyFaultsCut
      /\ UNCHANGED <<request, count, up, redisUrl, admitted, losses, faults>>
  BY DEF ApiInv, world
<1>1. /\ replica' \in [Replicas -> ProcessStates] /\ client' \in [Replicas -> {"none", "open", "quit"}]
      /\ replica'[r] = state /\ client'[r] = c
      /\ \A s \in Replicas \ {r} : replica'[s] = replica[s] /\ client'[s] = client[s]
  BY <1>0 DEF TypeOK
<1>2. TypeOK'
  BY <1>0, <1>1 DEF TypeOK, FaultsTypeOK
<1>3. ClientInv'
  BY <1>0, <1>1 DEF ClientInv, Runs, Serves
<1>4. HandlerInv'
  BY <1>0, <1>1 DEF HandlerInv, Placed, Runs, Serves, Active, Connected
<1>5. CountInv' /\ LimitInv' /\ OnlyFaultsCut'
  BY <1>0 DEF CountInv, Counted, LimitInv, OnlyFaultsCut, At
<1> QED BY <1>2, <1>3, <1>4, <1>5 DEF ApiInv

LEMMA OverIsOver ==
    ASSUME TypeOK, NEW q \in Requests, NEW pc \in Answers
    PROVE  Over(q, pc) \in RequestStates /\ Over(q, pc).pc \in {pc, "unseen"}
BY DEF Over, Nowhere, RequestStates, Answers

(* More was counted and no counter grew. *)
LEMMA CountersKept ==
    ASSUME CountInv, Counted \subseteq Counted', Counted' \subseteq Requests,
           faults \in Nat, faults' \in Nat, faults <= faults',
           DOMAIN count' = Stores, \A s \in Stores : count'[s] \in [Sources -> Nat],
           count' = [s \in Stores |-> count'[s]],
           \A s \in Stores, a \in Sources : count'[s][a] = 0 \/ count'[s][a] = count[s][a]
    PROVE  CountInv' /\ count' \in [Stores -> [Sources -> 0..(Cardinality(Requests) + faults')]]
<1>1. /\ Cardinality(Counted) \in Nat /\ Cardinality(Counted') \in Nat
      /\ Cardinality(Requests) \in Nat
      /\ Cardinality(Counted) <= Cardinality(Counted')
      /\ Cardinality(Counted') <= Cardinality(Requests)
  BY CountedFinite, FS_Subset, FS_CardinalityType
<1>2. \A s \in Stores, a \in Sources :
        count'[s][a] \in Nat /\ count'[s][a] <= Cardinality(Counted') + faults'
  <2> SUFFICES ASSUME NEW s \in Stores, NEW a \in Sources
               PROVE  count'[s][a] \in Nat /\ count'[s][a] <= Cardinality(Counted') + faults'
    OBVIOUS
  <2>1. count[s][a] \in Nat /\ count[s][a] <= Cardinality(Counted) + faults
    BY DEF CountInv
  <2>2. count'[s][a] = 0 \/ count'[s][a] = count[s][a]
    OBVIOUS
  <2> QED BY <1>1, <2>1, <2>2
<1>3. CountInv'
  BY <1>2 DEF CountInv
<1>4. \A s \in Stores, a \in Sources : count'[s][a] \in 0..(Cardinality(Requests) + faults')
  BY <1>1, <1>2
<1>5. \A s \in Stores : count'[s] \in [Sources -> 0..(Cardinality(Requests) + faults')]
  BY <1>4
<1> QED BY <1>3, <1>5

(* A process ends: with a client that waits for it only by a fault. *)
LEMMA EndKeeps ==
    ASSUME ApiInv, NEW r \in Replicas, Ends(r), UNCHANGED world, FaultsTypeOK',
           UNCHANGED faults \/ faults' = faults + 1, Connected(r) = {} \/ faults' > 0
    PROVE  ApiInv'
<1>0. TypeOK /\ ClientInv /\ HandlerInv /\ CountInv /\ LimitInv /\ OnlyFaultsCut
      /\ faults \in Nat /\ faults' \in Nat /\ faults <= faults'
      /\ UNCHANGED <<up, redisUrl, admitted, losses>>
  BY FaultsAssumption DEF ApiInv, TypeOK, FaultsTypeOK, world
<1>1. /\ replica' \in [Replicas -> ProcessStates] /\ client' \in [Replicas -> {"none", "open", "quit"}]
      /\ replica'[r] = "off" /\ client'[r] = "none"
      /\ \A s \in Replicas \ {r} : replica'[s] = replica[s] /\ client'[s] = client[s]
  BY <1>0 DEF Ends, TypeOK, ProcessStates
<1>2. /\ \A q \in Requests : /\ q \in Active(r) => request'[q] = Over(q, "cut")
                             /\ q \notin Active(r) => request'[q] = request[q]
      /\ request' = [q \in Requests |-> request'[q]]
  BY DEF Ends
<1>3. /\ \A q \in Requests : Over(q, "cut") \in RequestStates /\ Over(q, "cut").pc \in {"cut", "unseen"}
      /\ \A q \in Active(r) : q \notin Connected(r) => Over(q, "cut").pc = "unseen"
  BY <1>0, OverIsOver DEF Answers, Connected, Over, Nowhere, Active
<1>4. request' \in [Requests -> RequestStates]
  <2>1. \A q \in Requests : request'[q] \in RequestStates
    BY <1>0, <1>2, <1>3 DEF TypeOK
  <2> QED BY <1>2, <2>1
<1>5. ClientInv'
  BY <1>0, <1>1 DEF ClientInv, Runs, Serves
<1>6. HandlerInv'
  <2> SUFFICES ASSUME NEW q \in Requests, request'[q].pc \in InFlight
               PROVE  Placed(request[q])'
    BY DEF HandlerInv
  <2>1. q \notin Active(r) /\ request'[q] = request[q]
    BY <1>2, <1>3 DEF InFlight
  <2>2. Placed(request[q]) /\ request[q].on # r
    BY <1>0, <2>1 DEF HandlerInv, Active
  <2> QED BY <1>1, <2>1, <2>2 DEF Placed, Runs, Serves
<1>7. OnlyFaultsCut'
  <2> SUFFICES ASSUME NEW q \in Requests, request'[q].pc = "cut", ~(faults' > 0)
               PROVE  FALSE
    BY DEF OnlyFaultsCut, At
  <2>1. q \notin Active(r)
    BY <1>2, <1>3
  <2> QED BY <1>0, <1>2, <2>1 DEF OnlyFaultsCut, At
<1>8. /\ \A a \in Sources : count'[r][a] = 0
      /\ \A s \in Stores \ {r} : count'[s] = count[s]
      /\ DOMAIN count' = Stores /\ count' = [s \in Stores |-> count'[s]]
      /\ \A s \in Stores : count'[s] \in [Sources -> Nat]
  <2>1. count' = [count EXCEPT ![r] = [a \in Sources |-> 0]] /\ r \in Stores
    BY DEF Ends, Stores
  <2>2. count \in [Stores -> [Sources -> Nat]]
    <3>1. count \in [Stores -> [Sources -> 0..(Cardinality(Requests) + faults)]]
      BY <1>0 DEF TypeOK
    <3>2. 0..(Cardinality(Requests) + faults) \subseteq Nat
      BY <1>0, CountedFinite
    <3> QED BY <3>1, <3>2
  <2> QED BY <2>1, <2>2
<1>9. Counted \subseteq Counted' /\ Counted' \subseteq Requests
  BY <1>2, <1>3 DEF Counted, Active, InFlight
<1>10. CountInv' /\ count' \in [Stores -> [Sources -> 0..(Cardinality(Requests) + faults')]]
  <2>1. \A s \in Stores, a \in Sources : count'[s][a] = 0 \/ count'[s][a] = count[s][a]
    BY <1>8
  <2>2. CountInv
    BY <1>0
  <2> QED BY <1>0, <1>8, <1>9, <2>1, <2>2, CountersKept
<1>11. LimitInv'
  <2>1. count'["redis"] = count["redis"]
    BY <1>8, ApiServerAssumption DEF Stores
  <2> QED BY <1>0, <2>1 DEF LimitInv
<1>12. TypeOK'
  BY <1>0, <1>1, <1>4, <1>10 DEF TypeOK
<1> QED BY <1>5, <1>6, <1>7, <1>10, <1>11, <1>12 DEF ApiInv

-----------------------------------------------------------------------------
(* The steps of a process. *)
LEMMA ProcessSteps ==
    ASSUME ApiInv, NEW r \in Replicas, ProcessStep(r)
    PROVE  ApiInv'
<1>0. /\ TypeOK /\ ClientInv /\ HandlerInv /\ FaultsTypeOK /\ faults \in Nat
      /\ client[r] \in {"none", "open", "quit"} /\ replica[r] \in ProcessStates
      /\ replica = [replica EXCEPT ![r] = replica[r]] /\ client = [client EXCEPT ![r] = client[r]]
      /\ replica[r] # "closing" => client[r] # "quit"
      /\ redisUrl /\ Runs(r) => client[r] # "none"
  BY DEF ApiInv, TypeOK, ClientInv, FaultsTypeOK
<1>1. /\ Active(r) # {} => Runs(r)
      /\ Connected(r) # {} => Serves(r)
  BY <1>0 DEF HandlerInv, Placed, Active, Connected
<1>2. CASE Start(r)
  BY <1>0, <1>1, <1>2, ProcessKeeps DEF Start, Runs, Serves, ProcessStates
<1>3. CASE LoadRedis(r)
  <2>1. CASE Ends(r)
    BY <1>0, <1>1, <1>3, <2>1, EndKeeps DEF LoadRedis, Serves, FaultsTypeOK
  <2>2. CASE client' = [client EXCEPT ![r] = "open"] /\ UNCHANGED <<replica, request, count>>
    BY <1>0, <1>1, <1>3, <2>2, ProcessKeeps DEF LoadRedis, Runs, Serves
  <2> QED BY <1>3, <2>1, <2>2 DEF LoadRedis
<1>4. CASE Listen(r)
  BY <1>0, <1>1, <1>4, ProcessKeeps DEF Listen, Runs, Serves, ProcessStates
<1>5. CASE Terminate(r)
  <2>1. CASE replica[r] = "loading" /\ Ends(r)
    BY <1>0, <1>1, <1>5, <2>1, EndKeeps DEF Terminate, Serves, FaultsTypeOK
  <2>2. CASE replica[r] = "listening" /\ replica' = [replica EXCEPT ![r] = "draining"]
             /\ UNCHANGED <<client, request, count>>
    BY <1>0, <1>1, <1>5, <2>2, ProcessKeeps DEF Terminate, Runs, Serves, ProcessStates
  <2> QED BY <1>5, <2>1, <2>2 DEF Terminate
<1>6. CASE RunCloseHooks(r)
  <2>1. PICK c \in {"open", "quit", "none"} :
          /\ client' = [client EXCEPT ![r] = c]
          /\ redisUrl => c # "none"
          /\ client[r] # "none" => c # "none"
    BY <1>0, <1>6 DEF RunCloseHooks, Runs, Serves
  <2> QED BY <1>0, <1>6, <2>1, ProcessKeeps DEF RunCloseHooks, ProcessStates
<1>7. CASE Exit(r)
  BY <1>0, <1>1, <1>7, EndKeeps DEF Exit, Serves, FaultsTypeOK
<1>8. CASE GraceDelayPasses(r) \/ Crash(r)
  <2>1. Ends(r) /\ UNCHANGED world /\ faults' = faults + 1 /\ faults < MaxFaults
    BY <1>8 DEF GraceDelayPasses, Crash, Spend
  <2>2. FaultsTypeOK' /\ faults' > 0
    BY <1>0, <2>1, FaultsAssumption DEF FaultsTypeOK
  <2> QED BY <2>1, <2>2, EndKeeps
<1> QED BY <1>2, <1>3, <1>4, <1>5, <1>6, <1>7, <1>8 DEF ProcessStep

(* A request that moves on, is answered, or loses its client. *)
LEMMA MoveKeeps ==
    ASSUME ApiInv, NEW q \in Requests, NEW s \in RequestStates,
           request' = [request EXCEPT ![q] = s],
           s.pc # "cut" \/ request[q].pc = "cut",
           s.pc \notin {"unsent", "limiter"} \/ request[q].pc \in {"unsent", "limiter"},
           s.pc \in InFlight => Placed(s),
           UNCHANGED <<replica, client, count, world, faults>>
    PROVE  ApiInv'
<1>0. /\ TypeOK /\ HandlerInv /\ CountInv /\ OnlyFaultsCut /\ ClientInv /\ LimitInv
      /\ UNCHANGED <<replica, client, count, up, redisUrl, admitted, losses, faults>>
      /\ faults \in Nat
  BY DEF ApiInv, world, TypeOK, FaultsTypeOK
<1>1. /\ request' \in [Requests -> RequestStates] /\ request'[q] = s
      /\ \A p \in Requests \ {q} : request'[p] = request[p]
  BY <1>0 DEF TypeOK
<1>2. TypeOK'
  BY <1>0, <1>1 DEF TypeOK, FaultsTypeOK
<1>3. HandlerInv'
  <2> SUFFICES ASSUME NEW p \in Requests, request'[p].pc \in InFlight
               PROVE  Placed(request'[p])
    BY <1>0 DEF HandlerInv, Placed, Runs, Serves
  <2>1. CASE p = q
    BY <1>1, <2>1
  <2>2. CASE p # q
    BY <1>0, <1>1, <2>2 DEF HandlerInv
  <2> QED BY <2>1, <2>2
<1>4. OnlyFaultsCut'
  BY <1>0, <1>1 DEF OnlyFaultsCut, At
<1>5. Counted \subseteq Counted' /\ Counted' \subseteq Requests
  BY <1>1 DEF Counted
<1>6. CountInv'
  <2>1. Cardinality(Counted) <= Cardinality(Counted')
        /\ Cardinality(Counted) \in Nat /\ Cardinality(Counted') \in Nat
    BY <1>5, CountedFinite, FS_Subset, FS_CardinalityType
  <2> QED BY <1>0, <2>1 DEF CountInv
<1>7. ClientInv' /\ LimitInv'
  BY <1>0 DEF ClientInv, LimitInv, Runs, Serves
<1> QED BY <1>2, <1>3, <1>4, <1>6, <1>7 DEF ApiInv

(* Where a step of its own brings a request. *)
LEMMA GoesTo ==
    ASSUME ApiInv, NEW q \in Requests, request[q].pc \in InFlight,
           NEW pc \in {"database", "ok", "limited", "unavailable", "error"}, Goes(q, pc)
    PROVE  \E s \in RequestStates :
             /\ request' = [request EXCEPT ![q] = s]
             /\ s.pc \in {"database", "ok", "limited", "unavailable", "error", "unseen"}
             /\ s.pc \in InFlight => Placed(s)
<1>1. TypeOK /\ request[q] \in RequestStates /\ Placed(request[q])
  BY DEF ApiInv, TypeOK, HandlerInv
<1>2. CASE pc # "database"
  <2>1. Over(q, pc) \in RequestStates /\ Over(q, pc).pc \in {pc, "unseen"} /\ pc \in Answers
    BY <1>1, <1>2, OverIsOver DEF Answers
  <2>2. request' = [request EXCEPT ![q] = Over(q, pc)]
    BY <2>1 DEF Goes
  <2> QED BY <1>2, <2>1, <2>2 DEF InFlight
<1>3. CASE pc = "database"
  <2> DEFINE s == [request[q] EXCEPT !.pc = pc]
  <2>1. /\ s \in RequestStates /\ s.pc = pc /\ s.on = request[q].on
        /\ s.waits = request[q].waits /\ s.source = request[q].source
    BY <1>1, <1>3 DEF RequestStates, InFlight
  <2>2. request' = [request EXCEPT ![q] = s]
    BY <1>3 DEF Goes, Answers
  <2> HIDE DEF s
  <2>3. Placed(s)
    BY <1>1, <2>1 DEF Placed
  <2> QED BY <1>3, <2>1, <2>2, <2>3
<1> QED BY <1>2, <1>3

(* A request in flight stays where it is, with its route known or its client gone. *)
LEMMA StaysPut ==
    ASSUME ApiInv, NEW q \in Requests, request[q].pc \in InFlight,
           \/ /\ request[q].pc = "database" /\ client[request[q].on] # "none"
              /\ \E kind \in Kinds : request' = [request EXCEPT ![q].pc = "queue", ![q].kind = kind]
           \/ request' = [request EXCEPT ![q].waits = FALSE],
           UNCHANGED <<replica, client, count, world, faults>>
    PROVE  ApiInv'
<1>1. request[q] \in RequestStates /\ Placed(request[q]) /\ request \in [Requests -> RequestStates]
  BY DEF ApiInv, TypeOK, HandlerInv
<1>2. CASE /\ client[request[q].on] # "none"
           /\ \E kind \in Kinds : request' = [request EXCEPT ![q].pc = "queue", ![q].kind = kind]
  <2>1. PICK kind \in Kinds : request' = [request EXCEPT ![q].pc = "queue", ![q].kind = kind]
    BY <1>2
  <2> DEFINE s == [request[q] EXCEPT !.pc = "queue", !.kind = kind]
  <2>2. /\ s \in RequestStates /\ s.pc = "queue" /\ s.on = request[q].on
        /\ s.waits = request[q].waits /\ s.source = request[q].source
    BY <1>1 DEF RequestStates, InFlight
  <2>3. request' = [request EXCEPT ![q] = s]
    BY <1>1, <2>1
  <2> HIDE DEF s
  <2>4. Placed(s)
    BY <1>1, <1>2, <2>2 DEF Placed
  <2> QED BY <2>2, <2>3, <2>4, MoveKeeps
<1>3. CASE request' = [request EXCEPT ![q].waits = FALSE]
  <2> DEFINE s == [request[q] EXCEPT !.waits = FALSE]
  <2>2. /\ s \in RequestStates /\ s.pc = request[q].pc /\ s.on = request[q].on
        /\ s.waits = FALSE /\ s.source = request[q].source
    BY <1>1 DEF RequestStates
  <2>3. request' = [request EXCEPT ![q] = s]
    BY <1>1, <1>3
  <2> HIDE DEF s
  <2>4. Placed(s)
    BY <1>1, <2>2 DEF Placed
  <2> QED BY <2>2, <2>3, <2>4, MoveKeeps
<1> QED BY <1>2, <1>3

LEMMA HandlerSteps ==
    ASSUME ApiInv, NEW q \in Requests, QueryDatabase(q) \/ UseRedis(q) \/ HangUp(q)
    PROVE  ApiInv'
<1>0. request[q].pc \in InFlight /\ UNCHANGED <<replica, client, count, world, faults>>
  BY DEF QueryDatabase, UseRedis, HangUp, At, InFlight
<1>1. CASE HangUp(q)
  BY <1>0, <1>1, StaysPut DEF HangUp
<1>2. CASE /\ request[q].pc = "database" /\ client[request[q].on] # "none"
           /\ \E kind \in Kinds : request' = [request EXCEPT ![q].pc = "queue", ![q].kind = kind]
  BY <1>0, <1>2, StaysPut
<1>3. CASE \E pc \in {"ok", "unavailable", "error"} : Goes(q, pc)
  <2>1. PICK pc \in {"ok", "unavailable", "error"} : Goes(q, pc)
    BY <1>3
  <2>2. PICK s \in RequestStates :
          /\ request' = [request EXCEPT ![q] = s]
          /\ s.pc \in {"database", "ok", "limited", "unavailable", "error", "unseen"}
          /\ s.pc \in InFlight => Placed(s)
    BY <1>0, <2>1, GoesTo
  <2> QED BY <1>0, <2>2, MoveKeeps
<1>4. CASE UseRedis(q)
  BY <1>3, <1>4 DEF UseRedis
<1>5. CASE QueryDatabase(q)
  BY <1>2, <1>3, <1>5 DEF QueryDatabase, At
<1> QED BY <1>1, <1>4, <1>5

LEMMA AcceptKeeps ==
    ASSUME ApiInv, NEW q \in Requests, NEW r \in Replicas, Accept(q, r)
    PROVE  ApiInv'
<1>1. PICK a \in Sources :
        request' = [request EXCEPT ![q] =
            [pc |-> "limiter", on |-> r, kind |-> Null, source |-> a, waits |-> TRUE]]
  BY DEF Accept
<1> DEFINE s == [pc |-> "limiter", on |-> r, kind |-> Null, source |-> a, waits |-> TRUE]
<1>2. s \in RequestStates /\ s.pc = "limiter" /\ s.on = r /\ s.source = a
  BY DEF RequestStates, InFlight
<1>3. request' = [request EXCEPT ![q] = s]
  BY <1>1
<1> HIDE DEF s
<1>4. Placed(s)
  BY <1>2 DEF Accept, Placed, Runs, Serves
<1> QED BY <1>2, <1>3, <1>4, MoveKeeps DEF Accept

-----------------------------------------------------------------------------
(* One counter is set, within what has been counted. *)
LEMMA CounterSet ==
    ASSUME CountInv, NEW s \in Stores, NEW a \in Sources, NEW n \in Nat,
           faults \in Nat, faults' \in Nat, faults <= faults',
           count' \in [Stores -> [Sources -> Nat]], count'[s][a] = n,
           \A t \in Stores, b \in Sources : t # s \/ b # a => count'[t][b] = count[t][b],
           Counted \subseteq Counted', Counted' \subseteq Requests,
           n <= Cardinality(Counted') + faults'
    PROVE  CountInv' /\ count' \in [Stores -> [Sources -> 0..(Cardinality(Requests) + faults')]]
<1>1. /\ Cardinality(Counted) \in Nat /\ Cardinality(Counted') \in Nat
      /\ Cardinality(Requests) \in Nat
      /\ Cardinality(Counted) <= Cardinality(Counted')
      /\ Cardinality(Counted') <= Cardinality(Requests)
  BY CountedFinite, FS_Subset, FS_CardinalityType
<1>2. \A t \in Stores, b \in Sources :
        count'[t][b] \in Nat /\ count'[t][b] <= Cardinality(Counted') + faults'
  BY <1>1 DEF CountInv
<1>3. CountInv'
  BY <1>2 DEF CountInv
<1>4. \A t \in Stores, b \in Sources : count'[t][b] \in 0..(Cardinality(Requests) + faults')
  BY <1>1, <1>2
<1> QED BY <1>3, <1>4

(* A request is counted, or counted once more by a fault. *)
LEMMA OneCounted ==
    ASSUME ApiInv, NEW s \in Stores, NEW a \in Sources,
           count' = [count EXCEPT ![s][a] = count[s][a] + 1],
           Counted \subseteq Counted', Counted' \subseteq Requests,
           faults \in Nat, faults' \in Nat, faults <= faults',
           Cardinality(Counted') + faults' = Cardinality(Counted) + faults + 1
    PROVE  /\ CountInv' /\ count' \in [Stores -> [Sources -> 0..(Cardinality(Requests) + faults')]]
           /\ count[s][a] \in Nat /\ count'[s][a] = count[s][a] + 1
           /\ \A t \in Stores, b \in Sources : t # s \/ b # a => count'[t][b] = count[t][b]
<1> DEFINE n == count[s][a] + 1
<1>1. count \in [Stores -> [Sources -> Nat]] /\ CountInv
  <2>1. count \in [Stores -> [Sources -> 0..(Cardinality(Requests) + faults)]]
    BY DEF ApiInv, TypeOK
  <2>2. 0..(Cardinality(Requests) + faults) \subseteq Nat
    BY CountedFinite
  <2> QED BY <2>1, <2>2 DEF ApiInv
<1>2. /\ count[s][a] \in Nat /\ n \in Nat /\ n <= Cardinality(Counted') + faults'
      /\ count' = [count EXCEPT ![s][a] = n]
  <2>1. Cardinality(Counted) \in Nat /\ Cardinality(Counted') \in Nat
    BY CountedFinite
  <2>2. count[s][a] \in Nat /\ count[s][a] <= Cardinality(Counted) + faults
    BY <1>1 DEF CountInv
  <2> QED BY <2>1, <2>2
<1> HIDE DEF n
<1>3. /\ count' \in [Stores -> [Sources -> Nat]] /\ count'[s][a] = n
      /\ \A t \in Stores, b \in Sources : t # s \/ b # a => count'[t][b] = count[t][b]
  BY <1>1, <1>2
<1>4. CountInv' /\ count' \in [Stores -> [Sources -> 0..(Cardinality(Requests) + faults')]]
  BY <1>1, <1>2, <1>3, CounterSet
<1> QED BY <1>2, <1>3, <1>4 DEF n

LEMMA OneMore == \A x, y \in Nat : x * (y + 1) = x * y + x /\ x * y \in Nat
OBVIOUS

LEMMA LimitKeeps ==
    ASSUME ApiInv, NEW q \in Requests, Limit(q)
    PROVE  ApiInv'
<1> DEFINE a == request[q].source
           s == StoreOf(request[q].on)
<1>0. /\ TypeOK /\ HandlerInv /\ CountInv /\ LimitInv /\ ClientInv /\ OnlyFaultsCut
      /\ UNCHANGED <<replica, client, up, redisUrl, losses, faults>> /\ faults \in Nat
      /\ request[q].pc = "limiter" /\ request[q].pc \in InFlight
      /\ request[q].on \in Replicas /\ Runs(request[q].on) /\ a \in Sources
  BY DEF ApiInv, Limit, At, HandlerInv, Placed, InFlight, TypeOK, FaultsTypeOK
<1>1. s \in Stores /\ (redisUrl => s = "redis")
  BY <1>0 DEF StoreOf, Stores, ClientInv
<1>3. ASSUME Goes(q, "error"), UNCHANGED <<count, admitted>>
      PROVE  ApiInv'
  <2>1. PICK t \in RequestStates :
          /\ request' = [request EXCEPT ![q] = t]
          /\ t.pc \in {"database", "ok", "limited", "unavailable", "error", "unseen"}
          /\ t.pc \in InFlight => Placed(t)
    BY <1>0, <1>3, GoesTo
  <2> QED BY <1>0, <1>3, <2>1, MoveKeeps DEF world
<1>4. ASSUME NEW pc \in {"database", "limited"}, Goes(q, pc),
             count' = [count EXCEPT ![s][a] = Hit(@)],
             \/ count[s][a] < Max
                /\ admitted' = [admitted EXCEPT ![a] = IF redisUrl THEN @ + 1 ELSE @]
             \/ UNCHANGED admitted
      PROVE  ApiInv'
  <2> HIDE DEF s, a
  <2>1. PICK t \in RequestStates :
          /\ request' = [request EXCEPT ![q] = t]
          /\ t.pc \in {"database", "ok", "limited", "unavailable", "error", "unseen"}
          /\ t.pc \in InFlight => Placed(t)
    BY <1>0, <1>4, GoesTo
  <2>2. /\ request' \in [Requests -> RequestStates] /\ request'[q] = t
        /\ \A p \in Requests \ {q} : request'[p] = request[p]
    BY <1>0, <2>1 DEF TypeOK
  <2>3. Counted' = Counted \cup {q} /\ q \notin Counted /\ Counted' \subseteq Requests
    BY <1>0, <2>1, <2>2 DEF Counted
  <2>4. Cardinality(Counted') = Cardinality(Counted) + 1 /\ Cardinality(Counted) \in Nat
    BY <2>3, CountedFinite, FS_AddElement DEF Counted
  <2>5. PICK z \in Stores, b \in Sources : z = s /\ b = a
    BY <1>0, <1>1
  <2>6. /\ CountInv' /\ count' \in [Stores -> [Sources -> 0..(Cardinality(Requests) + faults')]]
        /\ count[z][b] \in Nat /\ count'[z][b] = count[z][b] + 1
        /\ \A u \in Stores, c \in Sources : u # z \/ c # b => count'[u][c] = count[u][c]
    <3>1. count' = [count EXCEPT ![z][b] = count[z][b] + 1]
      BY <1>4, <2>5 DEF Hit
    <3>2. /\ Counted \subseteq Counted' /\ Counted' \subseteq Requests
          /\ faults \in Nat /\ faults' \in Nat /\ faults <= faults'
          /\ Cardinality(Counted') + faults' = Cardinality(Counted) + faults + 1
      BY <1>0, <2>3, <2>4
    <3> QED BY <3>1, <3>2, OneCounted, ZenonT(60)
  <2>7. admitted' \in [Sources -> Nat]
    <3>1. admitted \in [Sources -> Nat]
      BY <1>0 DEF TypeOK
    <3>2. admitted[a] \in Nat /\ (IF redisUrl THEN admitted[a] + 1 ELSE admitted[a]) \in Nat
      BY <1>0, <3>1
    <3> QED BY <1>4, <3>1, <3>2
  <2>8. TypeOK'
    BY <1>0, <2>2, <2>6, <2>7 DEF TypeOK, FaultsTypeOK
  <2>9. OnlyFaultsCut' /\ ClientInv'
    BY <1>0, <2>1, <2>2 DEF OnlyFaultsCut, ClientInv, At, Runs, Serves
  <2>9a. HandlerInv'
    <3> SUFFICES ASSUME NEW p \in Requests, request'[p].pc \in InFlight
                 PROVE  Placed(request'[p])
      BY <1>0 DEF HandlerInv, Placed, Runs, Serves
    <3>1. CASE p = q
      BY <2>1, <2>2, <3>1
    <3>2. CASE p # q
      BY <1>0, <2>2, <3>2 DEF HandlerInv
    <3> QED BY <3>1, <3>2
  <2>10. LimitInv'
    <3>1. SUFFICES ASSUME redisUrl, NEW c \in Sources, NEW m, m = Max * losses[c]
                   PROVE  admitted'[c] <= m + count'["redis"][c] /\ admitted'[c] <= m + Max
      BY <1>0 DEF LimitInv
    <3>2. /\ m \in Nat /\ admitted[c] \in Nat /\ count[z][c] \in Nat /\ Max \in Nat
          /\ admitted \in [Sources -> Nat] /\ z = "redis"
      BY <1>0, <1>1, <2>5, <3>1, OneMore, ApiServerAssumption DEF TypeOK, CountInv
    <3>3. admitted[c] <= m + count[z][c] /\ admitted[c] <= m + Max
      BY <1>0, <3>1, <3>2 DEF LimitInv
    <3>4. CASE c # b
      <4>1. admitted'[c] = admitted[c] /\ count'[z][c] = count[z][c]
        BY <1>4, <2>5, <2>6, <3>2, <3>4
      <4> QED BY <3>2, <3>3, <4>1
    <3>5. CASE c = b
      <4>1. count'[z][c] = count[z][c] + 1
        BY <2>6, <3>5
      <4>2. \/ count[z][c] < Max /\ admitted'[c] = admitted[c] + 1
            \/ admitted'[c] = admitted[c]
        BY <1>4, <2>5, <3>1, <3>2, <3>5
      <4> QED BY <3>2, <3>3, <4>1, <4>2
    <3> QED BY <3>4, <3>5
  <2> QED BY <2>6, <2>8, <2>9, <2>9a, <2>10 DEF ApiInv
<1> QED BY <1>3, <1>4 DEF Limit

LEMMA ResentKeeps ==
    ASSUME ApiInv, NEW q \in Requests, LimitResent(q)
    PROVE  ApiInv'
<1>0. /\ TypeOK /\ HandlerInv /\ CountInv /\ LimitInv /\ ClientInv /\ OnlyFaultsCut
      /\ UNCHANGED <<replica, client, request, up, redisUrl, admitted, losses>>
      /\ faults \in Nat /\ faults' = faults + 1 /\ FaultsTypeOK'
      /\ "redis" \in Stores
  BY FaultsAssumption DEF ApiInv, LimitResent, Spend, world, TypeOK, FaultsTypeOK, Stores
<1>1. PICK a \in Sources : count' = [count EXCEPT !["redis"][a] = Hit(@)]
  BY <1>0 DEF LimitResent, At, HandlerInv, Placed, InFlight
<1>2. Counted' = Counted /\ Counted' \subseteq Requests /\ Cardinality(Counted) \in Nat
  BY <1>0, CountedFinite DEF Counted
<1>3. /\ CountInv' /\ count' \in [Stores -> [Sources -> 0..(Cardinality(Requests) + faults')]]
      /\ count["redis"][a] \in Nat /\ count'["redis"][a] = count["redis"][a] + 1
      /\ \A t \in Stores, b \in Sources : t # "redis" \/ b # a => count'[t][b] = count[t][b]
  <2>1. PICK s \in Stores : s = "redis"
    BY <1>0
  <2>2. count' = [count EXCEPT ![s][a] = count[s][a] + 1]
    BY <1>1, <2>1 DEF Hit
  <2>3. /\ Counted \subseteq Counted' /\ Counted' \subseteq Requests
        /\ faults \in Nat /\ faults' \in Nat /\ faults <= faults'
        /\ Cardinality(Counted') + faults' = Cardinality(Counted) + faults + 1
    BY <1>0, <1>2
  <2>4. /\ CountInv' /\ count' \in [Stores -> [Sources -> 0..(Cardinality(Requests) + faults')]]
        /\ count[s][a] \in Nat /\ count'[s][a] = count[s][a] + 1
        /\ \A t \in Stores, b \in Sources : t # s \/ b # a => count'[t][b] = count[t][b]
    BY <2>2, <2>3, OneCounted, ZenonT(60)
  <2> QED BY <2>1, <2>4
<1>4. TypeOK'
  BY <1>0, <1>3 DEF TypeOK
<1>5. LimitInv'
  <2> SUFFICES ASSUME redisUrl, NEW b \in Sources, NEW m, m = Max * losses[b]
               PROVE  admitted[b] <= m + count'["redis"][b] /\ admitted[b] <= m + Max
    BY <1>0 DEF LimitInv
  <2>1. /\ m \in Nat /\ admitted[b] \in Nat /\ count["redis"][b] \in Nat
    BY <1>0, OneMore, ApiServerAssumption DEF TypeOK, CountInv
  <2>2. admitted[b] <= m + count["redis"][b] /\ admitted[b] <= m + Max
    BY <1>0 DEF LimitInv
  <2>3. count'["redis"][b] = count["redis"][b] + 1 \/ count'["redis"][b] = count["redis"][b]
    BY <1>0, <1>3
  <2> QED BY <2>1, <2>2, <2>3
<1>6. HandlerInv' /\ ClientInv' /\ OnlyFaultsCut'
  BY <1>0 DEF HandlerInv, Placed, ClientInv, OnlyFaultsCut, Runs, Serves, At
<1> QED BY <1>3, <1>4, <1>5, <1>6 DEF ApiInv

-----------------------------------------------------------------------------
(* What happens to Postgres, to Redis, and to the counters with time. *)
LEMMA OutageKeeps ==
    ASSUME ApiInv, NEW d \in {"postgres", "redis"}, Outage(d)
    PROVE  ApiInv'
<1>1. up' \subseteq {"postgres", "redis"}
  BY DEF ApiInv, TypeOK, Outage
<1> QED BY <1>1 DEF Outage, ApiInv, TypeOK, FaultsTypeOK, ClientInv, HandlerInv, Placed, Runs, Serves,
           CountInv, Counted, LimitInv, OnlyFaultsCut, At

LEMMA LossKeeps ==
    ASSUME ApiInv, RedisLosesData
    PROVE  ApiInv'
<1>0. /\ TypeOK /\ CountInv /\ LimitInv /\ "redis" \in Stores
      /\ count' = [count EXCEPT !["redis"] = [a \in Sources |-> 0]]
      /\ losses' = [a \in Sources |-> losses[a] + 1]
      /\ UNCHANGED <<replica, client, request, up, redisUrl, admitted>>
  BY DEF ApiInv, RedisLosesData, Stores
<1>1. FaultsTypeOK' /\ faults' = faults + 1 /\ faults \in Nat
  BY <1>0, FaultsAssumption DEF RedisLosesData, Spend, TypeOK, FaultsTypeOK
<1>2. /\ count \in [Stores -> [Sources -> 0..(Cardinality(Requests) + faults)]]
      /\ Cardinality(Requests) \in Nat /\ Cardinality(Counted) \in Nat
      /\ losses \in [Sources -> Nat]
  BY <1>0, CountedFinite DEF TypeOK, Counted
<1>3. /\ \A a \in Sources : count'["redis"][a] = 0
      /\ \A t \in Stores \ {"redis"} : count'[t] = count[t]
      /\ DOMAIN count' = Stores /\ count' = [t \in Stores |-> count'[t]]
      /\ \A t \in Stores : count'[t] \in [Sources -> Nat]
  <2>1. count \in [Stores -> [Sources -> Nat]]
    <3>1. 0..(Cardinality(Requests) + faults) \subseteq Nat
      BY <1>1, <1>2
    <3> QED BY <1>2, <3>1
  <2> QED BY <1>0, <2>1
<1>4. losses' \in [Sources -> Nat] /\ \A a \in Sources : losses'[a] = losses[a] + 1
  BY <1>0, <1>2
<1>5. CountInv' /\ count' \in [Stores -> [Sources -> 0..(Cardinality(Requests) + faults')]]
  <2>1. Counted' = Counted /\ Counted \subseteq Requests
    BY <1>0 DEF Counted
  <2>2. \A t \in Stores, a \in Sources : count'[t][a] = 0 \/ count'[t][a] = count[t][a]
    BY <1>3
  <2> QED BY <1>0, <1>1, <1>3, <2>1, <2>2, CountersKept
<1>6. LimitInv'
  <2> SUFFICES ASSUME redisUrl, NEW a \in Sources
               PROVE  /\ admitted[a] <= Max * losses'[a] + count'["redis"][a]
                      /\ admitted[a] <= Max * losses'[a] + Max
    BY <1>0 DEF LimitInv
  <2>1. admitted[a] <= Max * losses[a] + Max
    BY <1>0 DEF LimitInv
  <2>2. Max * losses'[a] = Max * losses[a] + Max /\ Max * losses[a] \in Nat /\ Max \in Nat
        /\ admitted[a] \in Nat
    BY <1>0, <1>2, <1>4, OneMore, ApiServerAssumption DEF TypeOK
  <2> QED BY <1>3, <2>1, <2>2
<1>7. TypeOK'
  BY <1>0, <1>1, <1>4, <1>5 DEF TypeOK
<1>8. HandlerInv' /\ ClientInv' /\ OnlyFaultsCut'
  BY <1>0, <1>1 DEF ApiInv, HandlerInv, Placed, ClientInv, OnlyFaultsCut, Runs, Serves, At
<1> QED BY <1>5, <1>6, <1>7, <1>8 DEF ApiInv

LEMMA WindowKeeps ==
    ASSUME ApiInv, NEW s \in Stores, NEW a \in Sources, WindowPasses(s, a)
    PROVE  ApiInv'
<1>0. /\ TypeOK /\ CountInv /\ LimitInv /\ count' = [count EXCEPT ![s][a] = 0]
      /\ UNCHANGED <<replica, client, request, up, redisUrl, faults>>
      /\ admitted \in [Sources -> Nat] /\ losses \in [Sources -> Nat] /\ faults \in Nat
  BY DEF ApiInv, WindowPasses, TypeOK, FaultsTypeOK
<1>1. /\ Counted' = Counted /\ Counted \subseteq Requests /\ Cardinality(Counted) \in Nat
      /\ 0 <= Cardinality(Counted) + faults
  BY <1>0, CountedFinite DEF Counted
<1>2. /\ CountInv' /\ count' \in [Stores -> [Sources -> 0..(Cardinality(Requests) + faults)]]
      /\ count'[s][a] = 0
      /\ \A t \in Stores, b \in Sources : t # s \/ b # a => count'[t][b] = count[t][b]
  <2>1. count \in [Stores -> [Sources -> Nat]]
    <3>1. count \in [Stores -> [Sources -> 0..(Cardinality(Requests) + faults)]]
      BY <1>0 DEF TypeOK
    <3>2. 0..(Cardinality(Requests) + faults) \subseteq Nat
      BY <1>0, CountedFinite
    <3> QED BY <3>1, <3>2
  <2>2. /\ count' \in [Stores -> [Sources -> Nat]] /\ count'[s][a] = 0
        /\ \A t \in Stores, b \in Sources : t # s \/ b # a => count'[t][b] = count[t][b]
    BY <1>0, <2>1
  <2> QED BY <1>0, <1>1, <2>2, CounterSet
<1>3. /\ admitted' \in [Sources -> Nat] /\ losses' \in [Sources -> Nat]
      /\ \A b \in Sources : s # "redis" \/ b # a =>
            admitted'[b] = admitted[b] /\ losses'[b] = losses[b]
      /\ s = "redis" => admitted'[a] = 0 /\ losses'[a] = 0
  BY <1>0 DEF WindowPasses
<1>4. LimitInv'
  <2> SUFFICES ASSUME redisUrl, NEW b \in Sources
               PROVE  /\ admitted'[b] <= Max * losses'[b] + count'["redis"][b]
                      /\ admitted'[b] <= Max * losses'[b] + Max
    BY <1>0 DEF LimitInv
  <2>1. CASE s # "redis" \/ b # a
    BY <1>0, <1>2, <1>3, <2>1 DEF LimitInv, Stores
  <2>2. CASE s = "redis" /\ b = a
    <3>1. Max * losses'[b] = 0 /\ Max \in Nat
      BY <1>3, <2>2, ApiServerAssumption
    <3> QED BY <1>2, <1>3, <2>2, <3>1
  <2> QED BY <2>1, <2>2
<1>5. TypeOK'
  BY <1>0, <1>2, <1>3 DEF TypeOK, FaultsTypeOK
<1>6. HandlerInv' /\ ClientInv' /\ OnlyFaultsCut'
  BY <1>0 DEF ApiInv, HandlerInv, Placed, ClientInv, OnlyFaultsCut, Runs, Serves, At
<1> QED BY <1>2, <1>4, <1>5, <1>6 DEF ApiInv

-----------------------------------------------------------------------------
LEMMA InitApiInv == Init => ApiInv
<1> SUFFICES ASSUME Init PROVE ApiInv
  OBVIOUS
<1>1. Cardinality(Requests) \in Nat /\ Counted = {} /\ Max \in Nat /\ faults = 0
  BY CountedFinite, ApiServerAssumption DEF Init, Counted, Nowhere, FaultsInit
<1>2. request \in [Requests -> RequestStates] /\ \A q \in Requests : request[q].pc = "unsent"
  BY DEF Init, Nowhere, RequestStates
<1>3. \A s \in Stores : count[s] = [a \in Sources |-> 0]
  BY DEF Init
<1>4. \A s \in Stores, a \in Sources : count[s][a] = 0
  BY <1>3
<1>5. count \in [Stores -> [Sources -> 0..(Cardinality(Requests) + faults)]]
  BY <1>1 DEF Init
<1>6. TypeOK
  BY <1>2, <1>5, FaultsAssumption DEF Init, TypeOK, ProcessStates, FaultsInit, FaultsTypeOK
<1>7. ClientInv /\ HandlerInv /\ OnlyFaultsCut
  BY <1>2 DEF Init, ClientInv, HandlerInv, OnlyFaultsCut, At, Runs, Serves, InFlight
<1>8. CountInv
  BY <1>1, <1>4, FS_EmptySet DEF CountInv
<1>9. LimitInv
  <2>1. \A a \in Sources : admitted[a] = 0 /\ losses[a] = 0 /\ Max * 0 = 0
    BY <1>1 DEF Init
  <2> QED BY <1>1, <1>4, <2>1 DEF LimitInv, Stores
<1> QED BY <1>6, <1>7, <1>8, <1>9 DEF ApiInv

LEMMA NextApiInv == ApiInv /\ [Next]_vars => ApiInv'
<1> SUFFICES ASSUME ApiInv, [Next]_vars PROVE ApiInv'
  OBVIOUS
<1>1. CASE UNCHANGED vars
  BY <1>1 DEF vars, ApiInv, TypeOK, FaultsTypeOK, ClientInv, HandlerInv, Placed, Runs, Serves,
              CountInv, Counted, LimitInv, OnlyFaultsCut, At
<1> QED BY <1>1, ProcessSteps, AcceptKeeps, LimitKeeps, ResentKeeps, HandlerSteps, OutageKeeps, LossKeeps,
           WindowKeeps DEF Next, RequestStep

-----------------------------------------------------------------------------
(* Every variable keeps its type, and a store counts a request once, and once more
   for each time that its command was sent again. *)
THEOREM ServerTypeCorrect == Spec => []TypeOK
<1>1. ApiInv => TypeOK
  BY DEF ApiInv
<1> QED BY <1>1, InitApiInv, NextApiInv, PTL DEF Spec

(* The limit holds across replicas, their restarts and Redis outages. *)
THEOREM LimitsAreShared == Spec => []LimitIsShared
<1>1. ApiInv => LimitIsShared
  <2> SUFFICES ASSUME ApiInv, redisUrl, NEW a \in Sources
               PROVE  admitted[a] <= Max * (1 + losses[a])
    BY DEF LimitIsShared
  <2>1. admitted[a] <= Max * losses[a] + Max
    BY DEF ApiInv, LimitInv
  <2>2. Max * (1 + losses[a]) = Max * losses[a] + Max
    BY ApiServerAssumption DEF ApiInv, TypeOK
  <2> QED BY <2>1, <2>2
<1> QED BY <1>1, InitApiInv, NextApiInv, PTL DEF Spec

(* Only a crash or an exceeded grace delay breaks a request off. *)
THEOREM ShutdownsCutNothing == Spec => []OnlyFaultsCut
<1>1. ApiInv => OnlyFaultsCut
  BY DEF ApiInv
<1> QED BY <1>1, InitApiInv, NextApiInv, PTL DEF Spec

(* An error while both dependencies answer is seen by no one: the handler has met a
   client that quit, so its process is closing and its own client has hung up. *)
LEMMA ErrorIsUnseen ==
    ASSUME ApiInv, NEW q \in Requests, NEW p \in Requests,
           Limit(p) \/ QueryDatabase(p) \/ UseRedis(p),
           request[q].pc \in InFlight, request'[q].pc = "error"
    PROVE  up # {"postgres", "redis"}
<1>1. /\ request \in [Requests -> RequestStates] /\ Placed(request[q]) /\ ClientInv
      /\ request[q].pc # "error"
  BY DEF ApiInv, TypeOK, HandlerInv, InFlight
<1>2. p = q
  <2>1. \A x \in Requests \ {p} : request'[x] = request[x]
    BY <1>1 DEF Limit, QueryDatabase, UseRedis, Goes
  <2> QED BY <1>1, <2>1
<1>3. /\ \A pc : Goes(q, pc) => pc = "error" /\ request[q].waits
      /\ \A kind : request' # [request EXCEPT ![q].pc = "queue", ![q].kind = kind]
  <2>1. ASSUME NEW pc, Goes(q, pc)
        PROVE  pc = "error" /\ request[q].waits
    <3>1. CASE pc \in Answers
      <4>1. request'[q] = Over(q, pc)
        BY <1>1, <2>1, <3>1 DEF Goes
      <4> QED BY <4>1 DEF Over, Nowhere
    <3>2. CASE pc \notin Answers
      <4>1. request'[q].pc = pc
        BY <1>1, <2>1, <3>2 DEF Goes, RequestStates
      <4> QED BY <3>2, <4>1 DEF Answers
    <3> QED BY <3>1, <3>2
  <2>2. ASSUME NEW kind, request' = [request EXCEPT ![q].pc = "queue", ![q].kind = kind]
        PROVE  FALSE
    BY <1>1, <2>2 DEF RequestStates
  <2> QED BY <2>1, <2>2
<1>4. /\ client \in [Replicas -> {"none", "open", "quit"}] /\ request[q].on \in Replicas
      /\ request[q].waits => client[request[q].on] # "quit"
      /\ request[q].pc = "queue" => client[request[q].on] # "none"
  BY <1>1 DEF ApiInv, TypeOK, Placed, Serves, ClientInv
<1>5. CASE QueryDatabase(q)
  BY <1>3, <1>5 DEF QueryDatabase
<1>6. CASE Limit(q)
  <2>1. StoreOf(request[q].on) = "redis" /\ RedisRaises(q) /\ Goes(q, "error")
    BY <1>3, <1>6 DEF Limit
  <2> QED BY <1>3, <1>4, <2>1, ApiServerAssumption DEF StoreOf, RedisRaises, RedisAnswers
<1>7. CASE UseRedis(q)
  <2>1. RedisRaises(q) /\ Goes(q, "error") /\ request[q].pc = "queue"
    BY <1>3, <1>7 DEF UseRedis, At
  <2> QED BY <1>3, <1>4, <2>1 DEF RedisRaises, RedisAnswers
<1> QED BY <1>2, <1>5, <1>6, <1>7

(* A client that waits is never answered 500 because a process shuts down. *)
THEOREM ShutdownsFailNone == Spec => ShutdownsFailNothing
<1>1. ApiInv /\ [Next]_vars =>
        [\A q \in Requests :
            request[q].pc \in InFlight /\ request'[q].pc = "error" => up # {"postgres", "redis"}]_vars
  <2> SUFFICES ASSUME ApiInv, Next, NEW q \in Requests,
                      request[q].pc \in InFlight, request'[q].pc = "error"
               PROVE  up # {"postgres", "redis"}
    OBVIOUS
  <2>0. request \in [Requests -> RequestStates] /\ request[q].pc # "error" /\ TypeOK
    BY DEF ApiInv, TypeOK, InFlight
  <2>1. ASSUME NEW r \in Replicas, Ends(r) PROVE FALSE
    BY <2>0, <2>1 DEF Ends, Over, Nowhere
  <2>2. ASSUME UNCHANGED request PROVE FALSE
    BY <2>0, <2>2
  <2>3. ASSUME NEW r \in Replicas, ProcessStep(r) PROVE FALSE
    BY <2>1, <2>2, <2>3 DEF ProcessStep, Start, LoadRedis, Listen, Terminate, RunCloseHooks, Exit,
       GraceDelayPasses, Crash
  <2>4. ASSUME NEW p \in Requests, NEW r \in Replicas, Accept(p, r) PROVE FALSE
    BY <2>0, <2>4 DEF Accept
  <2>5. ASSUME NEW p \in Requests, HangUp(p) PROVE FALSE
    BY <2>0, <2>5 DEF HangUp, RequestStates
  <2>6. ASSUME NEW p \in Requests, RequestStep(p) PROVE up # {"postgres", "redis"}
    BY <2>6, ErrorIsUnseen DEF RequestStep
  <2>7. ASSUME NEW p \in Requests, LimitResent(p) PROVE FALSE
    BY <2>2, <2>7 DEF LimitResent
  <2>8. ASSUME \/ \E d \in {"postgres", "redis"} : Outage(d)
               \/ RedisLosesData
               \/ \E s \in Stores, a \in Sources : WindowPasses(s, a)
        PROVE  FALSE
    BY <2>2, <2>8 DEF Outage, RedisLosesData, WindowPasses
  <2> QED BY <2>3, <2>4, <2>5, <2>6, <2>7, <2>8 DEF Next
<1> QED BY <1>1, InitApiInv, NextApiInv, PTL DEF Spec, ShutdownsFailNothing
=============================================================================
