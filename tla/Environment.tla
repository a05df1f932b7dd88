----------------------------- MODULE Environment -----------------------------
(***************************************************************************)
(* What may go wrong around the code.  A specification says which kinds may *)
(* happen (Faults) and how many in all (MaxFaults): every faulty step of a  *)
(* component spends one.                                                    *)
(*                                                                         *)
(*   crash       a worker or API process is killed                          *)
(*   stop        a worker gets SIGTERM and leaves its loop when it can      *)
(*   db          a Postgres statement raises and has no effect              *)
(*   dbReply     a Postgres statement commits and its answer is lost        *)
(*   redis       a Redis command raises and has no effect                   *)
(*   redisReply  a Redis command takes effect and its answer is lost        *)
(*   resend      a command takes effect, the connection breaks, and ioredis *)
(*               sends it again: an XADD, or the increment of the limiter   *)
(*   slow        a message is idle for claim_idle_ms while a live worker    *)
(*               still has it in hand; or requests outlast the grace delay  *)
(*               of a shutdown                                              *)
(*   evict       Redis loses its data: the stream and its group, or the     *)
(*               counters of the limiter (allkeys-lru, or a restart on an   *)
(*               emptyDir volume)                                           *)
(*   net         the answer to a browser's request is lost                  *)
(*   quick       a page is left before redux-persist has written its slice  *)
(***************************************************************************)
EXTENDS Naturals

CONSTANTS Faults, MaxFaults
VARIABLE faults

FaultKinds == {"crash", "stop", "db", "dbReply", "redis", "redisReply",
               "resend", "slow", "evict", "net", "quick"}

ASSUME FaultsAssumption == Faults \subseteq FaultKinds /\ MaxFaults \in Nat

FaultsTypeOK == faults \in 0..MaxFaults
FaultsInit   == faults = 0

(* One fault of kind f happens in this step. *)
Spend(f) ==
    /\ f \in Faults
    /\ faults < MaxFaults
    /\ faults' = faults + 1
=============================================================================
