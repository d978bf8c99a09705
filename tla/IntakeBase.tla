----------------------------- MODULE IntakeBase -----------------------------
(***************************************************************************)
(* Constants shared by the modules of the intake service.                  *)
(*                                                                         *)
(* A dedup key stands for one (user, normalised company, normalised title) *)
(* triple: dedup.Key is the only thing the pipeline ever does with the     *)
(* three strings.  An id stands for an application UUID.                   *)
(***************************************************************************)
EXTENDS FiniteSets, Integers

CONSTANTS
    Calls,          \* executions of submitOne, one per request or batch item
    Keys,           \* dedup keys
    Ids,            \* application UUIDs gen_random_uuid() may draw
    NoId, NoKey,    \* "no application id", "request not yet received"
    Vacant,         \* the key is absent from Redis
    Sentinel,       \* dedup.pendingSentinel
    Faults,         \* the failures a behaviour may contain
    ClientRetries   \* does a client that is answered AlreadyExists try again?

(***************************************************************************)
(*   "redis"       a Redis command fails though the request is alive, its  *)
(*                 effect applied or not; go-redis may have sent it twice  *)
(*   "pendingTTL"  a pending entry reaches its TTL                         *)
(*   "entryTTL"    a committed entry reaches its TTL                       *)
(*   "insert"      a Postgres statement, or COMMIT, fails without effect   *)
(*   "commit"      COMMIT takes effect and its answer is lost              *)
(*   "cancel"      a request's context ends (deadline, client gone)        *)
(*   "crash"       the handler stops where it stands (process, panic)      *)
(***************************************************************************)
FaultKinds ==
    {"redis", "pendingTTL", "entryTTL", "insert", "commit", "cancel", "crash"}

ASSUME IntakeAssumption ==
    /\ IsFiniteSet(Calls)
    /\ NoKey \notin Keys
    /\ {NoId, Vacant, Sentinel} \cap Ids = {}
    /\ Vacant # Sentinel
    /\ Faults \subseteq FaultKinds
    /\ ClientRetries \in BOOLEAN

(***************************************************************************)
(* The gRPC codes toGRPCError gives submitOne's outcomes, and "none" while *)
(* there is no answer.                                                     *)
(***************************************************************************)
Codes == {"none", "OK", "InvalidArgument", "AlreadyExists", "Internal"}

NoReply == [code |-> "none", id |-> NoId]
Answer(id) == [code |-> "OK", id |-> id]
Failure(code) == [code |-> code, id |-> NoId]
=============================================================================
