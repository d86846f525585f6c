------------------------------ MODULE RedisLock ------------------------------
(***************************************************************************)
(* RedisDistributedLock (infra/redis/DistributedLock.ts): a try-lock kept  *)
(* in Redis, one key per ticket type, used by CreateOrderUseCase.          *)
(*                                                                         *)
(* A process of orders-service has one RedisDistributedLock, hence one     *)
(* map lockValues shared by all the requests it serves, and one Redis      *)
(* connection.  A command is executed in one step and its reply handled in *)
(* a later one: whatever other requests do in between may come in between. *)
(* The connection answers commands in the order they were sent; ahead[r]   *)
(* is the set of requests of the same process whose replies precede the    *)
(* one r waits for.                                                        *)
(*                                                                         *)
(* A request acquires at most once, so the random lock value it draws is   *)
(* represented by the request itself.                                      *)
(***************************************************************************)
EXTENDS Naturals, FiniteSets

CONSTANTS
    Request,     \* requests handled by the service
    TicketType,  \* ticket types; the lock key is `ticket-type:<id>`
    Process,     \* processes (replicas) of orders-service
    HomeOf,      \* the process that handles a request
    TicketOf,    \* the ticket type a request locks
    NoRequest,   \* no lock value: key absent in Redis, or in lockValues
    Faults       \* failures considered: a subset of {"redis", "crash", ...}

ASSUME HomeOfAssumption == HomeOf \in [Request -> Process]
ASSUME TicketOfAssumption == TicketOf \in [Request -> TicketType]
ASSUME NoRequestAssumption == NoRequest \notin Request

VARIABLES
    redis,       \* redis[t]: the value stored at the key of t
    lockValues,  \* lockValues[p][t]: what process p remembers it stored there
    phase,       \* how far each request is with the lock
    ahead,       \* replies a request's reply has to wait for
    lapsed       \* history: requests whose key expired while they relied on it

lockVars == <<redis, lockValues, phase, ahead, lapsed>>

(***************************************************************************)
(* idle: acquire not called.  granted, denied, setFailed: SET sent, its    *)
(* reply (OK, nil, an error) not handled yet.  held: acquire returned      *)
(* true.  evaluated, evalFailed: release sent its script, reply or error   *)
(* not handled yet.  out: acquire did not return true, or release is over. *)
(***************************************************************************)
Waiting == {"granted", "denied", "setFailed", "evaluated", "evalFailed"}
Phase == Waiting \cup {"idle", "held", "out"}

LockTypeOK ==
    /\ redis \in [TicketType -> Request \cup {NoRequest}]
    /\ lockValues \in [Process -> [TicketType -> Request \cup {NoRequest}]]
    /\ phase \in [Request -> Phase]
    /\ ahead \in [Request -> SUBSET Request]
    /\ lapsed \in SUBSET Request

LockInit ==
    /\ redis = [t \in TicketType |-> NoRequest]
    /\ lockValues = [p \in Process |-> [t \in TicketType |-> NoRequest]]
    /\ phase = [r \in Request |-> "idle"]
    /\ ahead = [r \in Request |-> {}]
    /\ lapsed = {}

(***************************************************************************)
(* The connection.                                                         *)
(***************************************************************************)
Send(r, awaited) ==
    /\ phase' = [phase EXCEPT ![r] = awaited]
    /\ ahead' = [ahead EXCEPT ![r] =
                    {s \in Request : HomeOf[s] = HomeOf[r] /\ phase[s] \in Waiting}]

Receive(r, next) ==
    /\ ahead[r] = {}
    /\ phase' = [phase EXCEPT ![r] = next]
    /\ ahead' = [s \in Request |-> ahead[s] \ {r}]

RedisFault == "redis" \in Faults

(***************************************************************************)
(* acquire: SET key value NX PX ttl.  With a Redis fault the caller gets   *)
(* an error, whether or not the command was executed.                      *)
(***************************************************************************)
SetWithoutNX(r) ==      \* mutant: SET without NX overwrites a key that is held
    /\ phase[r] = "idle"
    /\ redis' = [redis EXCEPT ![TicketOf[r]] = r]
    /\ Send(r, "granted")
    /\ UNCHANGED <<lockValues, lapsed>>

SetNX(r) ==
    /\ phase[r] = "idle"
    /\ \/ /\ redis[TicketOf[r]] = NoRequest
          /\ redis' = [redis EXCEPT ![TicketOf[r]] = r]
          /\ Send(r, "granted") \/ (RedisFault /\ Send(r, "setFailed"))
       \/ /\ redis[TicketOf[r]] # NoRequest
          /\ redis' = redis
          /\ Send(r, "denied")
       \/ /\ RedisFault
          /\ redis' = redis
          /\ Send(r, "setFailed")
    /\ UNCHANGED <<lockValues, lapsed>>

Acquired(r) ==
    /\ phase[r] = "granted"
    /\ Receive(r, "held")
    /\ lockValues' = [lockValues EXCEPT ![HomeOf[r]][TicketOf[r]] = r]
    /\ UNCHANGED <<redis, lapsed>>

RememberDenied(r) ==    \* mutant: lockValues written before the reply is looked at
    /\ phase[r] \in {"denied", "setFailed"}
    /\ Receive(r, "out")
    /\ lockValues' = [lockValues EXCEPT ![HomeOf[r]][TicketOf[r]] = r]
    /\ UNCHANGED <<redis, lapsed>>

NotAcquired(r) ==
    /\ phase[r] \in {"denied", "setFailed"}
    /\ Receive(r, "out")
    /\ UNCHANGED <<redis, lockValues, lapsed>>

(***************************************************************************)
(* release: the value to delete is looked up in lockValues under the key,  *)
(* and is the one of the last acquire of that process, whoever made it.    *)
(***************************************************************************)
PlainDel(r) ==          \* mutant: DEL without comparing the value
    /\ phase[r] = "held"
    /\ redis' = [redis EXCEPT ![TicketOf[r]] = NoRequest]
    /\ Send(r, "evaluated")
    /\ UNCHANGED <<lockValues, lapsed>>

Release(r) ==
    LET t == TicketOf[r]
        lockValue == lockValues[HomeOf[r]][t]
        DeleteIfEqual == IF redis[t] = lockValue THEN NoRequest ELSE redis[t]
    IN  /\ phase[r] = "held"
        /\ \/ /\ lockValue = NoRequest
              /\ phase' = [phase EXCEPT ![r] = "out"]
              /\ UNCHANGED <<redis, ahead>>
           \/ /\ lockValue # NoRequest
              /\ redis' = [redis EXCEPT ![t] = DeleteIfEqual]
              /\ Send(r, "evaluated") \/ (RedisFault /\ Send(r, "evalFailed"))
           \/ /\ lockValue # NoRequest
              /\ RedisFault
              /\ redis' = redis
              /\ Send(r, "evalFailed")
        /\ UNCHANGED <<lockValues, lapsed>>

Released(r) ==
    /\ phase[r] \in {"evaluated", "evalFailed"}
    /\ Receive(r, "out")
    /\ lockValues' = [lockValues EXCEPT ![HomeOf[r]][TicketOf[r]] = NoRequest]
    /\ UNCHANGED <<redis, lapsed>>

(***************************************************************************)
(* The time to live of a key runs out.  The time itself is not modelled: a *)
(* request may outlive its key whenever its I/O is slow.                   *)
(***************************************************************************)
Expire(t) ==
    /\ redis[t] # NoRequest
    /\ redis' = [redis EXCEPT ![t] = NoRequest]
    /\ lapsed' = IF phase[redis[t]] \in {"granted", "held"}
                 THEN lapsed \cup {redis[t]} ELSE lapsed
    /\ UNCHANGED <<lockValues, phase, ahead>>

(***************************************************************************)
(* A process dies and is restarted: its memory and its connection go, the  *)
(* keys in Redis stay.                                                     *)
(***************************************************************************)
LockCrash(p) ==
    /\ phase' = [r \in Request |->
                    IF HomeOf[r] = p /\ phase[r] # "idle" THEN "out" ELSE phase[r]]
    /\ ahead' = [r \in Request |-> IF HomeOf[r] = p THEN {} ELSE ahead[r]]
    /\ lockValues' = [lockValues EXCEPT ![p] = [t \in TicketType |-> NoRequest]]
    /\ UNCHANGED <<redis, lapsed>>

LockStep(r) ==
    SetNX(r) \/ Acquired(r) \/ NotAcquired(r) \/ Release(r) \/ Released(r)

LockNext ==
    \/ \E r \in Request : LockStep(r)
    \/ \E t \in TicketType : Expire(t)
    \/ \E p \in Process : "crash" \in Faults /\ LockCrash(p)

LockSpec == LockInit /\ [][LockNext]_lockVars
-----------------------------------------------------------------------------
(***************************************************************************)
(* Properties                                                              *)
(***************************************************************************)

(***************************************************************************)
(* As long as no key expired under the request that relied on it, at most  *)
(* one request per ticket type is inside the critical section, whatever    *)
(* processes the requests run in and whatever Redis errors and crashes     *)
(* happen.                                                                 *)
(***************************************************************************)
ExclusionUntilLapse ==
    lapsed = {} =>
        \A r, s \in Request :
            phase[r] = "held" /\ phase[s] = "held" /\ TicketOf[r] = TicketOf[s]
                => r = s

\* They use the same entry of the same map lockValues.
SameEntry(r, s) == HomeOf[r] = HomeOf[s] /\ TicketOf[r] = TicketOf[s]

(***************************************************************************)
(* "Safe release": a request inside its critical section loses its key in  *)
(* Redis only by expiry, never because another request released.  It is    *)
(* what the comparison in the script is for (README.md: "safe release with *)
(* Lua").  It holds when no two requests share a process, and fails when   *)
(* they do, since lockValues then returns the other request's value.       *)
(***************************************************************************)
SafeRelease ==
    [][\A r \in Request :
          (phase[r] = "held" /\ phase'[r] = "held" /\ redis[TicketOf[r]] = r)
              => (redis'[TicketOf[r]] = r \/ r \in lapsed')]_lockVars

(***************************************************************************)
(* What is left of safe release.  A request inside its critical section    *)
(* loses its key otherwise than by expiry only to the release of a request *)
(* of its own process, one that lockValues led to the wrong value, and     *)
(* only after some key expired too early.  Releases of other processes     *)
(* never harm it, because the script compares values.                      *)
(***************************************************************************)
ReleaseWithinProcess ==
    [][\A r \in Request :
          /\ phase[r] = "held" /\ phase'[r] = "held"
          /\ redis[TicketOf[r]] = r /\ redis'[TicketOf[r]] # r
          /\ r \notin lapsed'
          => /\ lapsed # {}
             /\ \E s \in Request \ {r} :
                   /\ SameEntry(r, s)
                   /\ phase[s] = "held" /\ phase'[s] # "held"]_lockVars

(***************************************************************************)
(* Without failures and without expiry inside a critical section, a        *)
(* request that is done with the lock has left nothing in Redis: its       *)
(* release found its own value in lockValues although the map is shared    *)
(* with every other request of the process.                                *)
(***************************************************************************)
NothingLeftBehind ==
    Faults = {} /\ lapsed = {} =>
        \A r \in Request : phase[r] = "out" => redis[TicketOf[r]] # r
=============================================================================
