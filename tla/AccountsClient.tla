---------------------------- MODULE AccountsClient ----------------------------
(***************************************************************************)
(* AccountsGrpcClient of orders-service, which asks accounts-service for   *)
(* the customer of an order while the lock of the ticket type is held:     *)
(* callWithRetry repeats a call that missed its deadline, after a pause    *)
(* that grows, and gives up after maxRetries repetitions.                  *)
(*                                                                         *)
(* elapsed[r] bounds the time spent so far from above, in units of 50 ms:  *)
(* every call is taken to last until its deadline.                         *)
(***************************************************************************)
EXTENDS ServiceCalls

CONSTANTS
    Timeout,     \* timeoutMs
    Backoff,     \* the pause before the first repetition
    MaxRetries,
    LockTtl      \* the time to live CreateOrderUseCase gives its lock

ASSUME ClientAssumption ==
    Timeout \in Nat /\ Backoff \in Nat /\ MaxRetries \in Nat /\ LockTtl \in Nat

VARIABLES
    clientAt,    \* call, pause: in callWithRetry; found, failed: it is over
    attempt,
    elapsed

clientVars == <<clientAt, attempt, elapsed>>

ClientTypeOK ==
    /\ clientAt \in [Request -> {"idle", "call", "pause", "found", "failed"}]
    /\ attempt \in [Request -> 0 .. MaxRetries + 1]
    /\ elapsed \in [Request -> Nat]

ClientInit ==
    /\ clientAt = [r \in Request |-> "idle"]
    /\ attempt = [r \in Request |-> 0]
    /\ elapsed = [r \in Request |-> 0]

ClientGo(r, state) == clientAt' = [clientAt EXCEPT ![r] = state]

Spend(r, time) == elapsed' = [elapsed EXCEPT ![r] = @ + time]

GetUserById(r) ==
    /\ clientAt[r] = "idle"
    /\ ClientGo(r, "call")
    /\ UNCHANGED <<attempt, elapsed, disturbed>>

\* The message of an error starts with its status.
IsTimeout(status) == status = "DEADLINE_EXCEEDED"

RejectedForEver(r, status) ==  \* mutant: attempts are counted, but not limited
    /\ attempt' = [attempt EXCEPT ![r] = @ + 1]
    /\ ClientGo(r, IF IsTimeout(status) THEN "pause" ELSE "failed")

Rejected(r, status) ==
    /\ attempt' = [attempt EXCEPT ![r] = @ + 1]
    /\ ClientGo(r, IF attempt'[r] > MaxRetries \/ ~IsTimeout(status) THEN "failed" ELSE "pause")

\* getUserById of the server: NotFoundError becomes NOT_FOUND, and an exception here.
CallOnce(r, exists) ==
    /\ clientAt[r] = "call"
    /\ \/ exists /\ ClientGo(r, "found") /\ UNCHANGED <<attempt, disturbed>>
       \/ ~exists /\ Rejected(r, GrpcStatus("NotFound")) /\ UNCHANGED disturbed
       \/ Fault(r, "db") /\ Rejected(r, GrpcStatus("Other"))
       \/ Fault(r, "deadline") /\ Rejected(r, "DEADLINE_EXCEEDED")
    /\ Spend(r, Timeout)

Pause(r) ==
    /\ clientAt[r] = "pause"
    /\ ClientGo(r, "call")
    /\ Spend(r, Backoff * attempt[r])
    /\ UNCHANGED <<attempt, disturbed>>
-----------------------------------------------------------------------------
(***************************************************************************)
(* Properties                                                              *)
(***************************************************************************)

(***************************************************************************)
(* However the calls end, the retries leave the lock some of its time: the *)
(* key expires under a request because of slow statements, never because   *)
(* accounts-service does not answer.                                       *)
(***************************************************************************)
RetriesFitLock == \A r \in Request : elapsed[r] <= LockTtl
=============================================================================
