---------------------------- MODULE OrdersService ----------------------------
(***************************************************************************)
(* CreateOrderUseCase and PayOrderUseCase of orders-service, with the      *)
(* tables they write and the lock they take.  Every await is a point where *)
(* other requests run, so every awaited call is an action: pc[r] names the *)
(* call request r makes next.  No database transaction spans two calls.    *)
(*                                                                         *)
(* An order takes the identity of the request that creates it (the code    *)
(* draws a uuid).  Faults may contain "redis" and "crash" (see RedisLock)  *)
(* and "db": a statement fails, executed or not.  Customers, names, dates  *)
(* and the payloads of the outbox are left out.                            *)
(***************************************************************************)
EXTENDS RedisLock

CONSTANTS
    Payment,      \* the requests to POST /orders/:id/pay; the others create orders
    Event,        \* event ids a request may name
    StoredEvent,  \* those present in the events table
    EventOf,      \* EventOf[t]: the event ticket type t belongs to
    Capacity,     \* Capacity[t]: tickets on sale; 0 also stands for no such row
    Price,        \* Price[t]: price_in_cents
    Int4Max,      \* largest value of a PostgreSQL integer column
    Quantity,     \* quantities a request may ask for, within the integers of the database
    Key,          \* idempotency keys: values of the x-idempotency-key header
    NoKey,        \* the request has no such header
    BlankKey,     \* the empty string: stored like any key, never looked up
    LongKey       \* the keys longer than the column idempotency_key

ASSUME EventAssumption == StoredEvent \subseteq Event /\ EventOf \in [TicketType -> Event]
ASSUME StockAssumption ==
    /\ Capacity \in [TicketType -> Nat]
    /\ Price \in [TicketType -> Nat]
    /\ Int4Max \in Nat
ASSUME QuantityAssumption == Quantity \subseteq Nat \ {0}
ASSUME NoKeyAssumption == NoKey \notin Key

VARIABLES
    pc,          \* the call each request makes next
    input,       \* the body and key of a create request, as chosen by the client
    target,      \* the order a pay request names
    reply,       \* the answer of a request, once decided
    stock,       \* ticket_types.remaining_quantity
    reserved,    \* history: requests whose reserveAtomically took stock
    orders,      \* the orders table: a function on the ids present
    outbox       \* the order_outbox table

INSTANCE OutboxTable WITH Order <- Request

tables == <<stock, reserved, orders, outbox>>
vars == <<lockVars, pc, input, target, reply, tables>>

CreateCall == {"findByIdempotencyKey", "acquire", "ensureUserExists", "checkEvent",
               "reserveAtomically", "save", "enqueue", "release"}
PayCall == {"findById", "savePaid", "enqueuePaid"}
Call == CreateCall \cup PayCall \cup {"new", "done", "crashed"}

CreateOrderInput ==
    [eventId : Event, quantity : Quantity, idempotencyKey : Key \cup {NoKey}]

ReplyCode == {"none", "created", "replayed", "paid", "conflict", "notFound",
              "forbidden", "insufficientStock", "internal"}

Reply == [code : ReplyCode, order : Request \cup {NoRequest}]

NoReply == [code |-> "none", order |-> NoRequest]

OrderRow ==
    [eventId : Event, quantity : Quantity, idempotencyKey : Key \cup {NoKey},
     status : {"PENDING", "PAID"}]

NoInput == [quantity |-> 0]     \* not a create request, or not yet received

TypeOK ==
    /\ LockTypeOK
    /\ pc \in [Request -> Call]
    /\ input \in [Request -> CreateOrderInput \cup {NoInput}]
    /\ target \in [Request -> Request \cup {NoRequest}]
    /\ reply \in [Request -> Reply]
    /\ stock \in [TicketType -> Nat]
    /\ reserved \in SUBSET Request
    /\ DOMAIN orders \subseteq Request
    /\ orders \in [DOMAIN orders -> OrderRow]
    /\ OutboxTypeOK

Init ==
    /\ LockInit
    /\ pc = [r \in Request |-> "new"]
    /\ input = [r \in Request |-> NoInput]
    /\ target = [r \in Request |-> NoRequest]
    /\ reply = [r \in Request |-> NoReply]
    /\ stock = Capacity
    /\ reserved = {}
    /\ orders = [o \in {} |-> NoInput]
    /\ OutboxInit
-----------------------------------------------------------------------------
(***************************************************************************)
(* Control.                                                                *)
(***************************************************************************)
Continue(r, call) ==
    /\ pc' = [pc EXCEPT ![r] = call]
    /\ reply' = reply

\* Decide the answer; continue with the call after which it is sent.
Decide(r, code, order, call) ==
    /\ pc' = [pc EXCEPT ![r] = call]
    /\ reply' = [reply EXCEPT ![r] = [code |-> code, order |-> order]]

Answer(r, code, order) == Decide(r, code, order, "done")

\* An exception inside the try block: the finally block runs next.
Throw(r, code) == Decide(r, code, NoRequest, "release")

DbFault == "db" \in Faults
-----------------------------------------------------------------------------
(***************************************************************************)
(* POST /orders.  The schema of the body admits positive quantities only.  *)
(***************************************************************************)
CreateOrder(r) ==
    /\ pc[r] = "new" /\ r \notin Payment
    /\ \E body \in CreateOrderInput :
          /\ input' = [input EXCEPT ![r] = body]
          /\ Continue(r, IF body.idempotencyKey \in {NoKey, BlankKey}
                         THEN "acquire" ELSE "findByIdempotencyKey")
    /\ UNCHANGED <<lockVars, target, tables>>

OrdersWithKey(key) ==
    {o \in DOMAIN orders : key # NoKey /\ orders[o].idempotencyKey = key}

FindByIdempotencyKey(r) ==
    /\ pc[r] = "findByIdempotencyKey"
    /\ \/ \E o \in OrdersWithKey(input[r].idempotencyKey) : Answer(r, "replayed", o)
       \/ OrdersWithKey(input[r].idempotencyKey) = {} /\ Continue(r, "acquire")
       \/ DbFault /\ Answer(r, "internal", NoRequest)
    /\ UNCHANGED <<lockVars, input, target, tables>>

AcquireUncaught(r) ==   \* mutant: nobody handles an error of SET
    /\ pc[r] = "acquire"
    /\ \/ SetNX(r) /\ UNCHANGED <<pc, reply>>
       \/ Acquired(r) /\ Continue(r, "ensureUserExists")
       \/ phase[r] = "denied" /\ NotAcquired(r) /\ Answer(r, "conflict", NoRequest)
    /\ UNCHANGED <<input, target, tables>>

Acquire(r) ==
    /\ pc[r] = "acquire"
    /\ \/ SetNX(r) /\ UNCHANGED <<pc, reply>>
       \/ Acquired(r) /\ Continue(r, "ensureUserExists")
       \/ /\ NotAcquired(r)
          /\ Answer(r, IF phase[r] = "denied" THEN "conflict" ELSE "internal", NoRequest)
    /\ UNCHANGED <<input, target, tables>>

(***************************************************************************)
(* accounts-service is asked over gRPC; it may answer anything about the   *)
(* customer.  The client of src/ turns a missing user, a timeout and any   *)
(* other failure into an exception; another one may return no user.        *)
(***************************************************************************)
EnsureUserExists(r) ==
    /\ pc[r] = "ensureUserExists"
    /\ \/ Continue(r, "checkEvent")
       \/ Throw(r, "notFound")
       \/ Throw(r, "forbidden")
       \/ Throw(r, "internal")
    /\ UNCHANGED <<lockVars, input, target, tables>>

CheckEvent(r) ==
    /\ pc[r] = "checkEvent"
    /\ \/ input[r].eventId \in StoredEvent /\ Continue(r, "reserveAtomically")
       \/ input[r].eventId \notin StoredEvent /\ Throw(r, "notFound")
       \/ DbFault /\ Throw(r, "internal")
    /\ UNCHANGED <<lockVars, input, target, tables>>

(***************************************************************************)
(* One UPDATE that decrements only if enough is left.  Whether the ticket  *)
(* type belongs to the event is looked at in the row that comes back.      *)
(***************************************************************************)
TakeOne(r) ==           \* mutant: decrements by one, whatever the quantity
    /\ stock' = [stock EXCEPT ![TicketOf[r]] = @ - 1]
    /\ reserved' = reserved \cup {r}

TakeStock(r) ==
    /\ stock' = [stock EXCEPT ![TicketOf[r]] = @ - input[r].quantity]
    /\ reserved' = reserved \cup {r}

ReserveUnchecked(r) ==  \* mutant: UPDATE without remaining_quantity >= quantity
    /\ pc[r] = "reserveAtomically"
    /\ stock' = [stock EXCEPT ![TicketOf[r]] = @ - input[r].quantity]
    /\ reserved' = reserved \cup {r}
    /\ Continue(r, "save")
    /\ UNCHANGED <<lockVars, input, target, orders, outbox>>

ReserveRetried(r) ==    \* mutant: the UPDATE is repeated when its reply is lost
    /\ pc[r] = "reserveAtomically"
    /\ stock[TicketOf[r]] >= input[r].quantity
    /\ TakeStock(r)
    /\ Continue(r, "save") \/ (DbFault /\ Continue(r, "reserveAtomically"))
    /\ UNCHANGED <<lockVars, input, target, orders, outbox>>

ReserveAtomically(r) ==
    LET t == TicketOf[r]
        enough == stock[t] >= input[r].quantity
    IN  /\ pc[r] = "reserveAtomically"
        /\ \/ /\ enough
              /\ TakeStock(r)
              /\ \/ EventOf[t] = input[r].eventId /\ Continue(r, "save")
                 \/ EventOf[t] # input[r].eventId /\ Throw(r, "conflict")
                 \/ DbFault /\ Throw(r, "internal")
           \/ /\ ~enough
              /\ Throw(r, "insufficientStock")
              /\ UNCHANGED <<stock, reserved>>
           \/ /\ DbFault
              /\ Throw(r, "internal")
              /\ UNCHANGED <<stock, reserved>>
        /\ UNCHANGED <<lockVars, input, target, orders, outbox>>

(***************************************************************************)
(* INSERT of the order.  The database refuses a key that is already there  *)
(* and a key or a total that does not fit its column.                      *)
(***************************************************************************)
Total(r) == Price[TicketOf[r]] * input[r].quantity

NoUniqueKey(r) ==       \* mutant: idempotency_key is not unique
    Total(r) <= Int4Max

TotalBelowMax(r) ==     \* mutant: the largest integer is refused
    /\ OrdersWithKey(input[r].idempotencyKey) = {}
    /\ input[r].idempotencyKey \notin LongKey
    /\ Total(r) < Int4Max

Insertable(r) ==
    /\ OrdersWithKey(input[r].idempotencyKey) = {}
    /\ input[r].idempotencyKey \notin LongKey
    /\ Total(r) <= Int4Max

InsertOrder(r) ==
    orders' = [o \in DOMAIN orders \cup {r} |->
                  IF o = r
                  THEN [eventId        |-> input[r].eventId,
                        quantity       |-> input[r].quantity,
                        idempotencyKey |-> input[r].idempotencyKey,
                        status         |-> "PENDING"]
                  ELSE orders[o]]

SaveUnannounced(r) ==   \* mutant: answers without having written the outbox row
    /\ pc[r] = "save"
    /\ Insertable(r)
    /\ InsertOrder(r)
    /\ Decide(r, "created", r, "release")
    /\ UNCHANGED <<lockVars, input, target, stock, reserved, outbox>>

SaveOrder(r) ==
    /\ pc[r] = "save"
    /\ \/ /\ Insertable(r)
          /\ InsertOrder(r)
          /\ Continue(r, "enqueue") \/ (DbFault /\ Throw(r, "internal"))
       \/ /\ ~Insertable(r) \/ DbFault
          /\ Throw(r, "internal")
          /\ UNCHANGED orders
    /\ UNCHANGED <<lockVars, input, target, stock, reserved, outbox>>

EnqueueSwallowed(r) ==  \* mutant: a failure to write the outbox is only logged
    /\ pc[r] = "enqueue"
    /\ Enqueue(r, "ORDER_CREATED") \/ (DbFault /\ UNCHANGED outbox)
    /\ Decide(r, "created", r, "release")
    /\ UNCHANGED <<lockVars, input, target, stock, reserved, orders>>

EnqueueCreated(r) ==
    /\ pc[r] = "enqueue"
    /\ \/ /\ Enqueue(r, "ORDER_CREATED")
          /\ Decide(r, "created", r, "release") \/ (DbFault /\ Throw(r, "internal"))
       \/ /\ DbFault
          /\ Throw(r, "internal")
          /\ UNCHANGED outbox
    /\ UNCHANGED <<lockVars, input, target, stock, reserved, orders>>

(***************************************************************************)
(* The finally block.  An exception of release replaces the answer.        *)
(***************************************************************************)
LostLockConflicts(r) == \* mutant: a script that deleted nothing is a ConflictError
    /\ pc[r] = "release"
    /\ \/ /\ Release(r)
          /\ Continue(r, IF phase'[r] = "out" THEN "done" ELSE "release")
       \/ /\ Released(r)
          /\ IF r \in lapsed THEN Answer(r, "conflict", NoRequest) ELSE Continue(r, "done")
    /\ UNCHANGED <<input, target, tables>>

ReleaseLogged(r) ==     \* mutant: an error of release is only logged
    /\ pc[r] = "release"
    /\ \/ /\ Release(r)
          /\ Continue(r, IF phase'[r] = "out" THEN "done" ELSE "release")
       \/ /\ Released(r)
          /\ Continue(r, "done")
    /\ UNCHANGED <<input, target, tables>>

ReleaseLock(r) ==
    /\ pc[r] = "release"
    /\ \/ /\ Release(r)
          /\ Continue(r, IF phase'[r] = "out" THEN "done" ELSE "release")
       \/ /\ phase[r] = "evaluated"
          /\ Released(r)
          /\ Continue(r, "done")
       \/ /\ phase[r] = "evalFailed"
          /\ Released(r)
          /\ Answer(r, "internal", NoRequest)
    /\ UNCHANGED <<input, target, tables>>
-----------------------------------------------------------------------------
(***************************************************************************)
(* POST /orders/:id/pay, for an id the service has disclosed or one it     *)
(* never gave out.  The order read is written back as a whole; nothing but *)
(* its status can have changed in between.                                 *)
(***************************************************************************)
Disclosed == {reply[s].order : s \in {s \in Request : pc[s] = "done"}}

PayOrder(r) ==
    /\ pc[r] = "new" /\ r \in Payment
    /\ \E o \in Disclosed \cup {NoRequest} : target' = [target EXCEPT ![r] = o]
    /\ Continue(r, "findById")
    /\ UNCHANGED <<lockVars, input, tables>>

FindById(r) ==
    /\ pc[r] = "findById"
    /\ LET o == target[r]
       IN  \/ o \notin DOMAIN orders /\ Answer(r, "notFound", NoRequest)
           \/ /\ o \in DOMAIN orders
              /\ \/ orders[o].status = "PENDING" /\ Continue(r, "savePaid")
                 \/ orders[o].status # "PENDING" /\ Answer(r, "conflict", NoRequest)
           \/ DbFault /\ Answer(r, "internal", NoRequest)
    /\ UNCHANGED <<lockVars, input, target, tables>>

SavePaidSwallowed(r) == \* mutant: a failure to save is only logged
    /\ pc[r] = "savePaid"
    /\ \/ orders' = [orders EXCEPT ![target[r]].status = "PAID"]
       \/ DbFault /\ UNCHANGED orders
    /\ Continue(r, "enqueuePaid")
    /\ UNCHANGED <<lockVars, input, target, stock, reserved, outbox>>

SavePaid(r) ==
    /\ pc[r] = "savePaid"
    /\ \/ /\ orders' = [orders EXCEPT ![target[r]].status = "PAID"]
          /\ Continue(r, "enqueuePaid") \/ (DbFault /\ Answer(r, "internal", NoRequest))
       \/ /\ DbFault
          /\ Answer(r, "internal", NoRequest)
          /\ UNCHANGED orders
    /\ UNCHANGED <<lockVars, input, target, stock, reserved, outbox>>

EnqueuePaid(r) ==
    /\ pc[r] = "enqueuePaid"
    /\ \/ /\ Enqueue(target[r], "ORDER_PAID")
          /\ Answer(r, "paid", target[r]) \/ (DbFault /\ Answer(r, "internal", NoRequest))
       \/ /\ DbFault
          /\ Answer(r, "internal", NoRequest)
          /\ UNCHANGED outbox
    /\ UNCHANGED <<lockVars, input, target, stock, reserved, orders>>
-----------------------------------------------------------------------------
(***************************************************************************)
(* The environment: keys expire, a process dies with its requests.         *)
(***************************************************************************)
ExpireKey(t) == Expire(t) /\ UNCHANGED <<pc, input, target, reply, tables>>

InFlight(r) == pc[r] \notin {"new", "done", "crashed"}

Crash(p) ==
    /\ "crash" \in Faults
    /\ \E r \in Request : HomeOf[r] = p /\ InFlight(r)
    /\ LockCrash(p)
    /\ pc' = [r \in Request |->
                 IF HomeOf[r] = p /\ InFlight(r) THEN "crashed" ELSE pc[r]]
    /\ UNCHANGED <<input, target, reply, tables>>

CreateStep(r) ==
    \/ FindByIdempotencyKey(r) \/ Acquire(r) \/ EnsureUserExists(r) \/ CheckEvent(r)
    \/ ReserveAtomically(r) \/ SaveOrder(r) \/ EnqueueCreated(r) \/ ReleaseLock(r)

PayStep(r) == FindById(r) \/ SavePaid(r) \/ EnqueuePaid(r)

Next ==
    \/ \E r \in Request : CreateOrder(r) \/ PayOrder(r) \/ CreateStep(r) \/ PayStep(r)
    \/ \E t \in TicketType : ExpireKey(t)
    \/ \E p \in Process : Crash(p)

Spec == Init /\ [][Next]_vars

(***************************************************************************)
(* Every awaited call returns or throws.  Clients need not send anything,  *)
(* and keys need not expire: the lock is not waited for.                   *)
(***************************************************************************)
FairSpec == Spec /\ \A r \in Request : WF_vars(CreateStep(r) \/ PayStep(r))
-----------------------------------------------------------------------------
(***************************************************************************)
(* Properties                                                              *)
(***************************************************************************)
Done(r, code) == pc[r] = "done" /\ reply[r].code = code

SeatsOrdered(t) ==
    UNION {{o} \X (1 .. orders[o].quantity) : o \in {o \in DOMAIN orders : TicketOf[o] = t}}

(***************************************************************************)
(* Never more tickets in orders than there are on sale.  It rests on the   *)
(* conditional UPDATE alone: locks may lapse, processes may die, statements *)
(* may fail after having been executed.                                    *)
(***************************************************************************)
NoOversell == \A t \in TicketType : Cardinality(SeatsOrdered(t)) <= Capacity[t]

(***************************************************************************)
(* Idempotency of POST /orders: all the successful answers to requests     *)
(* with the same key name one order, also when the requests overlap, when  *)
(* they hold locks of different ticket types and when some of them fail.   *)
(***************************************************************************)
SameKeySameOrder ==
    \A r, s \in Request :
        /\ pc[r] = "done" /\ reply[r].code \in {"created", "replayed"}
        /\ pc[s] = "done" /\ reply[s].code \in {"created", "replayed"}
        /\ input[r].idempotencyKey = input[s].idempotencyKey
        /\ input[r].idempotencyKey # NoKey
        => reply[r].order = reply[s].order

(***************************************************************************)
(* A success answer of the request that made the change has everything     *)
(* behind it: the row of orders and the outbox row that announces it.      *)
(* (The answer replayed for a key has not: see CreatedEventNotLost.)       *)
(***************************************************************************)
SuccessIsBacked ==
    \A r \in Request :
        /\ Done(r, "created") => r \in DOMAIN orders /\ Announced(r, "ORDER_CREATED")
        /\ Done(r, "paid") =>
              /\ orders[target[r]].status = "PAID"
              /\ Announced(target[r], "ORDER_PAID")

(***************************************************************************)
(* The outbox announces only what happened: rows are about orders that     *)
(* exist, those of type ORDER_PAID about orders that are PAID, and no      *)
(* order is announced as created twice.                                    *)
(***************************************************************************)
NoPhantomEvent ==
    /\ \A i \in DOMAIN outbox :
          /\ outbox[i].aggregateId \in DOMAIN orders
          /\ outbox[i].type = "ORDER_PAID" => orders[outbox[i].aggregateId].status = "PAID"
    /\ \A i, j \in DOMAIN outbox :
          /\ outbox[i].aggregateId = outbox[j].aggregateId
          /\ outbox[i].type = "ORDER_CREATED" /\ outbox[j].type = "ORDER_CREATED"
          => i = j

(***************************************************************************)
(* A request that was refused (any 4xx) has created no order, and nothing  *)
(* it might have done is announced.                                        *)
(***************************************************************************)
RefusalLeavesNoOrder ==
    \A r \in Request :
        pc[r] = "done" /\ reply[r].code \notin {"created", "internal"} =>
            r \notin DOMAIN orders /\ ~Announced(r, "ORDER_CREATED")

(***************************************************************************)
(* Stock that was taken and not turned into an order is never given back.  *)
(* Without failures of the infrastructure there are four ways to lose it:  *)
(* the ticket type is of another event, the key is in use (by a request    *)
(* that overlapped, or because it is blank), the key does not fit its      *)
(* column, or the total does not.                                          *)
(***************************************************************************)
Leaked(r) == r \in reserved /\ r \notin DOMAIN orders /\ pc[r] # "save"

LeakExplained ==
    Faults = {} =>
        \A r \in Request : Leaked(r) =>
            \/ EventOf[TicketOf[r]] # input[r].eventId
            \/ OrdersWithKey(input[r].idempotencyKey) # {}
            \/ input[r].idempotencyKey \in LongKey
            \/ Total(r) > Int4Max

(***************************************************************************)
(* The tables implement the abstract sale: a request takes tickets when    *)
(* reserveAtomically succeeds and confirms them when its order is stored.  *)
(***************************************************************************)
TakenBy == [r \in Request |-> IF r \in reserved THEN input[r].quantity ELSE 0]

Sales == INSTANCE TicketSale WITH
            Sale <- Request, available <- stock, taken <- TakenBy, confirmed <- DOMAIN orders

ImplementsTicketSale == Sales!SaleSpec

(***************************************************************************)
(* Bookkeeping of the stock: remaining_quantity plus what the requests     *)
(* took is the quantity on sale, ticket by ticket, and an order that is    *)
(* stored holds tickets its request took.                                  *)
(***************************************************************************)
NothingSoldTwice == Sales!Balanced

(***************************************************************************)
(* Every request is answered, unless its process dies: neither a lock held *)
(* by somebody else nor the order of replies on a connection blocks it.    *)
(***************************************************************************)
EveryRequestAnswered ==
    \A r \in Request : InFlight(r) ~> pc[r] \in {"done", "crashed"}

(***************************************************************************)
(* Which key may refuse customers although nobody is at work: a request    *)
(* that was answered, and not with an internal error, has left its key in  *)
(* Redis only if a key expired too early under a request that shares its   *)
(* entry of lockValues.  Without that, its release found its own value     *)
(* there, whatever requests of its process were granted, refused or failed *)
(* in between, and the script deleted the key.                             *)
(***************************************************************************)
LeftKeyExplained ==
    \A r \in Request :
        /\ redis[TicketOf[r]] = r
        /\ pc[r] = "done" /\ reply[r].code # "internal"
        => \E s \in lapsed : SameEntry(r, s)

(***************************************************************************)
(* An order whose creation is not announced: the request that stored it is *)
(* about to write the row, or was killed, or reports an internal error     *)
(* after a statement failed, also when its release throws as well.  There  *)
(* is no other way to lose the event.                                      *)
(***************************************************************************)
Unannounced(o) == o \in DOMAIN orders /\ ~Announced(o, "ORDER_CREATED")

LossOfEvent(o) ==
    \/ pc[o] = "enqueue"
    \/ "crash" \in Faults /\ pc[o] = "crashed"
    \/ "db" \in Faults /\ pc[o] \in {"release", "done"} /\ reply[o].code = "internal"

MissingEventExplained == \A o \in Request : Unannounced(o) => LossOfEvent(o)

(***************************************************************************)
(* Stated by the repository, and not what the code does                    *)
(***************************************************************************)

(***************************************************************************)
(* tests/integration/http/create-order.spec.ts:49: "same key => same       *)
(* orderId, no duplicate outbox, no double stock decrement".               *)
(***************************************************************************)
NoDoubleDecrement ==
    \A r, s \in reserved :
        input[r] = input[s] /\ TicketOf[r] = TicketOf[s] /\ input[r].idempotencyKey # NoKey
            => r = s

(***************************************************************************)
(* tests/integration/http/pay-order.spec.ts:10: "should pay an order       *)
(* (PENDING -> PAID) and prevent double payment".                          *)
(***************************************************************************)
PaidOnce ==
    \A r, s \in Request :
        Done(r, "paid") /\ Done(s, "paid") /\ target[r] = target[s] => r = s

(***************************************************************************)
(* README.md:34: "Outbox table written in the same transaction boundary as *)
(* the order write".  When the request that stored an order is over, the   *)
(* outbox row is there.                                                    *)
(***************************************************************************)
CreatedEventNotLost ==
    \A o \in DOMAIN orders : ~InFlight(o) => Announced(o, "ORDER_CREATED")
=============================================================================
