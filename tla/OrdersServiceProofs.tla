------------------------- MODULE OrdersServiceProofs -------------------------
(***************************************************************************)
(* What orders-service guarantees for any number of requests, processes,   *)
(* ticket types, events and keys, and under every set of faults.           *)
(***************************************************************************)
EXTENDS OrdersService, RedisLockProofs, FiniteSetTheorems

(***************************************************************************)
(* The strengthening, in named parts.  Typed: the variables the service    *)
(* adds to those of the lock have their types.  CallsSoFar: what a request *)
(* has done to the tables follows from the call it makes next.             *)
(* StoredOrders: the rows of orders repeat what their requests asked for,  *)
(* and keys are unique in them.  Payments: a payment past its check works  *)
(* on an order that exists.  Answers, Rows: what answers and outbox rows   *)
(* claim is true.                                                          *)
(***************************************************************************)
Typed ==
    /\ pc \in [Request -> Call]
    /\ input \in [Request -> CreateOrderInput \cup {NoInput}]
    /\ target \in [Request -> Request \cup {NoRequest}]
    /\ reply \in [Request -> Reply]
    /\ stock \in [TicketType -> Nat]
    /\ reserved \in SUBSET Request
    /\ DOMAIN orders \subseteq Request
    /\ orders \in [DOMAIN orders -> OrderRow]
    /\ OutboxTypeOK

CallsSoFar ==
    \A r \in Request :
        /\ pc[r] \in CreateCall => input[r] \in CreateOrderInput
        /\ pc[r] = "save" => r \in reserved /\ r \notin DOMAIN orders
        /\ pc[r] = "enqueue" => r \in DOMAIN orders /\ ~Announced(r, "ORDER_CREATED")
        /\ r \in reserved =>
              /\ input[r] \in CreateOrderInput
              /\ pc[r] \in {"save", "enqueue", "release", "done", "crashed"}

StoredOrders ==
    /\ \A o \in DOMAIN orders :
          /\ o \in reserved
          /\ orders[o].quantity = input[o].quantity
          /\ orders[o].idempotencyKey = input[o].idempotencyKey
    /\ \A o, u \in DOMAIN orders :
          orders[o].idempotencyKey = orders[u].idempotencyKey
              /\ orders[o].idempotencyKey # NoKey => o = u

Payments ==
    \A r \in Request :
        /\ pc[r] \in {"savePaid", "enqueuePaid"} => target[r] \in DOMAIN orders
        /\ pc[r] = "enqueuePaid" => orders[target[r]].status = "PAID"

TrueAnswer(r) ==
    /\ pc[r] = "new" => reply[r] = NoReply
    /\ reply[r].code = "created" =>
          reply[r].order = r /\ r \in DOMAIN orders /\ Announced(r, "ORDER_CREATED")
    /\ reply[r].code = "replayed" =>
          /\ reply[r].order \in DOMAIN orders
          /\ orders[reply[r].order].idempotencyKey = input[r].idempotencyKey
    /\ reply[r].code = "paid" =>
          /\ target[r] \in DOMAIN orders
          /\ orders[target[r]].status = "PAID"
          /\ Announced(target[r], "ORDER_PAID")

Answers == \A r \in Request : TrueAnswer(r)

OrdersInv ==
    LockInv /\ Typed /\ CallsSoFar /\ StoredOrders /\ Payments /\ Answers /\ NoPhantomEvent

(***************************************************************************)
(* Seen from the lock, a step of the service is a step of the lock.        *)
(***************************************************************************)
LEMMA StepIsLockStep == [Next]_vars => [LockNext]_lockVars
BY DEF Next, CreateStep, PayStep, CreateOrder, FindByIdempotencyKey, Acquire,
       EnsureUserExists, CheckEvent, ReserveAtomically, SaveOrder, EnqueueCreated,
       ReleaseLock, PayOrder, FindById, SavePaid, EnqueuePaid, ExpireKey, Crash,
       LockNext, LockStep, vars

LEMMA OrdersInitInv == Init => OrdersInv
<1> SUFFICES ASSUME Init PROVE OrdersInv
  OBVIOUS
<1>1. LockInv
  BY LockInitInv DEF Init
<1>2. Typed
  BY StockAssumption
  DEF Init, Typed, Call, Reply, ReplyCode, NoReply, OutboxInit, OutboxTypeOK
<1> QED
  BY <1>1, <1>2 DEF Init, OrdersInv, CallsSoFar, StoredOrders, Payments, Answers,
     TrueAnswer, NoPhantomEvent, OutboxInit, CreateCall, NoReply, Announced
-----------------------------------------------------------------------------
(***************************************************************************)
(* Lemmas about the operators the actions are built from.                  *)
(***************************************************************************)
LEMMA DecideType ==
    ASSUME Typed, NEW r \in Request, NEW code \in ReplyCode, NEW call \in Call,
           NEW o \in Request \cup {NoRequest}, Decide(r, code, o, call)
    PROVE  pc' \in [Request -> Call] /\ reply' \in [Request -> Reply]
BY DEF Typed, Decide, Reply

LEMMA ContinueType ==
    ASSUME Typed, NEW r \in Request, NEW call \in Call, Continue(r, call)
    PROVE  pc' \in [Request -> Call] /\ reply' \in [Request -> Reply]
BY DEF Typed, Continue

LEMMA EnqueueRow ==
    ASSUME OutboxTypeOK, NEW o \in Request, NEW type \in OrderOutboxType, Enqueue(o, type)
    PROVE  /\ OutboxTypeOK'
           /\ DOMAIN outbox' = DOMAIN outbox \cup {Len(outbox) + 1}
           /\ Len(outbox) + 1 \notin DOMAIN outbox
           /\ \A i \in DOMAIN outbox : outbox'[i] = outbox[i]
           /\ outbox'[Len(outbox) + 1].aggregateId = o
           /\ outbox'[Len(outbox) + 1].type = type
BY DEF OutboxTypeOK, OutboxRow, OutboxStatus, Enqueue

LEMMA EnqueueAnnounces ==
    ASSUME OutboxTypeOK, NEW o \in Request, NEW type \in OrderOutboxType, Enqueue(o, type)
    PROVE  \A u, t : Announced(u, t)' <=> Announced(u, t) \/ (u = o /\ t = type)
BY EnqueueRow DEF Announced

LEMMA InsertType ==
    ASSUME Typed, NEW r \in Request, input[r] \in CreateOrderInput, InsertOrder(r)
    PROVE  /\ DOMAIN orders' = DOMAIN orders \cup {r}
           /\ orders' \in [DOMAIN orders' -> OrderRow]
           /\ \A o \in DOMAIN orders : o # r => orders'[o] = orders[o]
           /\ orders'[r].quantity = input[r].quantity
           /\ orders'[r].idempotencyKey = input[r].idempotencyKey
BY DEF Typed, InsertOrder, CreateOrderInput, OrderRow

(***************************************************************************)
(* SavePaid changes the status of one order and nothing else.              *)
(***************************************************************************)
LEMMA PaidType ==
    ASSUME Typed, NEW o \in DOMAIN orders,
           orders' = [orders EXCEPT ![o].status = "PAID"]
    PROVE  /\ DOMAIN orders' = DOMAIN orders
           /\ orders' \in [DOMAIN orders' -> OrderRow]
           /\ \A u \in DOMAIN orders :
                 /\ orders'[u].quantity = orders[u].quantity
                 /\ orders'[u].idempotencyKey = orders[u].idempotencyKey
                 /\ orders[u].status = "PAID" => orders'[u].status = "PAID"
           /\ orders'[o].status = "PAID"
BY DEF Typed, OrderRow
-----------------------------------------------------------------------------
(***************************************************************************)
(* Types.                                                                  *)
(***************************************************************************)
LEMMA TypedStep ==
    Typed /\ LockTypeOK /\ CallsSoFar /\ Payments /\ [Next]_vars => Typed'
<1> SUFFICES ASSUME Typed, LockTypeOK, CallsSoFar, Payments, [Next]_vars PROVE Typed'
  OBVIOUS
<1> USE DecideType, ContinueType DEF Call, CreateCall, PayCall, ReplyCode, Answer, Throw
<1>1. ASSUME NEW r \in Request, CreateOrder(r) PROVE Typed'
  BY <1>1 DEF CreateOrder, Typed, tables, OutboxTypeOK
<1>2. ASSUME NEW r \in Request, FindByIdempotencyKey(r) PROVE Typed'
  BY <1>2 DEF FindByIdempotencyKey, OrdersWithKey, Typed, tables, OutboxTypeOK
<1>3. ASSUME NEW r \in Request, Acquire(r) PROVE Typed'
  BY <1>3 DEF Acquire, Typed, tables, OutboxTypeOK
<1>4. ASSUME NEW r \in Request, EnsureUserExists(r) PROVE Typed'
  BY <1>4 DEF EnsureUserExists, Typed, tables, OutboxTypeOK
<1>5. ASSUME NEW r \in Request, CheckEvent(r) PROVE Typed'
  BY <1>5 DEF CheckEvent, Typed, tables, OutboxTypeOK
<1>6. ASSUME NEW r \in Request, ReserveAtomically(r) PROVE Typed'
  <2>1. pc' \in [Request -> Call] /\ reply' \in [Request -> Reply]
    BY <1>6 DEF ReserveAtomically
  <2>2. stock' \in [TicketType -> Nat] /\ reserved' \in SUBSET Request
    <3>1. input[r].quantity \in Nat /\ TicketOf[r] \in TicketType
      BY <1>6, TicketOfAssumption, QuantityAssumption
      DEF ReserveAtomically, CallsSoFar, CreateOrderInput
    <3>2. CASE stock[TicketOf[r]] >= input[r].quantity /\ TakeStock(r)
      BY <3>1, <3>2 DEF TakeStock, Typed
    <3>3. CASE UNCHANGED <<stock, reserved>>
      BY <3>3 DEF Typed
    <3> QED
      BY <1>6, <3>2, <3>3 DEF ReserveAtomically
  <2> QED
    BY <1>6, <2>1, <2>2 DEF ReserveAtomically, Typed, OutboxTypeOK
<1>7. ASSUME NEW r \in Request, SaveOrder(r) PROVE Typed'
  <2>1. pc' \in [Request -> Call] /\ reply' \in [Request -> Reply]
    BY <1>7 DEF SaveOrder
  <2>2. DOMAIN orders' \subseteq Request /\ orders' \in [DOMAIN orders' -> OrderRow]
    BY <1>7, InsertType DEF SaveOrder, CallsSoFar, Typed
  <2> QED
    BY <1>7, <2>1, <2>2 DEF SaveOrder, Typed, OutboxTypeOK
<1>8. ASSUME NEW r \in Request, EnqueueCreated(r) PROVE Typed'
  <2>1. pc' \in [Request -> Call] /\ reply' \in [Request -> Reply]
    BY <1>8 DEF EnqueueCreated
  <2>2. OutboxTypeOK'
    BY <1>8, EnqueueRow DEF EnqueueCreated, OrderOutboxType, Typed, OutboxTypeOK
  <2> QED
    BY <1>8, <2>1, <2>2 DEF EnqueueCreated, Typed
<1>9. ASSUME NEW r \in Request, ReleaseLock(r) PROVE Typed'
  BY <1>9 DEF ReleaseLock, Typed, tables, OutboxTypeOK
<1>10. ASSUME NEW r \in Request, PayOrder(r) PROVE Typed'
  <2>1. pc' \in [Request -> Call] /\ reply' \in [Request -> Reply]
    BY <1>10 DEF PayOrder
  <2>2. target' \in [Request -> Request \cup {NoRequest}]
    <3>0. \A s \in Request : reply[s].order \in Request \cup {NoRequest}
      BY DEF Typed, Reply
    <3>1. Disclosed \subseteq Request \cup {NoRequest}
      BY <3>0 DEF Disclosed
    <3>2. PICK o \in Request \cup {NoRequest} : target' = [target EXCEPT ![r] = o]
      BY <1>10, <3>1 DEF PayOrder
    <3> QED
      BY <3>2 DEF Typed
  <2> QED
    BY <1>10, <2>1, <2>2 DEF PayOrder, Typed, tables, OutboxTypeOK
<1>11. ASSUME NEW r \in Request, FindById(r) PROVE Typed'
  BY <1>11 DEF FindById, Typed, tables, OutboxTypeOK
<1>12. ASSUME NEW r \in Request, SavePaid(r) PROVE Typed'
  <2>1. pc' \in [Request -> Call] /\ reply' \in [Request -> Reply]
    BY <1>12 DEF SavePaid
  <2>2. DOMAIN orders' \subseteq Request /\ orders' \in [DOMAIN orders' -> OrderRow]
    BY <1>12, PaidType DEF SavePaid, Payments, Typed
  <2> QED
    BY <1>12, <2>1, <2>2 DEF SavePaid, Typed, OutboxTypeOK
<1>13. ASSUME NEW r \in Request, EnqueuePaid(r) PROVE Typed'
  <2>0. target[r] \in Request
    BY <1>13 DEF EnqueuePaid, Payments, Typed
  <2>1. pc' \in [Request -> Call] /\ reply' \in [Request -> Reply]
    BY <1>13, <2>0 DEF EnqueuePaid
  <2>2. OutboxTypeOK'
    BY <1>13, <2>0, EnqueueRow DEF EnqueuePaid, OrderOutboxType, Typed, OutboxTypeOK
  <2> QED
    BY <1>13, <2>1, <2>2 DEF EnqueuePaid, Typed
<1>14. ASSUME NEW t \in TicketType, ExpireKey(t) PROVE Typed'
  BY <1>14 DEF ExpireKey, Typed, tables, OutboxTypeOK
<1>15. ASSUME NEW p \in Process, Crash(p) PROVE Typed'
  BY <1>15 DEF Crash, Typed, tables, OutboxTypeOK
<1>16. CASE UNCHANGED vars
  BY <1>16 DEF vars, tables, Typed, OutboxTypeOK
<1> QED
  BY <1>1, <1>2, <1>3, <1>4, <1>5, <1>6, <1>7, <1>8, <1>9, <1>10, <1>11, <1>12,
     <1>13, <1>14, <1>15, <1>16 DEF Next, CreateStep, PayStep
-----------------------------------------------------------------------------
(***************************************************************************)
(* What steps keep.  Orders stay, with their quantity and key, and stay    *)
(* PAID; announcements and reservations stay; what a client asked for      *)
(* stays once its request has arrived.                                     *)
(***************************************************************************)
Kept ==
    /\ DOMAIN orders \subseteq DOMAIN orders'
    /\ \A o \in DOMAIN orders :
          /\ orders'[o].quantity = orders[o].quantity
          /\ orders'[o].idempotencyKey = orders[o].idempotencyKey
          /\ orders[o].status = "PAID" => orders'[o].status = "PAID"
    /\ \A o \in Request, type \in OrderOutboxType : Announced(o, type) => Announced(o, type)'
    /\ reserved \subseteq reserved'
    /\ \A r \in Request :
          pc[r] # "new" => pc'[r] # "new" /\ input'[r] = input[r] /\ target'[r] = target[r]

LEMMA StepKeeps == OrdersInv /\ [Next]_vars => Kept
<1> SUFFICES ASSUME OrdersInv, [Next]_vars PROVE Kept
  OBVIOUS
<1> USE DEF Call, CreateCall, PayCall, Answer, Throw, Decide, Continue, OrdersInv
<1>1. ASSUME NEW r \in Request, CreateOrder(r) PROVE Kept
  BY <1>1 DEF CreateOrder, tables, Typed, Kept, Announced
<1>2. ASSUME NEW r \in Request, FindByIdempotencyKey(r) PROVE Kept
  BY <1>2 DEF FindByIdempotencyKey, tables, Typed, Kept, Announced
<1>3. ASSUME NEW r \in Request, Acquire(r) PROVE Kept
  BY <1>3 DEF Acquire, tables, Typed, Kept, Announced
<1>4. ASSUME NEW r \in Request, EnsureUserExists(r) PROVE Kept
  BY <1>4 DEF EnsureUserExists, tables, Typed, Kept, Announced
<1>5. ASSUME NEW r \in Request, CheckEvent(r) PROVE Kept
  BY <1>5 DEF CheckEvent, tables, Typed, Kept, Announced
<1>6. ASSUME NEW r \in Request, ReserveAtomically(r) PROVE Kept
  BY <1>6 DEF ReserveAtomically, tables, TakeStock, Typed, Kept, Announced
<1>7. ASSUME NEW r \in Request, SaveOrder(r) PROVE Kept
  <2>1. /\ DOMAIN orders \subseteq DOMAIN orders'
        /\ \A o \in DOMAIN orders : orders'[o] = orders[o]
    <3>1. CASE InsertOrder(r)
      BY <1>7, <3>1, InsertType DEF SaveOrder, CallsSoFar
    <3>2. CASE UNCHANGED orders
      BY <3>2
    <3> QED
      BY <1>7, <3>1, <3>2 DEF SaveOrder
  <2> QED
    BY <1>7, <2>1 DEF SaveOrder, Typed, Kept, Announced
<1>8. ASSUME NEW r \in Request, EnqueueCreated(r) PROVE Kept
  <2>1. \A u \in Request, type \in OrderOutboxType : Announced(u, type) => Announced(u, type)'
    <3>1. CASE Enqueue(r, "ORDER_CREATED")
      BY <1>8, <3>1, EnqueueAnnounces DEF Typed, OrderOutboxType
    <3>2. CASE UNCHANGED outbox
      BY <3>2 DEF Announced
    <3> QED
      BY <1>8, <3>1, <3>2 DEF EnqueueCreated
  <2> QED
    BY <1>8, <2>1 DEF EnqueueCreated, Typed, Kept
<1>9. ASSUME NEW r \in Request, ReleaseLock(r) PROVE Kept
  BY <1>9 DEF ReleaseLock, tables, Typed, Kept, Announced
<1>10. ASSUME NEW r \in Request, PayOrder(r) PROVE Kept
  BY <1>10 DEF PayOrder, tables, Typed, Kept, Announced
<1>11. ASSUME NEW r \in Request, FindById(r) PROVE Kept
  BY <1>11 DEF FindById, tables, Typed, Kept, Announced
<1>12. ASSUME NEW r \in Request, SavePaid(r) PROVE Kept
  <2>1. /\ DOMAIN orders \subseteq DOMAIN orders'
        /\ \A o \in DOMAIN orders :
              /\ orders'[o].quantity = orders[o].quantity
              /\ orders'[o].idempotencyKey = orders[o].idempotencyKey
              /\ orders[o].status = "PAID" => orders'[o].status = "PAID"
    BY <1>12, PaidType DEF SavePaid, Payments
  <2> QED
    BY <1>12, <2>1 DEF SavePaid, Typed, Kept, Announced
<1>13. ASSUME NEW r \in Request, EnqueuePaid(r) PROVE Kept
  <2>0. target[r] \in Request
    BY <1>13 DEF EnqueuePaid, Payments, Typed
  <2>1. \A u \in Request, type \in OrderOutboxType : Announced(u, type) => Announced(u, type)'
    <3>1. CASE Enqueue(target[r], "ORDER_PAID")
      BY <1>13, <2>0, <3>1, EnqueueAnnounces DEF Typed, OrderOutboxType
    <3>2. CASE UNCHANGED outbox
      BY <3>2 DEF Announced
    <3> QED
      BY <1>13, <3>1, <3>2 DEF EnqueuePaid
  <2> QED
    BY <1>13, <2>1 DEF EnqueuePaid, Typed, Kept
<1>14. ASSUME NEW t \in TicketType, ExpireKey(t) PROVE Kept
  BY <1>14 DEF ExpireKey, tables, Typed, Kept, Announced
<1>15. ASSUME NEW p \in Process, Crash(p) PROVE Kept
  BY <1>15 DEF Crash, tables, Typed, Kept, Announced
<1>16. CASE UNCHANGED vars
  BY <1>16 DEF vars, tables, Kept, Announced
<1> QED
  BY <1>1, <1>2, <1>3, <1>4, <1>5, <1>6, <1>7, <1>8, <1>9, <1>10, <1>11,
     <1>12, <1>13, <1>14, <1>15, <1>16
  DEF Next, CreateStep, PayStep

(***************************************************************************)
(* The other parts of the invariant, one lemma each.                     *)
(***************************************************************************)
LEMMA CallsSoFarStep == OrdersInv /\ [Next]_vars => CallsSoFar'
<1> SUFFICES ASSUME OrdersInv, [Next]_vars PROVE CallsSoFar'
  OBVIOUS
<1> USE DEF Call, CreateCall, PayCall, Answer, Throw, Decide, Continue, OrdersInv
<1>1. ASSUME NEW r \in Request, CreateOrder(r) PROVE CallsSoFar'
  BY <1>1 DEF CreateOrder, tables, Typed, CallsSoFar, Announced
<1>2. ASSUME NEW r \in Request, FindByIdempotencyKey(r) PROVE CallsSoFar'
  BY <1>2 DEF FindByIdempotencyKey, tables, Typed, CallsSoFar, Announced
<1>3. ASSUME NEW r \in Request, Acquire(r) PROVE CallsSoFar'
  BY <1>3 DEF Acquire, tables, Typed, CallsSoFar, Announced
<1>4. ASSUME NEW r \in Request, EnsureUserExists(r) PROVE CallsSoFar'
  BY <1>4 DEF EnsureUserExists, tables, Typed, CallsSoFar, Announced
<1>5. ASSUME NEW r \in Request, CheckEvent(r) PROVE CallsSoFar'
  BY <1>5 DEF CheckEvent, tables, Typed, CallsSoFar, Announced
<1>6. ASSUME NEW r \in Request, ReserveAtomically(r) PROVE CallsSoFar'
  <2>1. reserved' = reserved \cup {r} \/ (reserved' = reserved /\ pc'[r] = "release")
    BY <1>6 DEF ReserveAtomically, TakeStock, Typed
  <2> QED
    BY <1>6, <2>1 DEF ReserveAtomically, Typed, CallsSoFar, StoredOrders, NoPhantomEvent, Announced
<1>7. ASSUME NEW r \in Request, SaveOrder(r) PROVE CallsSoFar'
  <2>1. CASE InsertOrder(r)
    <3>1. DOMAIN orders' = DOMAIN orders \cup {r}
      BY <1>7, <2>1, InsertType DEF SaveOrder, CallsSoFar
    <3>2. ~Announced(r, "ORDER_CREATED")
      BY <1>7 DEF SaveOrder, CallsSoFar, NoPhantomEvent, Announced
    <3> QED
      BY <1>7, <3>1, <3>2 DEF SaveOrder, Typed, CallsSoFar, Announced
  <2>2. CASE UNCHANGED orders /\ pc'[r] = "release"
    BY <1>7, <2>2 DEF SaveOrder, Typed, CallsSoFar, Announced
  <2> QED
    BY <1>7, <2>1, <2>2 DEF SaveOrder, Typed
<1>8. ASSUME NEW r \in Request, EnqueueCreated(r) PROVE CallsSoFar'
  <2>1. \A u \in Request : u # r =>
            (Announced(u, "ORDER_CREATED")' <=> Announced(u, "ORDER_CREATED"))
    <3>1. CASE Enqueue(r, "ORDER_CREATED")
      BY <3>1, EnqueueAnnounces DEF Typed, OrderOutboxType
    <3>2. CASE UNCHANGED outbox
      BY <3>2 DEF Announced
    <3> QED
      BY <1>8, <3>1, <3>2 DEF EnqueueCreated
  <2> QED
    BY <1>8, <2>1 DEF EnqueueCreated, Typed, CallsSoFar
<1>9. ASSUME NEW r \in Request, ReleaseLock(r) PROVE CallsSoFar'
  BY <1>9 DEF ReleaseLock, tables, Typed, CallsSoFar, Announced
<1>10. ASSUME NEW r \in Request, PayOrder(r) PROVE CallsSoFar'
  BY <1>10 DEF PayOrder, tables, Typed, CallsSoFar, Announced
<1>11. ASSUME NEW r \in Request, FindById(r) PROVE CallsSoFar'
  BY <1>11 DEF FindById, tables, Typed, CallsSoFar, Announced
<1>12. ASSUME NEW r \in Request, SavePaid(r) PROVE CallsSoFar'
  <2>1. DOMAIN orders' = DOMAIN orders
    BY <1>12, PaidType DEF SavePaid, Payments
  <2> QED
    BY <1>12, <2>1 DEF SavePaid, Typed, CallsSoFar, Announced
<1>13. ASSUME NEW r \in Request, EnqueuePaid(r) PROVE CallsSoFar'
  <2>0. target[r] \in Request
    BY <1>13 DEF EnqueuePaid, Payments, Typed
  <2>1. \A u \in Request : Announced(u, "ORDER_CREATED")' <=> Announced(u, "ORDER_CREATED")
    <3>1. CASE Enqueue(target[r], "ORDER_PAID")
      BY <2>0, <3>1, EnqueueAnnounces DEF Typed, OrderOutboxType
    <3>2. CASE UNCHANGED outbox
      BY <3>2 DEF Announced
    <3> QED
      BY <1>13, <3>1, <3>2 DEF EnqueuePaid
  <2> QED
    BY <1>13, <2>1 DEF EnqueuePaid, Typed, CallsSoFar
<1>14. ASSUME NEW t \in TicketType, ExpireKey(t) PROVE CallsSoFar'
  BY <1>14 DEF ExpireKey, tables, Typed, CallsSoFar, Announced
<1>15. ASSUME NEW p \in Process, Crash(p) PROVE CallsSoFar'
  BY <1>15 DEF Crash, InFlight, tables, Typed, CallsSoFar, Announced
<1>16. CASE UNCHANGED vars
  BY <1>16 DEF vars, tables, CallsSoFar, Announced
<1> QED
  BY <1>1, <1>2, <1>3, <1>4, <1>5, <1>6, <1>7, <1>8, <1>9, <1>10, <1>11,
     <1>12, <1>13, <1>14, <1>15, <1>16
  DEF Next, CreateStep, PayStep

LEMMA StoredOrdersStep == OrdersInv /\ [Next]_vars => StoredOrders'
<1> SUFFICES ASSUME OrdersInv, [Next]_vars PROVE StoredOrders'
  OBVIOUS
<1>1. Kept
  BY StepKeeps
<1>2. \A o \in DOMAIN orders : input'[o] = input[o]
  BY <1>1 DEF Kept, OrdersInv, Typed, StoredOrders, CallsSoFar
<1>3. ASSUME DOMAIN orders' = DOMAIN orders PROVE StoredOrders'
  BY <1>1, <1>2, <1>3 DEF Kept, OrdersInv, StoredOrders
<1>4. ASSUME NEW r \in Request, SaveOrder(r), InsertOrder(r), Insertable(r) PROVE StoredOrders'
  <2>1. /\ DOMAIN orders' = DOMAIN orders \cup {r}
        /\ orders'[r].quantity = input[r].quantity
        /\ orders'[r].idempotencyKey = input[r].idempotencyKey
        /\ r \in reserved /\ r \notin DOMAIN orders
    BY <1>4, InsertType DEF SaveOrder, CallsSoFar, OrdersInv, CreateCall
  <2>2. input' = input /\ reserved' = reserved
    BY <1>4 DEF SaveOrder
  <2>3. \A o \in DOMAIN orders :
            orders[o].idempotencyKey = input[r].idempotencyKey => input[r].idempotencyKey = NoKey
    BY <1>4 DEF Insertable, OrdersWithKey
  <2>4. \A o \in DOMAIN orders : orders'[o].idempotencyKey = orders[o].idempotencyKey
                                    /\ orders'[o].quantity = orders[o].quantity
    BY <1>1 DEF Kept
  <2> QED
    BY <2>1, <2>2, <2>3, <2>4 DEF OrdersInv, StoredOrders
<1>5. DOMAIN orders' = DOMAIN orders
        \/ \E r \in Request : SaveOrder(r) /\ InsertOrder(r) /\ Insertable(r)
  <2>1. ASSUME NEW r \in Request, SavePaid(r) PROVE DOMAIN orders' = DOMAIN orders
    BY <2>1, PaidType DEF SavePaid, Payments, OrdersInv, Typed
  <2> QED
    BY <2>1 DEF Next, CreateStep, PayStep, CreateOrder, FindByIdempotencyKey, Acquire,
       EnsureUserExists, CheckEvent, ReserveAtomically, SaveOrder, EnqueueCreated,
       ReleaseLock, PayOrder, FindById, EnqueuePaid, ExpireKey, Crash, vars, tables
<1> QED
  BY <1>3, <1>4, <1>5

LEMMA PaymentsStep == OrdersInv /\ [Next]_vars => Payments'
<1> SUFFICES ASSUME OrdersInv, [Next]_vars, NEW s \in Request,
                    pc'[s] \in {"savePaid", "enqueuePaid"}
             PROVE  /\ target'[s] \in DOMAIN orders'
                    /\ pc'[s] = "enqueuePaid" => orders'[target'[s]].status = "PAID"
  BY DEF Payments
<1>1. Kept
  BY StepKeeps
<1>2. CASE pc'[s] = pc[s]
  BY <1>1, <1>2 DEF Kept, OrdersInv, Payments
<1>3. CASE FindById(s)
  BY <1>1, <1>3 DEF FindById, Continue, Answer, Decide, OrdersInv, Typed, tables
<1>4. CASE SavePaid(s)
  BY <1>4, PaidType DEF SavePaid, Continue, Answer, Decide, OrdersInv, Typed, Payments
<1>5. pc'[s] = pc[s] \/ FindById(s) \/ SavePaid(s)
  <2> USE DEF Continue, Answer, Throw, Decide, OrdersInv, Typed
  <2>1. ASSUME NEW r \in Request, CreateOrder(r) \/ PayOrder(r) PROVE pc'[s] = pc[s]
    BY <2>1 DEF CreateOrder, PayOrder
  <2>2. ASSUME NEW r \in Request, CreateStep(r) PROVE pc'[s] = pc[s]
    BY <2>2 DEF CreateStep, FindByIdempotencyKey, Acquire, EnsureUserExists, CheckEvent,
       ReserveAtomically, SaveOrder, EnqueueCreated, ReleaseLock
  <2>3. ASSUME NEW r \in Request, PayStep(r)
        PROVE pc'[s] = pc[s] \/ FindById(s) \/ SavePaid(s)
    <3>1. CASE r = s
      BY <2>3, <3>1 DEF PayStep, EnqueuePaid
    <3>2. CASE r # s
      BY <2>3, <3>2 DEF PayStep, FindById, SavePaid, EnqueuePaid
    <3> QED
      BY <3>1, <3>2
  <2>4. ASSUME NEW t \in TicketType, ExpireKey(t) PROVE pc'[s] = pc[s]
    BY <2>4 DEF ExpireKey
  <2>5. ASSUME NEW p \in Process, Crash(p) PROVE pc'[s] = pc[s]
    BY <2>5 DEF Crash
  <2>6. CASE UNCHANGED vars
    BY <2>6 DEF vars
  <2> QED
    BY <2>1, <2>2, <2>3, <2>4, <2>5, <2>6 DEF Next
<1> QED
  BY <1>2, <1>3, <1>4, <1>5

LEMMA AnswersStep == OrdersInv /\ [Next]_vars => Answers'
<1> DEFINE Good == {"created", "replayed", "paid"}
<1> SUFFICES ASSUME OrdersInv, [Next]_vars, NEW s \in Request PROVE TrueAnswer(s)'
  BY DEF Answers
<1>1. Kept
  BY StepKeeps
<1>2. CASE reply'[s] = reply[s] /\ (pc'[s] = "new" => pc[s] = "new")
  <2>1. reply[s].code \in Good =>
            pc[s] # "new" /\ input'[s] = input[s] /\ target'[s] = target[s]
    BY <1>1 DEF Kept, OrdersInv, Answers, TrueAnswer, NoReply
  <2>2. \A o \in DOMAIN orders : o \in Request
    BY DEF OrdersInv, Typed
  <2>3. TrueAnswer(s)
    BY DEF OrdersInv, Answers
  <2>4. reply[s].code = "created" => TrueAnswer(s)'
    BY <1>1, <1>2, <2>1, <2>2, <2>3 DEF Kept, TrueAnswer, OrderOutboxType
  <2>5. reply[s].code = "replayed" => TrueAnswer(s)'
    BY <1>1, <1>2, <2>1, <2>2, <2>3 DEF Kept, TrueAnswer, OrderOutboxType
  <2>6. reply[s].code = "paid" => TrueAnswer(s)'
    BY <1>1, <1>2, <2>1, <2>2, <2>3 DEF Kept, TrueAnswer, OrderOutboxType
  <2> QED
    BY <1>2, <2>3, <2>4, <2>5, <2>6 DEF TrueAnswer
<1>3. ASSUME NEW o \in OrdersWithKey(input[s].idempotencyKey),
             FindByIdempotencyKey(s), Answer(s, "replayed", o)
      PROVE  TrueAnswer(s)'
  BY <1>3 DEF FindByIdempotencyKey, OrdersWithKey, Answer, Decide, OrdersInv, Typed,
     tables, TrueAnswer
<1>4. CASE EnqueueCreated(s) /\ reply'[s].code = "created"
  <2>1. Enqueue(s, "ORDER_CREATED") /\ reply'[s].order = s /\ pc'[s] # "new"
    BY <1>4 DEF EnqueueCreated, Decide, Throw, OrdersInv, Typed
  <2> QED
    BY <1>4, <2>1, EnqueueAnnounces
    DEF EnqueueCreated, OrdersInv, Typed, CallsSoFar, OrderOutboxType, TrueAnswer
<1>5. CASE EnqueuePaid(s) /\ reply'[s].code = "paid"
  <2>1. Enqueue(target[s], "ORDER_PAID") /\ pc'[s] # "new" /\ target[s] \in DOMAIN orders
    BY <1>5 DEF EnqueuePaid, Decide, Answer, OrdersInv, Typed, Payments
  <2>2. target' = target /\ orders' = orders /\ orders[target[s]].status = "PAID"
    BY <1>5 DEF EnqueuePaid, OrdersInv, Payments
  <2>3. Announced(target[s], "ORDER_PAID")'
    BY <2>1, <2>2, EnqueueAnnounces DEF OrdersInv, Typed, OrderOutboxType, Announced
  <2> QED
    BY <1>5, <2>1, <2>2, <2>3 DEF TrueAnswer
<1>6. CASE reply'[s].code \notin Good /\ pc'[s] # "new"
  BY <1>6 DEF TrueAnswer
<1>7. \/ reply'[s] = reply[s] /\ (pc'[s] = "new" => pc[s] = "new")
      \/ \E o \in OrdersWithKey(input[s].idempotencyKey) :
            FindByIdempotencyKey(s) /\ Answer(s, "replayed", o)
      \/ EnqueueCreated(s) /\ reply'[s].code = "created"
      \/ EnqueuePaid(s) /\ reply'[s].code = "paid"
      \/ reply'[s].code \notin Good /\ pc'[s] # "new"
  <2> USE DEF Continue, Answer, Throw, Decide, OrdersInv, Typed
  <2>1. ASSUME NEW r \in Request, r # s,
               CreateOrder(r) \/ PayOrder(r) \/ CreateStep(r) \/ PayStep(r)
        PROVE  reply'[s] = reply[s] /\ pc'[s] = pc[s]
    BY <2>1 DEF CreateOrder, PayOrder, CreateStep, PayStep, FindByIdempotencyKey,
       Acquire, EnsureUserExists, CheckEvent, ReserveAtomically, SaveOrder,
       EnqueueCreated, ReleaseLock, FindById, SavePaid, EnqueuePaid
  <2>2. CASE CreateOrder(s) \/ PayOrder(s) \/ Acquire(s) \/ EnsureUserExists(s)
             \/ CheckEvent(s) \/ ReserveAtomically(s) \/ SaveOrder(s)
             \/ ReleaseLock(s) \/ FindById(s) \/ SavePaid(s)
    BY <2>2 DEF CreateOrder, PayOrder, Acquire, EnsureUserExists, CheckEvent,
       ReserveAtomically, SaveOrder, ReleaseLock, FindById, SavePaid
  <2>3. CASE FindByIdempotencyKey(s)
    BY <2>3 DEF FindByIdempotencyKey
  <2>4. CASE EnqueueCreated(s)
    BY <2>4 DEF EnqueueCreated
  <2>5. CASE EnqueuePaid(s)
    BY <2>5 DEF EnqueuePaid
  <2>6. ASSUME NEW t \in TicketType, ExpireKey(t)
        PROVE  reply'[s] = reply[s] /\ pc'[s] = pc[s]
    BY <2>6 DEF ExpireKey
  <2>7. ASSUME NEW p \in Process, Crash(p)
        PROVE  reply'[s] = reply[s] /\ (pc'[s] = "new" => pc[s] = "new")
    BY <2>7 DEF Crash
  <2>8. CASE UNCHANGED vars
    BY <2>8 DEF vars
  <2> QED
    BY <2>1, <2>2, <2>3, <2>4, <2>5, <2>6, <2>7, <2>8 DEF Next, CreateStep, PayStep
<1> QED
  BY <1>2, <1>3, <1>4, <1>5, <1>6, <1>7

(***************************************************************************)
(* Two statements write to the outbox, and each adds one row.              *)
(***************************************************************************)
LEMMA OutboxStep ==
    ASSUME [Next]_vars
    PROVE  \/ UNCHANGED outbox
           \/ \E r \in Request : EnqueueCreated(r) /\ Enqueue(r, "ORDER_CREATED")
           \/ \E r \in Request : EnqueuePaid(r) /\ Enqueue(target[r], "ORDER_PAID")
BY DEF Next, CreateStep, PayStep, CreateOrder, FindByIdempotencyKey, Acquire,
   EnsureUserExists, CheckEvent, ReserveAtomically, SaveOrder, EnqueueCreated,
   ReleaseLock, PayOrder, FindById, SavePaid, EnqueuePaid, ExpireKey, Crash, vars, tables

LEMMA NoPhantomEventStep == OrdersInv /\ [Next]_vars => NoPhantomEvent'
<1> SUFFICES ASSUME OrdersInv, [Next]_vars PROVE NoPhantomEvent'
  OBVIOUS
<1>1. Kept
  BY StepKeeps
<1>2. CASE UNCHANGED outbox
  BY <1>1, <1>2 DEF Kept, OrdersInv, NoPhantomEvent
<1>3. ASSUME NEW r \in Request, EnqueueCreated(r), Enqueue(r, "ORDER_CREATED")
      PROVE  NoPhantomEvent'
  <2>1. /\ DOMAIN outbox' = DOMAIN outbox \cup {Len(outbox) + 1}
        /\ \A i \in DOMAIN outbox : outbox'[i] = outbox[i]
        /\ outbox'[Len(outbox) + 1].aggregateId = r
        /\ outbox'[Len(outbox) + 1].type = "ORDER_CREATED"
    BY <1>3, EnqueueRow DEF OrdersInv, Typed, OrderOutboxType
  <2>2. orders' = orders /\ r \in DOMAIN orders /\ ~Announced(r, "ORDER_CREATED")
    BY <1>3 DEF EnqueueCreated, OrdersInv, CallsSoFar
  <2> QED
    BY <2>1, <2>2 DEF OrdersInv, NoPhantomEvent, Announced
<1>4. ASSUME NEW r \in Request, EnqueuePaid(r), Enqueue(target[r], "ORDER_PAID")
      PROVE  NoPhantomEvent'
  <2>1. /\ target[r] \in DOMAIN orders /\ target[r] \in Request
        /\ orders[target[r]].status = "PAID"
    BY <1>4 DEF EnqueuePaid, OrdersInv, Payments, Typed
  <2>2. /\ DOMAIN outbox' = DOMAIN outbox \cup {Len(outbox) + 1}
        /\ \A i \in DOMAIN outbox : outbox'[i] = outbox[i]
        /\ outbox'[Len(outbox) + 1].aggregateId = target[r]
        /\ outbox'[Len(outbox) + 1].type = "ORDER_PAID"
    BY <1>4, <2>1, EnqueueRow DEF OrdersInv, Typed, OrderOutboxType
  <2>3. orders' = orders
    BY <1>4 DEF EnqueuePaid
  <2> QED
    BY <2>1, <2>2, <2>3 DEF OrdersInv, NoPhantomEvent
<1> QED
  BY <1>2, <1>3, <1>4, OutboxStep

LEMMA OrdersStepInv == OrdersInv /\ [Next]_vars => OrdersInv'
<1> SUFFICES ASSUME OrdersInv, [Next]_vars PROVE OrdersInv'
  OBVIOUS
<1>1. LockInv'
  BY StepIsLockStep, LockStepInv DEF OrdersInv
<1>2. Typed'
  BY TypedStep DEF OrdersInv, LockInv
<1> QED
  BY <1>1, <1>2, CallsSoFarStep, StoredOrdersStep, PaymentsStep, AnswersStep,
     NoPhantomEventStep DEF OrdersInv

LEMMA OrdersInvariance == Spec => []OrdersInv
BY OrdersInitInv, OrdersStepInv, PTL DEF Spec
-----------------------------------------------------------------------------
(***************************************************************************)
(* The variables keep their types.                                         *)
(***************************************************************************)
THEOREM TypeCorrect == Spec => []TypeOK
<1>1. OrdersInv => TypeOK
  BY DEF OrdersInv, LockInv, Typed, TypeOK
<1> QED
  BY <1>1, OrdersInvariance, PTL

(***************************************************************************)
(* The lock is used the way RedisLock describes, and so the critical       *)
(* section of CreateOrderUseCase is exclusive until some key lapses.       *)
(***************************************************************************)
THEOREM UsesTheLock == Spec => LockSpec
<1>1. Init => LockInit
  BY DEF Init
<1> QED
  BY <1>1, StepIsLockStep, PTL DEF Spec, LockSpec

THEOREM CriticalSectionExclusive == Spec => []ExclusionUntilLapse
BY UsesTheLock, ExclusionHolds, PTL

(***************************************************************************)
(* All successful answers to requests with one idempotency key name one    *)
(* order, under every interleaving and every fault.                        *)
(***************************************************************************)
THEOREM SameKeySameOrderHolds == Spec => []SameKeySameOrder
<1>1. OrdersInv => SameKeySameOrder
  BY DEF OrdersInv, Typed, Answers, TrueAnswer, StoredOrders, SameKeySameOrder
<1> QED
  BY <1>1, OrdersInvariance, PTL

(***************************************************************************)
(* Whoever is told that an order was created, or paid, finds it so in      *)
(* orders and in the outbox.                                               *)
(***************************************************************************)
THEOREM SuccessIsBackedHolds == Spec => []SuccessIsBacked
<1>1. OrdersInv => SuccessIsBacked
  BY DEF OrdersInv, Answers, TrueAnswer, SuccessIsBacked, Done
<1> QED
  BY <1>1, OrdersInvariance, PTL

(***************************************************************************)
(* The outbox announces only what happened, and a creation at most once.   *)
(***************************************************************************)
THEOREM NoPhantomEventHolds == Spec => []NoPhantomEvent
BY OrdersInvariance, PTL DEF OrdersInv

(***************************************************************************)
(* Once its order is stored, a request can only succeed or fail with an    *)
(* internal error.                                                         *)
(***************************************************************************)
StoredThenDecided ==
    \A r \in DOMAIN orders :
        pc[r] \in {"release", "done"} => reply[r].code \in {"created", "internal"}

(***************************************************************************)
(* How the request of a stored order moves on.                             *)
(***************************************************************************)
LEMMA StoredRequestStep ==
    ASSUME OrdersInv, [Next]_vars, NEW s \in DOMAIN orders'
    PROVE  \/ s \notin DOMAIN orders /\ SaveOrder(s) /\ InsertOrder(s)
           \/ /\ s \in DOMAIN orders
              /\ \/ EnqueueCreated(s)
                 \/ ReleaseLock(s)
                 \/ reply'[s] = reply[s] /\ pc'[s] = pc[s]
                 \/ /\ "crash" \in Faults /\ pc'[s] = "crashed"
                    /\ reply'[s] = reply[s]
<1> USE DEF Continue, Answer, Throw, Decide, OrdersInv, Typed
<1>1. s \in Request
  BY TypedStep DEF LockInv
<1>2. CASE s \notin DOMAIN orders
  <2>1. PICK r \in Request : SaveOrder(r) /\ InsertOrder(r)
    BY <1>2, PaidType
    DEF Next, CreateStep, PayStep, CreateOrder, FindByIdempotencyKey, Acquire,
        EnsureUserExists, CheckEvent, ReserveAtomically, SaveOrder, EnqueueCreated,
        ReleaseLock, PayOrder, FindById, SavePaid, EnqueuePaid, ExpireKey, Crash,
        vars, tables, Payments
  <2>2. DOMAIN orders' = DOMAIN orders \cup {r}
    BY <2>1, InsertType DEF SaveOrder, CallsSoFar, CreateCall
  <2> QED
    BY <1>2, <2>1, <2>2
<1>3. CASE s \in DOMAIN orders
  <2>0. pc[s] \in {"save", "enqueue", "release", "done", "crashed"} /\ pc[s] # "save"
    BY <1>1, <1>3 DEF CallsSoFar, StoredOrders
  <2>1. ASSUME NEW r \in Request, r # s,
               CreateOrder(r) \/ PayOrder(r) \/ CreateStep(r) \/ PayStep(r)
        PROVE  reply'[s] = reply[s] /\ pc'[s] = pc[s]
    BY <1>1, <2>1 DEF CreateOrder, PayOrder, CreateStep, PayStep, FindByIdempotencyKey,
       Acquire, EnsureUserExists, CheckEvent, ReserveAtomically, SaveOrder,
       EnqueueCreated, ReleaseLock, FindById, SavePaid, EnqueuePaid
  <2>3. ASSUME NEW t \in TicketType, ExpireKey(t)
        PROVE  reply'[s] = reply[s] /\ pc'[s] = pc[s]
    BY <2>3 DEF ExpireKey
  <2>4. ASSUME NEW p \in Process, Crash(p)
        PROVE  /\ "crash" \in Faults /\ reply'[s] = reply[s]
               /\ pc'[s] = pc[s] \/ pc'[s] = "crashed"
    BY <1>1, <2>4 DEF Crash
  <2>5. CASE UNCHANGED vars
    BY <1>3, <2>5 DEF vars
  <2>6. ASSUME CreateOrder(s) \/ PayOrder(s) \/ CreateStep(s) \/ PayStep(s)
        PROVE  EnqueueCreated(s) \/ ReleaseLock(s)
    BY <2>0, <2>6 DEF CreateOrder, PayOrder, CreateStep, PayStep, FindByIdempotencyKey,
       Acquire, EnsureUserExists, CheckEvent, ReserveAtomically, SaveOrder,
       FindById, SavePaid, EnqueuePaid
  <2> QED
    BY <1>1, <1>3, <2>1, <2>3, <2>4, <2>5, <2>6 DEF Next
<1> QED
  BY <1>2, <1>3

LEMMA StoredThenDecidedStep ==
    OrdersInv /\ StoredThenDecided /\ [Next]_vars => StoredThenDecided'
<1> SUFFICES ASSUME OrdersInv, StoredThenDecided, [Next]_vars,
                    NEW s \in DOMAIN orders', pc'[s] \in {"release", "done"}
             PROVE  reply'[s].code \in {"created", "internal"}
  BY DEF StoredThenDecided
<1> USE DEF Continue, Answer, Throw, Decide, OrdersInv, Typed
<1>1. s \in Request
  BY TypedStep DEF LockInv
<1>2. CASE SaveOrder(s) \/ EnqueueCreated(s)
  BY <1>1, <1>2 DEF SaveOrder, EnqueueCreated
<1>3. CASE s \in DOMAIN orders /\ ReleaseLock(s)
  BY <1>1, <1>3 DEF ReleaseLock, StoredThenDecided
<1>4. CASE s \in DOMAIN orders /\ reply'[s] = reply[s] /\ pc'[s] = pc[s]
  BY <1>4 DEF StoredThenDecided
<1> QED
  BY <1>2, <1>3, <1>4, StoredRequestStep

(***************************************************************************)
(* A request that was refused has left no order and no announcement.       *)
(***************************************************************************)
THEOREM RefusalLeavesNoOrderHolds == Spec => []RefusalLeavesNoOrder
<1>1. Init => StoredThenDecided
  BY DEF Init, StoredThenDecided
<1>2. OrdersInv /\ StoredThenDecided => RefusalLeavesNoOrder
  BY DEF OrdersInv, NoPhantomEvent, Announced, StoredThenDecided, RefusalLeavesNoOrder
<1> QED
  BY <1>1, <1>2, StoredThenDecidedStep, OrdersInvariance, PTL DEF Spec
-----------------------------------------------------------------------------
(***************************************************************************)
(* Stock.                                                                  *)
(***************************************************************************)
LEMMA StepIsSaleStep ==
    OrdersInv /\ [Next]_vars => [Sales!SaleNext]_(Sales!saleVars)
<1> SUFFICES ASSUME OrdersInv, [Next]_vars
             PROVE  Sales!SaleNext \/ UNCHANGED <<stock, TakenBy, DOMAIN orders>>
  BY DEF Sales!saleVars
<1>1. Kept
  BY StepKeeps
<1>2. ASSUME reserved' = reserved PROVE TakenBy' = TakenBy
  BY <1>1, <1>2 DEF Kept, TakenBy, OrdersInv, Typed, CallsSoFar
<1>3. ASSUME NEW r \in Request, ReserveAtomically(r), TakeStock(r),
             stock[TicketOf[r]] >= input[r].quantity
      PROVE  Sales!Take(r)
  <2>1. r \notin reserved /\ r \notin DOMAIN orders /\ input[r].quantity \in Nat \ {0}
    BY <1>3, QuantityAssumption
    DEF ReserveAtomically, OrdersInv, CallsSoFar, StoredOrders, CreateCall, CreateOrderInput
  <2>2. TakenBy' = [TakenBy EXCEPT ![r] = input[r].quantity] /\ TakenBy[r] = 0
    BY <1>3, <2>1 DEF ReserveAtomically, TakeStock, TakenBy
  <2>3. input[r].quantity \in 1 .. stock[TicketOf[r]]
    BY <1>3, <2>1, TicketOfAssumption DEF OrdersInv, Typed
  <2>4. stock' = [stock EXCEPT ![TicketOf[r]] = @ - input[r].quantity] /\ orders' = orders
    BY <1>3 DEF ReserveAtomically, TakeStock
  <2> QED
    BY <2>1, <2>2, <2>3, <2>4 DEF Sales!Take
<1>4. ASSUME NEW r \in Request, SaveOrder(r), InsertOrder(r) PROVE Sales!Confirm(r)
  <2>1. r \in reserved /\ r \notin DOMAIN orders /\ input[r].quantity \in Nat \ {0}
    BY <1>4, QuantityAssumption DEF SaveOrder, OrdersInv, CallsSoFar, CreateOrderInput
  <2>2. DOMAIN orders' = DOMAIN orders \cup {r}
    BY <1>4, InsertType DEF SaveOrder, OrdersInv, CallsSoFar, CreateCall
  <2>3. stock' = stock /\ reserved' = reserved
    BY <1>4 DEF SaveOrder
  <2> QED
    BY <1>2, <2>1, <2>2, <2>3 DEF Sales!Confirm, TakenBy
<1>5. \/ \E r \in Request : /\ ReserveAtomically(r) /\ TakeStock(r)
                            /\ stock[TicketOf[r]] >= input[r].quantity
      \/ \E r \in Request : SaveOrder(r) /\ InsertOrder(r)
      \/ stock' = stock /\ reserved' = reserved /\ DOMAIN orders' = DOMAIN orders
  <2>1. ASSUME NEW r \in Request, SavePaid(r) PROVE DOMAIN orders' = DOMAIN orders
    BY <2>1, PaidType DEF SavePaid, Payments, OrdersInv
  <2> QED
    BY <2>1 DEF Next, CreateStep, PayStep, CreateOrder, FindByIdempotencyKey, Acquire,
       EnsureUserExists, CheckEvent, ReserveAtomically, SaveOrder, EnqueueCreated,
       ReleaseLock, PayOrder, FindById, SavePaid, EnqueuePaid, ExpireKey, Crash, vars, tables
<1> QED
  BY <1>2, <1>3, <1>4, <1>5 DEF Sales!SaleNext

(***************************************************************************)
(* orders-service implements the abstract sale.                            *)
(***************************************************************************)
THEOREM ImplementsTicketSaleHolds == Spec => ImplementsTicketSale
<1>1. Init => Sales!SaleInit
  BY DEF Init, Sales!SaleInit, TakenBy
<1> QED
  BY <1>1, StepIsSaleStep, OrdersInvariance, PTL
  DEF Spec, ImplementsTicketSale, Sales!SaleSpec

Proven == INSTANCE TicketSaleProofs WITH
            Sale <- Request, available <- stock, taken <- TakenBy, confirmed <- DOMAIN orders

LEMMA StockBalanced == Spec => [](Proven!SaleTypeOK /\ Proven!Balanced)
<1>1. Proven!SaleAssumption
  BY TicketOfAssumption, StockAssumption DEF Proven!SaleAssumption
<1>2. Sales!SaleInit => Proven!SaleInit
  BY DEF Sales!SaleInit, Proven!SaleInit
<1>3. [Sales!SaleNext]_(Sales!saleVars) => [Proven!SaleNext]_(Proven!saleVars)
  BY DEF Sales!SaleNext, Sales!Take, Sales!Confirm, Sales!saleVars,
         Proven!SaleNext, Proven!Take, Proven!Confirm, Proven!saleVars
<1>4. Sales!SaleSpec => Proven!SaleSpec
  BY <1>2, <1>3, PTL DEF Sales!SaleSpec, Proven!SaleSpec
<1>5. Proven!SaleSpec => [](Proven!SaleTypeOK /\ Proven!Balanced)
  BY <1>1, Proven!SaleBalanced
<1> QED
  BY <1>4, <1>5, ImplementsTicketSaleHolds, PTL DEF ImplementsTicketSale

(***************************************************************************)
(* What is left and what requests took add up to the quantity on sale, and *)
(* stored orders hold tickets that were taken, whatever fails.             *)
(***************************************************************************)
THEOREM NothingSoldTwiceHolds == Spec => []NothingSoldTwice
<1>1. Proven!Balanced => NothingSoldTwice
  BY DEF NothingSoldTwice, Sales!Balanced, Proven!Balanced, Sales!Tickets, Proven!Tickets,
         Sales!OfType, Proven!OfType, Sales!IsFiniteSet, Proven!IsFiniteSet,
         Sales!Cardinality, Proven!Cardinality
<1> QED
  BY <1>1, StockBalanced, PTL

(***************************************************************************)
(* The tickets of stored orders are among the tickets taken.               *)
(***************************************************************************)
LEMMA OrderedSeatsAreTaken ==
    ASSUME OrdersInv, NEW t \in TicketType
    PROVE  SeatsOrdered(t) \subseteq Proven!Tickets(Proven!OfType(t))
<1>1. \A o \in DOMAIN orders :
          o \in Request /\ orders[o].quantity = TakenBy[o]
  BY DEF OrdersInv, Typed, StoredOrders, TakenBy
<1> QED
  BY <1>1 DEF SeatsOrdered, Proven!Tickets, Proven!OfType

(***************************************************************************)
(* No ticket type is ever oversold, however requests interleave, locks     *)
(* lapse, statements fail and processes die.                               *)
(***************************************************************************)
THEOREM NoOversellHolds == Spec => []NoOversell
<1>1. OrdersInv /\ Proven!SaleTypeOK /\ Proven!Balanced => NoOversell
  <2> SUFFICES ASSUME OrdersInv, Proven!SaleTypeOK, Proven!Balanced, NEW t \in TicketType
               PROVE  Cardinality(SeatsOrdered(t)) <= Capacity[t]
    BY DEF NoOversell
  <2> DEFINE T == Proven!Tickets(Proven!OfType(t))
  <2>0. stock[t] \in Nat
    BY DEF OrdersInv, Typed
  <2>a. Proven!IsFiniteSet(T) <=> IsFiniteSet(T)
    BY DEF Proven!IsFiniteSet, IsFiniteSet
  <2>b. Proven!Cardinality(T) = Cardinality(T)
    BY DEF Proven!Cardinality, Cardinality
  <2>1. IsFiniteSet(T) /\ stock[t] + Cardinality(T) = Capacity[t]
    BY <2>a, <2>b DEF Proven!Balanced
  <2>2. Cardinality(T) \in Nat /\ Cardinality(SeatsOrdered(t)) \in Nat
        /\ Cardinality(SeatsOrdered(t)) <= Cardinality(T)
    BY <2>1, OrderedSeatsAreTaken, FS_Subset, FS_CardinalityType
  <2> QED
    BY <2>0, <2>1, <2>2
<1> QED
  BY <1>1, OrdersInvariance, StockBalanced, PTL

(***************************************************************************)
(* Without failures, stock is lost in the four ways LeakExplained names:    *)
(* each loss happens in one step that establishes its reason, and reasons  *)
(* do not go away.                                                         *)
(***************************************************************************)
Reason(r) ==
    \/ EventOf[TicketOf[r]] # input[r].eventId
    \/ OrdersWithKey(input[r].idempotencyKey) # {}
    \/ input[r].idempotencyKey \in LongKey
    \/ Total(r) > Int4Max

LEMMA ReasonStays ==
    ASSUME Kept, NEW r \in Request, pc[r] # "new", Reason(r)
    PROVE  Reason(r)'
BY DEF Kept, Reason, OrdersWithKey, Total

LEMMA LeakStep == OrdersInv /\ LeakExplained /\ [Next]_vars => LeakExplained'
<1> SUFFICES ASSUME OrdersInv, LeakExplained, [Next]_vars, Faults = {},
                    NEW s \in Request, Leaked(s)'
             PROVE  Reason(s)'
  BY DEF LeakExplained, Reason
<1> USE DEF Continue, Answer, Throw, Decide, DbFault, OrdersInv, Typed
<1>1. Kept
  BY StepKeeps
<1>2. CASE Leaked(s)
  BY <1>1, <1>2, ReasonStays DEF LeakExplained, Reason, Leaked, CallsSoFar
<1>3. CASE ReserveAtomically(s)
  <2>1. CASE s \in reserved
    BY <1>3, <2>1 DEF ReserveAtomically, CallsSoFar
  <2>2. CASE s \notin reserved
    BY <1>3, <2>2 DEF ReserveAtomically, Leaked, Reason
  <2> QED
    BY <2>1, <2>2
<1>4. CASE SaveOrder(s)
  <2>1. CASE Insertable(s) /\ InsertOrder(s)
    BY <1>4, <2>1, InsertType DEF SaveOrder, Leaked, CallsSoFar, CreateCall
  <2>2. CASE ~Insertable(s) /\ UNCHANGED <<input, orders>>
    BY <1>4, <2>2, StockAssumption, QuantityAssumption, TicketOfAssumption
    DEF SaveOrder, Insertable, Reason, OrdersWithKey, Total, CallsSoFar, CreateCall, CreateOrderInput
  <2> QED
    BY <1>4, <2>1, <2>2 DEF SaveOrder
<1>5. Leaked(s) \/ ReserveAtomically(s) \/ SaveOrder(s)
  <2>1. s \notin DOMAIN orders
    BY <1>1 DEF Kept, Leaked
  <2>2. ASSUME s \notin reserved PROVE ReserveAtomically(s)
    <3>1. s \in reserved'
      BY DEF Leaked
    <3>2. ASSUME NEW r \in Request, CreateStep(r) PROVE ReserveAtomically(s)
      <4>1. CASE ReserveAtomically(r)
        BY <2>2, <3>1, <4>1 DEF ReserveAtomically, TakeStock
      <4>2. reserved' = reserved \/ ReserveAtomically(r)
        BY <3>2 DEF CreateStep, FindByIdempotencyKey, Acquire, EnsureUserExists, CheckEvent,
           SaveOrder, EnqueueCreated, ReleaseLock, tables
      <4> QED
        BY <2>2, <3>1, <4>1, <4>2
    <3>3. reserved' = reserved \/ \E r \in Request : CreateStep(r)
      BY DEF Next, PayStep, CreateOrder, PayOrder, FindById, SavePaid, EnqueuePaid,
         ExpireKey, Crash, vars, tables
    <3> QED
      BY <2>2, <3>1, <3>2, <3>3
  <2>3. ASSUME pc[s] = "save", pc'[s] # "save" PROVE SaveOrder(s)
    <3>1. ASSUME NEW r \in Request, r # s,
                 CreateOrder(r) \/ PayOrder(r) \/ CreateStep(r) \/ PayStep(r)
          PROVE  pc'[s] = pc[s]
      BY <3>1 DEF CreateOrder, PayOrder, CreateStep, PayStep, FindByIdempotencyKey,
         Acquire, EnsureUserExists, CheckEvent, ReserveAtomically, SaveOrder,
         EnqueueCreated, ReleaseLock, FindById, SavePaid, EnqueuePaid
    <3>2. CASE CreateOrder(s) \/ PayOrder(s) \/ CreateStep(s) \/ PayStep(s)
      BY <2>3, <3>2 DEF CreateOrder, PayOrder, CreateStep, PayStep, FindByIdempotencyKey,
         Acquire, EnsureUserExists, CheckEvent, ReserveAtomically,
         EnqueueCreated, ReleaseLock, FindById, SavePaid, EnqueuePaid
    <3>3. ASSUME NEW t \in TicketType, ExpireKey(t) PROVE pc'[s] = pc[s]
      BY <3>3 DEF ExpireKey
    <3>4. ASSUME NEW p \in Process, Crash(p) PROVE FALSE
      BY <3>4 DEF Crash
    <3>5. ASSUME UNCHANGED vars PROVE pc'[s] = pc[s]
      BY <3>5 DEF vars
    <3> QED
      BY <2>3, <3>1, <3>2, <3>3, <3>4, <3>5 DEF Next
  <2> QED
    BY <2>1, <2>2, <2>3 DEF Leaked
<1> QED
  BY <1>2, <1>3, <1>4, <1>5

THEOREM LeakExplainedHolds == Spec => []LeakExplained
<1>1. Init => LeakExplained
  BY DEF Init, LeakExplained, Leaked
<1> QED
  BY <1>1, LeakStep, OrdersInvariance, PTL DEF Spec

(***************************************************************************)
(* No release deletes the key of a request of another process: the service *)
(* calls release as RedisLock describes it.                                *)
(***************************************************************************)
THEOREM NoForeignRelease == Spec => ReleaseWithinProcess
BY UsesTheLock, ReleaseWithinProcessHolds, PTL
-----------------------------------------------------------------------------
(***************************************************************************)
(* Keys left in Redis.                                                     *)
(***************************************************************************)

(***************************************************************************)
(* How far a request is with the lock follows from the call it makes next. *)
(***************************************************************************)
Stage(r) ==
    /\ pc[r] \in {"new", "findByIdempotencyKey"} \cup PayCall => phase[r] = "idle"
    /\ pc[r] = "acquire" => phase[r] \in {"idle", "granted", "denied", "setFailed"}
    /\ pc[r] \in {"ensureUserExists", "checkEvent", "reserveAtomically", "save", "enqueue"}
          => phase[r] = "held"
    /\ pc[r] = "release" => phase[r] \in {"held", "evaluated", "evalFailed"}
    /\ pc[r] \in {"done", "crashed"} => phase[r] \in {"idle", "out"}

Stages == \A r \in Request : Stage(r)

LEMMA StagesStep == OrdersInv /\ Stages /\ [Next]_vars => Stages'
<1> SUFFICES ASSUME OrdersInv, Stages, [Next]_vars, NEW s \in Request PROVE Stage(s)'
  BY DEF Stages
<1>0. Stage(s)
  BY DEF Stages
<1> USE DEF OrdersInv, Typed, LockInv, LockTypeOK, Stage, Continue, Answer, Throw, Decide,
            Call, CreateCall, PayCall
<1>1. ASSUME NEW r \in Request, CreateOrder(r) \/ PayOrder(r) PROVE Stage(s)'
  BY <1>0, <1>1 DEF CreateOrder, PayOrder, lockVars
<1>2. ASSUME NEW r \in Request, FindByIdempotencyKey(r) PROVE Stage(s)'
  BY <1>0, <1>2 DEF FindByIdempotencyKey, lockVars
<1>3. ASSUME NEW r \in Request, Acquire(r) PROVE Stage(s)'
  BY <1>0, <1>3 DEF Acquire, SetNX, Send, Acquired, NotAcquired, Receive
<1>4. ASSUME NEW r \in Request, EnsureUserExists(r) \/ CheckEvent(r) PROVE Stage(s)'
  BY <1>0, <1>4 DEF EnsureUserExists, CheckEvent, lockVars
<1>5. ASSUME NEW r \in Request, ReserveAtomically(r) PROVE Stage(s)'
  BY <1>0, <1>5 DEF ReserveAtomically, lockVars
<1>6. ASSUME NEW r \in Request, SaveOrder(r) \/ EnqueueCreated(r) PROVE Stage(s)'
  BY <1>0, <1>6 DEF SaveOrder, EnqueueCreated, lockVars
<1>7. ASSUME NEW r \in Request, ReleaseLock(r) PROVE Stage(s)'
  BY <1>0, <1>7 DEF ReleaseLock, Release, Send, Released, Receive
<1>8. ASSUME NEW r \in Request, PayStep(r) PROVE Stage(s)'
  BY <1>0, <1>8 DEF PayStep, FindById, SavePaid, EnqueuePaid, lockVars
<1>9. ASSUME NEW t \in TicketType, ExpireKey(t) PROVE Stage(s)'
  BY <1>0, <1>9 DEF ExpireKey, Expire
<1>10. ASSUME NEW p \in Process, Crash(p) PROVE Stage(s)'
  BY <1>0, <1>10 DEF Crash, LockCrash, InFlight
<1>11. CASE UNCHANGED vars
  BY <1>0, <1>11 DEF vars, lockVars
<1> QED
  BY <1>1, <1>2, <1>3, <1>4, <1>5, <1>6, <1>7, <1>8, <1>9, <1>10, <1>11 DEF Next, CreateStep

(***************************************************************************)
(* A request through with the lock whose key is still there was killed or  *)
(* has reported an error of acquire or release.                            *)
(***************************************************************************)
Unreleased(r) == Intact(r) /\ phase[r] = "out" /\ redis[TicketOf[r]] = r

Abandoned(r) == pc[r] = "crashed" \/ Done(r, "internal")

LeftOver == \A r \in Request : Unreleased(r) => Abandoned(r)

LEMMA LeftOverStep ==
    OrdersInv /\ Entries /\ Stages /\ LeftOver /\ [Next]_vars => LeftOver'
<1> SUFFICES ASSUME OrdersInv, Entries, Stages, LeftOver, [Next]_vars,
                    NEW s \in Request, Unreleased(s)'
             PROVE  Abandoned(s)'
  BY DEF LeftOver
<1>0. Intact(s) /\ EntryFits(s) /\ Stage(s) /\ (Unreleased(s) => Abandoned(s))
  BY StepIsLockStep, LapsedGrows, IntactBefore DEF Unreleased, Entries, Stages, LeftOver
<1> USE TicketOfAssumption, HomeOfAssumption, NoRequestAssumption
    DEF OrdersInv, Typed, LockInv, LockTypeOK, Continue, Answer, Throw, Decide, Unreleased,
        Abandoned, Done
<1>1. ASSUME NEW r \in Request, CreateOrder(r) \/ PayOrder(r) PROVE Abandoned(s)'
  BY <1>0, <1>1 DEF CreateOrder, PayOrder, lockVars
<1>2. ASSUME NEW r \in Request, FindByIdempotencyKey(r) PROVE Abandoned(s)'
  BY <1>0, <1>2 DEF FindByIdempotencyKey, lockVars
<1>3. ASSUME NEW r \in Request, Acquire(r) PROVE Abandoned(s)'
  BY <1>0, <1>3 DEF Acquire, SetNX, Send, Acquired, NotAcquired, Receive, EntryFits
<1>4. ASSUME NEW r \in Request, EnsureUserExists(r) \/ CheckEvent(r) PROVE Abandoned(s)'
  BY <1>0, <1>4 DEF EnsureUserExists, CheckEvent, lockVars
<1>5. ASSUME NEW r \in Request, ReserveAtomically(r) PROVE Abandoned(s)'
  BY <1>0, <1>5 DEF ReserveAtomically, lockVars
<1>6. ASSUME NEW r \in Request, SaveOrder(r) \/ EnqueueCreated(r) PROVE Abandoned(s)'
  BY <1>0, <1>6 DEF SaveOrder, EnqueueCreated, lockVars
<1>7. ASSUME NEW r \in Request, ReleaseLock(r) PROVE Abandoned(s)'
  BY <1>0, <1>7 DEF ReleaseLock, Release, Send, Released, Receive, EntryFits
<1>8. ASSUME NEW r \in Request, PayStep(r) PROVE Abandoned(s)'
  BY <1>0, <1>8 DEF PayStep, FindById, SavePaid, EnqueuePaid, lockVars
<1>9. ASSUME NEW t \in TicketType, ExpireKey(t) PROVE Abandoned(s)'
  BY <1>0, <1>9 DEF ExpireKey, Expire
<1>10. ASSUME NEW p \in Process, Crash(p) PROVE Abandoned(s)'
  BY <1>0, <1>10 DEF Crash, LockCrash, InFlight, Stage
<1>11. CASE UNCHANGED vars
  BY <1>0, <1>11 DEF vars, lockVars
<1> QED
  BY <1>1, <1>2, <1>3, <1>4, <1>5, <1>6, <1>7, <1>8, <1>9, <1>10, <1>11 DEF Next, CreateStep

(***************************************************************************)
(* An answered request leaves its key in Redis only if it reports an       *)
(* internal error or some key of its entry of lockValues expired too       *)
(* early, whatever else happens: the ticket type is free for the next      *)
(* customer as soon as the request is over.                                *)
(***************************************************************************)
THEOREM LeftKeyExplainedHolds == Spec => []LeftKeyExplained
<1>1. Init => Stages /\ LeftOver
  BY DEF Init, LockInit, Stages, Stage, PayCall, LeftOver, Unreleased
<1>2. OrdersInv /\ Stages /\ LeftOver => LeftKeyExplained
  BY TicketOfAssumption, NoRequestAssumption
  DEF OrdersInv, LockInv, LockKeys, Stages, Stage, LeftOver, Unreleased, Abandoned, Done,
      Intact, LeftKeyExplained
<1> QED
  BY <1>1, <1>2, StagesStep, LeftOverStep, OrdersInvariance, UsesTheLock,
     EntriesInvariance, PTL DEF Spec
-----------------------------------------------------------------------------
(***************************************************************************)
(* What happens to stored orders.                                          *)
(***************************************************************************)

(***************************************************************************)
(* Orders are never removed, none loses its quantity or key, and PAID is   *)
(* final, although payments write back the whole row they read.            *)
(***************************************************************************)
OrderStays(o) ==
    /\ o \in DOMAIN orders'
    /\ orders'[o].quantity = orders[o].quantity
    /\ orders'[o].idempotencyKey = orders[o].idempotencyKey
    /\ orders[o].status = "PAID" => orders'[o].status = "PAID"

THEOREM OrdersStay == Spec => [][\A o \in DOMAIN orders : OrderStays(o)]_vars
<1>1. OrdersInv /\ [Next]_vars => \A o \in DOMAIN orders : OrderStays(o)
  BY StepKeeps DEF Kept, OrderStays
<1> QED
  BY <1>1, OrdersInvariance, PTL DEF Spec

(***************************************************************************)
(* What OutboxWorker assumes of orders-service (Insert): rows are added at *)
(* the end, one at a time and PENDING, nothing else happens to the table,  *)
(* and the creation of an order is announced once.                         *)
(***************************************************************************)
InsertsRow ==
    \E o \in Request, type \in OrderOutboxType :
        /\ type = "ORDER_CREATED" => ~Announced(o, type)
        /\ Enqueue(o, type)

THEOREM MeetsWorkerAssumption == Spec => [][InsertsRow]_outbox
<1>1. OrdersInv /\ [Next]_vars => [InsertsRow]_outbox
  <2> SUFFICES ASSUME OrdersInv, [Next]_vars PROVE InsertsRow \/ UNCHANGED outbox
    OBVIOUS
  <2>1. ASSUME NEW r \in Request, EnqueueCreated(r), Enqueue(r, "ORDER_CREATED")
        PROVE  InsertsRow
    BY <2>1 DEF EnqueueCreated, OrdersInv, CallsSoFar, InsertsRow, OrderOutboxType
  <2>2. ASSUME NEW r \in Request, EnqueuePaid(r), Enqueue(target[r], "ORDER_PAID")
        PROVE  InsertsRow
    <3>1. target[r] \in Request
      BY <2>2 DEF EnqueuePaid, OrdersInv, Payments, Typed
    <3> QED
      BY <2>2, <3>1 DEF InsertsRow, OrderOutboxType
  <2> QED
    BY <2>1, <2>2, OutboxStep
<1> QED
  BY <1>1, OrdersInvariance, PTL DEF Spec

LEMMA MissingEventStep ==
    OrdersInv /\ MissingEventExplained /\ [Next]_vars => MissingEventExplained'
<1> SUFFICES ASSUME OrdersInv, MissingEventExplained, [Next]_vars,
                    NEW s \in Request, Unannounced(s)'
             PROVE  LossOfEvent(s)'
  BY DEF MissingEventExplained
<1> USE DEF Continue, Answer, Throw, Decide, DbFault, OrdersInv, Typed
<1>1. s \in DOMAIN orders' /\ ~Announced(s, "ORDER_CREATED")
  BY StepKeeps DEF Kept, Unannounced, OrderOutboxType
<1>2. CASE SaveOrder(s) /\ InsertOrder(s) /\ s \notin DOMAIN orders
  <2>1. DOMAIN orders' # DOMAIN orders
    BY <1>1, <1>2
  <2> QED
    BY <1>2, <2>1 DEF SaveOrder, LossOfEvent
<1>3. CASE EnqueueCreated(s)
  <2>1. ~Enqueue(s, "ORDER_CREATED")
    BY EnqueueAnnounces DEF Unannounced, OrderOutboxType
  <2> QED
    BY <1>3, <2>1 DEF EnqueueCreated, LossOfEvent
<1>4. ASSUME s \in DOMAIN orders PROVE LossOfEvent(s)
  BY <1>1, <1>4 DEF MissingEventExplained, Unannounced
<1>5. CASE s \in DOMAIN orders /\ ReleaseLock(s)
  BY <1>4, <1>5 DEF ReleaseLock, LossOfEvent
<1>6. CASE s \in DOMAIN orders /\ reply'[s] = reply[s] /\ pc'[s] = pc[s]
  BY <1>4, <1>6 DEF LossOfEvent
<1>7. CASE "crash" \in Faults /\ pc'[s] = "crashed"
  BY <1>7 DEF LossOfEvent
<1> QED
  BY <1>1, <1>2, <1>3, <1>5, <1>6, <1>7, StoredRequestStep

(***************************************************************************)
(* The event of an order is lost in no other way.                          *)
(***************************************************************************)
THEOREM MissingEventExplainedHolds == Spec => []MissingEventExplained
<1>1. Init => MissingEventExplained
  BY DEF Init, MissingEventExplained, Unannounced
<1> QED
  BY <1>1, MissingEventStep, OrdersInvariance, PTL DEF Spec

(***************************************************************************)
(* README.md:34 holds as long as statements succeed and nobody is killed,  *)
(* with Redis errors, lapsed locks and races: an order whose request is    *)
(* over is announced.  The two faults excluded are the ones it needs (run  *)
(* OrdersCrash).                                                           *)
(***************************************************************************)
THEOREM CreatedEventNotLostWithoutFaults ==
    ASSUME Faults \cap {"crash", "db"} = {}
    PROVE  Spec => []CreatedEventNotLost
<1>1. OrdersInv /\ MissingEventExplained => CreatedEventNotLost
  BY DEF OrdersInv, Typed, MissingEventExplained, Unannounced, LossOfEvent, InFlight,
     CreatedEventNotLost
<1> QED
  BY <1>1, OrdersInvariance, MissingEventExplainedHolds, PTL
-----------------------------------------------------------------------------
(***************************************************************************)
(* Retries that do not overlap.                                            *)
(***************************************************************************)

(***************************************************************************)
(* "same key => same orderId, no duplicate outbox, no double stock         *)
(* decrement" for requests one after the other: once a request with a key  *)
(* has been answered with its order, a request that arrives with that key, *)
(* or has yet to look it up, never gets as far as the lock.                *)
(***************************************************************************)
Ordered(s) == pc[s] = "done" /\ reply[s].code \in {"created", "replayed"}

LateRetryStopped ==
    [][\A r, s \in Request :
          /\ pc[r] \in {"new", "findByIdempotencyKey"} /\ pc'[r] = "acquire"
          /\ Ordered(s) /\ input[s].idempotencyKey = input'[r].idempotencyKey
          => input[s].idempotencyKey \in {NoKey, BlankKey}]_vars

THEOREM LateRetryStoppedHolds == Spec => LateRetryStopped
<1>1. ASSUME OrdersInv, [Next]_vars, NEW r \in Request, NEW s \in Request,
             pc[r] \in {"new", "findByIdempotencyKey"}, pc'[r] = "acquire", Ordered(s),
             input[s].idempotencyKey = input'[r].idempotencyKey
      PROVE  input[s].idempotencyKey \in {NoKey, BlankKey}
  <2> USE DEF Continue, Answer, Throw, Decide, OrdersInv, Typed
  <2>1. \E o \in DOMAIN orders : orders[o].idempotencyKey = input[s].idempotencyKey
    BY <1>1 DEF Ordered, Answers, TrueAnswer, StoredOrders
  <2>2. CreateOrder(r) \/ FindByIdempotencyKey(r)
    <3>1. ASSUME NEW u \in Request, u # r,
                 CreateOrder(u) \/ PayOrder(u) \/ CreateStep(u) \/ PayStep(u)
          PROVE  pc'[r] = pc[r]
      BY <1>1, <3>1 DEF CreateOrder, PayOrder, CreateStep, PayStep, FindByIdempotencyKey,
         Acquire, EnsureUserExists, CheckEvent, ReserveAtomically, SaveOrder,
         EnqueueCreated, ReleaseLock, FindById, SavePaid, EnqueuePaid
    <3>2. ASSUME PayOrder(r) \/ CreateStep(r) \/ PayStep(r)
          PROVE  FindByIdempotencyKey(r)
      BY <1>1, <3>2 DEF PayOrder, CreateStep, PayStep, Acquire, EnsureUserExists,
         CheckEvent, ReserveAtomically, SaveOrder, EnqueueCreated, ReleaseLock, FindById,
         SavePaid, EnqueuePaid
    <3>3. ASSUME NEW t \in TicketType, ExpireKey(t) PROVE pc'[r] = pc[r]
      BY <3>3 DEF ExpireKey
    <3>4. ASSUME NEW p \in Process, Crash(p) PROVE pc'[r] \in {pc[r], "crashed"}
      BY <3>4 DEF Crash
    <3>5. ASSUME UNCHANGED vars PROVE pc'[r] = pc[r]
      BY <3>5 DEF vars
    <3> QED
      BY <1>1, <3>1, <3>2, <3>3, <3>4, <3>5 DEF Next
  <2>3. CASE CreateOrder(r)
    BY <1>1, <2>3 DEF CreateOrder
  <2>4. CASE FindByIdempotencyKey(r)
    BY <1>1, <2>1, <2>4 DEF FindByIdempotencyKey, OrdersWithKey
  <2> QED
    BY <2>2, <2>3, <2>4
<1>2. OrdersInv /\ [Next]_vars =>
          \A r, s \in Request :
              /\ pc[r] \in {"new", "findByIdempotencyKey"} /\ pc'[r] = "acquire"
              /\ Ordered(s) /\ input[s].idempotencyKey = input'[r].idempotencyKey
              => input[s].idempotencyKey \in {NoKey, BlankKey}
  BY <1>1
<1> QED
  BY <1>2, OrdersInvariance, PTL DEF Spec, LateRetryStopped

(***************************************************************************)
(* "prevent double payment" for payments one after the other: once a       *)
(* payment of an order has been accepted, no payment that has yet to read  *)
(* the order is let through.                                               *)
(***************************************************************************)
LatePaymentStopped ==
    [][\A r, s \in Request :
          Done(s, "paid") /\ target[s] = target[r] /\ pc[r] = "findById"
          => pc'[r] # "savePaid"]_vars

THEOREM LatePaymentStoppedHolds == Spec => LatePaymentStopped
<1>1. ASSUME OrdersInv, [Next]_vars, NEW r \in Request, NEW s \in Request,
             Done(s, "paid"), target[s] = target[r], pc[r] = "findById"
      PROVE  pc'[r] # "savePaid"
  <2> USE DEF Continue, Answer, Throw, Decide, OrdersInv, Typed
  <2>1. target[r] \in DOMAIN orders /\ orders[target[r]].status = "PAID"
    BY <1>1 DEF Done, Answers, TrueAnswer
  <2>2. ASSUME FindById(r) PROVE pc'[r] # "savePaid"
    BY <1>1, <2>1, <2>2 DEF FindById
  <2>3. ASSUME NEW u \in Request, u # r,
               CreateOrder(u) \/ PayOrder(u) \/ CreateStep(u) \/ PayStep(u)
        PROVE  pc'[r] = pc[r]
    BY <1>1, <2>3 DEF CreateOrder, PayOrder, CreateStep, PayStep, FindByIdempotencyKey,
       Acquire, EnsureUserExists, CheckEvent, ReserveAtomically, SaveOrder,
       EnqueueCreated, ReleaseLock, FindById, SavePaid, EnqueuePaid
  <2>4. ASSUME CreateOrder(r) \/ PayOrder(r) \/ CreateStep(r) \/ PayStep(r)
        PROVE  FindById(r)
    BY <1>1, <2>4 DEF CreateOrder, PayOrder, CreateStep, PayStep, FindByIdempotencyKey,
       Acquire, EnsureUserExists, CheckEvent, ReserveAtomically, SaveOrder,
       EnqueueCreated, ReleaseLock, SavePaid, EnqueuePaid
  <2>5. ASSUME NEW t \in TicketType, ExpireKey(t) PROVE pc'[r] = pc[r]
    BY <2>5 DEF ExpireKey
  <2>6. ASSUME NEW p \in Process, Crash(p) PROVE pc'[r] \in {pc[r], "crashed"}
    BY <2>6 DEF Crash
  <2>7. ASSUME UNCHANGED vars PROVE pc'[r] = pc[r]
    BY <2>7 DEF vars
  <2> QED
    BY <1>1, <2>2, <2>3, <2>4, <2>5, <2>6, <2>7 DEF Next
<1>2. OrdersInv /\ [Next]_vars =>
          \A r, s \in Request :
              Done(s, "paid") /\ target[s] = target[r] /\ pc[r] = "findById"
              => pc'[r] # "savePaid"
  BY <1>1
<1> QED
  BY <1>2, OrdersInvariance, PTL DEF Spec, LatePaymentStopped
=============================================================================
