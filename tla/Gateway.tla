-------------------------------- MODULE Gateway --------------------------------
(***************************************************************************)
(* graphql-gateway with the services it calls.  A GraphQL request asks     *)
(* accounts-service who the user is (without waiting for the answer),      *)
(* serves queries from a Redis cache that it fills on a miss, and sends    *)
(* mutations to orders-service, after which it deletes cache entries.      *)
(* Other clients sign up, log in and create events at the services         *)
(* themselves.                                                             *)
(*                                                                         *)
(* What orders-service does for POST /orders before it asks for the user   *)
(* is one step here, what it does afterwards another, and its payment of   *)
(* an order a third: OrdersService has their statements.  These requests   *)
(* carry no idempotency key, and stock is not shown by any query.          *)
(* "network" makes a response get lost: the service goes on, fetch throws. *)
(* "redis" makes a command fail, executed or not.                          *)
(***************************************************************************)
EXTENDS EventCatalog, Accounts, AccountsClient, Sequences

CONSTANTS
    OpsOf,       \* OpsOf[r]: what request r may be; see Op
    TokensOf,    \* TokensOf[r]: the tokens it may carry; see Token
    OrganizersOf,\* OrganizersOf[r]: whom it may name as organizer of POST /events: any UUID
    Staff,       \* registered users whose role is not CUSTOMER
    Placed,      \* orders stored before: a function from ids to their status
    NotCached

Query == {"me", "events", "event", "eventWithEnd", "ordersByCustomer"}
Mutation == {"createEvent", "createOrder", "payOrder"}
Rest == {"signup", "login", "postEvent", "postOrder"}
Malformed == "malformed"    \* a document that no resolver is called for
Op == Query \cup Mutation \cup Rest \cup {Malformed}

\* The body of POST /orders: its schema refuses a quantity below 1 and an id that is no UUID
\* (Int! and ID! of GraphQL do not); total_price_in_cents has no room for 2^31 and above.
OrderBody == {"valid", "invalid", "total too large"}

Unauthenticated == "no token"
Pending == "pending"
Token == User \cup {Nobody, Unauthenticated}

ASSUME GatewayAssumption ==
    /\ OpsOf \in [Request -> SUBSET Op] /\ TokensOf \in [Request -> SUBSET Token]
    /\ OrganizersOf \in [Request -> SUBSET Organizer]
    /\ User \subseteq Organizer /\ Staff \subseteq DOMAIN Registered
    /\ User \cap (Error \cup {Unauthenticated, Pending}) = {} /\ "all" \notin Organizer
    /\ Placed \in [DOMAIN Placed -> {"PENDING", "PAID"}] /\ DOMAIN Placed \cap Request = {}

VARIABLES
    ask,         \* the operation, the token, the argument and the body of a request
    gatewayAt,   \* the call its resolver awaits, or how it ended
    me,          \* currentUserPromise: pending, a user, or the error it is rejected with
    listing,     \* the events read on a cache miss
    toDelete,    \* cache keys the mutation has to delete
    code,        \* the code of the GraphQL answer
    cache,       \* Redis
    orders,      \* the orders stored, with their status
    orderStatus, \* the status orders-service answers POST /orders with
    outdated     \* history: queries whose listing was outdated when it was cached

gatewayVars == <<ask, gatewayAt, me, listing, toDelete, code>>
orderVars == <<orders, orderStatus>>
cacheVars == <<cache, outdated>>
vars == <<gatewayVars, cacheVars, orderVars, catalogVars, accountsVars, clientVars, disturbed>>

\* The resolvers that await currentUserPromise.
AwaitsUser == {"me", "createEvent", "createOrder"}

ListKey(u) == <<"events", u>>   \* `events:organizer:<u>`
AllKey == <<"events", "all">>
EventCacheKey(e) == <<"event", e>>
CacheKey == {AllKey} \cup {ListKey(u) : u \in Organizer} \cup {EventCacheKey(e) : e \in Request}

GatewayTypeOK ==
    /\ CatalogTypeOK /\ AccountsTypeOK /\ ClientTypeOK
    /\ disturbed \in SUBSET Request
    /\ gatewayAt \in [Request -> {"new", "rest", "await", "get", "fetch", "set", "createEvent",
                                  "createOrder", "payOrder", "delete", "answered", "lost"}]
    /\ me \in [Request -> User \cup {Unauthenticated, Pending} \cup Error]
    /\ listing \in [Request -> SUBSET Request]
    /\ toDelete \in [Request -> Seq(CacheKey)]
    /\ code \in [Request -> {"none", "OK", "UNAUTHENTICATED", "NOT_FOUND", "CONFLICT",
                             "INTERNAL_SERVER_ERROR", "GRAPHQL_VALIDATION_FAILED"}]
    /\ cache \in [CacheKey -> (SUBSET Request) \cup {NotCached}]
    /\ outdated \in SUBSET Request
    /\ DOMAIN orders \subseteq Request \cup DOMAIN Placed
    /\ orders \in [DOMAIN orders -> {"PENDING", "PAID"}]
    /\ orderStatus \in [Request -> {0, 201, 400, 403, 404, 409, 500}]

Init ==
    /\ CatalogInit /\ AccountsInit /\ ClientInit
    /\ disturbed = {}
    /\ ask = [r \in Request |-> [op |-> "none"]]
    /\ gatewayAt = [r \in Request |-> "new"]
    /\ me = [r \in Request |-> Unauthenticated]
    /\ listing = [r \in Request |-> {}]
    /\ toDelete = [r \in Request |-> <<>>]
    /\ code = [r \in Request |-> "none"]
    /\ cache = [k \in CacheKey |-> NotCached]
    /\ outdated = {}
    /\ orders = Placed
    /\ orderStatus = [r \in Request |-> 0]
-----------------------------------------------------------------------------
(***************************************************************************)
(* The context and the resolvers                                           *)
(***************************************************************************)
Await(r, call) ==
    /\ gatewayAt' = [gatewayAt EXCEPT ![r] = call]
    /\ UNCHANGED code

Answer(r, answer) ==
    /\ gatewayAt' = [gatewayAt EXCEPT ![r] = "answered"]
    /\ code' = [code EXCEPT ![r] = answer]

Throw(r, error) == Answer(r, GraphQlCode(error))

Fails(r, kind) == Fault(r, kind) /\ Throw(r, "Other")

FirstCall(op) ==
    CASE op \in AwaitsUser -> "await"
      [] op = "payOrder" -> "payOrder"
      [] op = "ordersByCustomer" -> "fetch"
      [] OTHER -> "get"

LoggedIn == DOMAIN Registered
    \cup {u \in Request : \E r \in Request : accountsReply[r].status = 200 /\ accountsReply[r].user = u}

GivenOut == DOMAIN Placed \cup {o \in DOMAIN orders \cap Request : code[o] = "OK"}

Arguments(op) ==
    CASE op = "events" -> LoggedIn \cup {"all"}
      [] op \in {"event", "eventWithEnd", "createOrder"} -> Request
      [] op = "payOrder" -> GivenOut \cup {"unknown"}
      [] OTHER -> {"none"}

Bodies(op) == IF op = "createOrder" THEN OrderBody ELSE {"none"}

\* Nobody is the user of a token that is not valid (any more).
Sendable == LoggedIn \cup {Removed, Nobody, Unauthenticated}

\* The context is made, and the user asked for, before the document is parsed.
Receive(r) ==
    /\ gatewayAt[r] = "new"
    /\ \E op \in OpsOf[r] \ Rest, token \in TokensOf[r] \cap Sendable :
          /\ \E arg \in Arguments(op), body \in Bodies(op) :
                ask' = [ask EXCEPT ![r] = [op |-> op, token |-> token, arg |-> arg, body |-> body]]
          /\ IF op = Malformed
             THEN Answer(r, "GRAPHQL_VALIDATION_FAILED") ELSE Await(r, FirstCall(op))
          /\ IF token = Unauthenticated
             THEN UNCHANGED <<me, accountsVars, disturbed>>
             ELSE me' = [me EXCEPT ![r] = Pending] /\ Me(r, token)
    /\ UNCHANGED <<listing, toDelete, cacheVars, orderVars, catalogVars, clientVars>>

\* A rejection nobody awaits ends the process, and with it every request in it.
ProcessDies ==
    /\ gatewayAt' = [r \in Request |->
            IF gatewayAt[r] \in {"new", "rest", "answered", "lost"} THEN gatewayAt[r] ELSE "lost"]
    /\ me' = [r \in Request |-> IF me[r] = Pending THEN "Other" ELSE me[r]]

SettleSwallowed(r, result) ==   \* mutant: a rejection does not settle the promise
    /\ me' = IF result \in Error THEN me ELSE [me EXCEPT ![r] = result]
    /\ UNCHANGED gatewayAt

Settle(r, result) ==
    IF result \in Error /\ ask[r].op \notin AwaitsUser
    THEN ProcessDies
    ELSE me' = [me EXCEPT ![r] = result] /\ UNCHANGED gatewayAt

UserOfAny(reply) ==     \* mutant: response.ok is not tested
    reply.user

UserOf(reply) == IF reply.status = 200 THEN reply.user ELSE AccountsApiError(reply.status)

MeReturns(r) ==
    /\ me[r] = Pending
    /\ \/ accountsAt[r] = "done" /\ Settle(r, UserOf(accountsReply[r])) /\ UNCHANGED disturbed
       \/ Fault(r, "network") /\ Settle(r, "Other")
    /\ UNCHANGED <<ask, listing, toDelete, code, cacheVars, orderVars, catalogVars, accountsVars, clientVars>>

Respond(r, status) == orderStatus' = [orderStatus EXCEPT ![r] = status]

\* POST /orders arrives: the body is parsed, the lock of the ticket type taken, or held by another.
PostOrder(r, body) ==
    \/ body = "invalid" /\ Respond(r, OrdersStatus("Zod")) /\ UNCHANGED <<clientVars, disturbed>>
    \/ body # "invalid" /\ Respond(r, OrdersStatus("Conflict")) /\ UNCHANGED <<clientVars, disturbed>>
    \/ /\ body # "invalid"
       /\ Fault(r, "redis") /\ Respond(r, OrdersStatus("Other"))
       /\ UNCHANGED clientVars
    \/ body # "invalid" /\ GetUserById(r) /\ UNCHANGED orderStatus

AwaitUser(r) ==
    /\ gatewayAt[r] = "await" /\ me[r] # Pending
    /\ LET op == ask[r].op
       IN  \/ /\ me[r] \in Error
              /\ Throw(r, me[r])
              /\ UNCHANGED <<orderStatus, catalogVars, clientVars, disturbed>>
           \/ /\ me[r] \notin Error /\ op = "me"
              /\ Answer(r, "OK")
              /\ UNCHANGED <<orderStatus, catalogVars, clientVars, disturbed>>
           \/ /\ me[r] = Unauthenticated /\ op # "me"
              /\ Throw(r, "Unauthorized")
              /\ UNCHANGED <<orderStatus, catalogVars, clientVars, disturbed>>
           \/ /\ me[r] \in User /\ op = "createEvent"
              /\ \E body \in CreateEventRequest :
                    /\ body.organizer = me[r]
                    /\ body.key = NoKey     \* the key is sent in the body, where nobody looks
                    /\ CreateEvent(r, body)
              /\ Await(r, "createEvent")
              /\ UNCHANGED <<orderStatus, clientVars>>
           \/ /\ me[r] \in User /\ op = "createOrder"
              /\ PostOrder(r, ask[r].body)
              /\ Await(r, "createOrder")
              /\ UNCHANGED catalogVars
    /\ UNCHANGED <<ask, me, listing, toDelete, cacheVars, orders, accountsVars>>
-----------------------------------------------------------------------------
(***************************************************************************)
(* Queries: the cache first, then the service, then the cache again        *)
(***************************************************************************)
CacheKeyOf(r) ==
    CASE ask[r].op \in {"event", "eventWithEnd"} -> EventCacheKey(ask[r].arg)
      [] ask[r].arg = "all" -> AllKey
      [] OTHER -> ListKey(ask[r].arg)

\* GET /events/:id gives `endAt`; Event.endsAt of the schema is not nullable.
Show(r) ==
    IF ask[r].op = "eventWithEnd" THEN Throw(r, "Other") ELSE Answer(r, "OK")

GetCached(r) ==
    /\ gatewayAt[r] = "get"
    /\ \/ /\ UNCHANGED disturbed
          /\ IF cache[CacheKeyOf(r)] = NotCached THEN Await(r, "fetch") ELSE Show(r)
       \/ Fails(r, "redis")
    /\ UNCHANGED <<ask, me, listing, toDelete, cacheVars, orderVars, catalogVars, accountsVars, clientVars>>

Stored(key) ==
    IF key = AllKey THEN FindAll
    ELSE IF key[1] = "event" THEN FindById(key[2]) ELSE FindByOrganizerId(key[2])

\* There is no route GET /orders: 404.  An event that does not exist is not cached.
Fetch(r) ==
    /\ gatewayAt[r] = "fetch"
    /\ \/ /\ ask[r].op = "ordersByCustomer"
          /\ Throw(r, OrdersApiError("listOrdersByCustomer", 404))
          /\ UNCHANGED <<listing, disturbed>>
       \/ /\ ask[r].op # "ordersByCustomer"
          /\ listing' = [listing EXCEPT ![r] = Stored(CacheKeyOf(r))]
          /\ IF ask[r].op # "events" /\ listing'[r] = {} THEN Answer(r, "OK") ELSE Await(r, "set")
          /\ UNCHANGED disturbed
       \/ /\ Fails(r, "network") \/ Fails(r, "db")
          /\ UNCHANGED listing
    /\ UNCHANGED <<ask, me, toDelete, cacheVars, orderVars, catalogVars, accountsVars, clientVars>>

PutEntry(r) ==
    /\ cache' = [cache EXCEPT ![CacheKeyOf(r)] = listing[r]]
    /\ outdated' = IF listing[r] = Stored(CacheKeyOf(r)) THEN outdated ELSE outdated \cup {r}

SetCached(r) ==
    /\ gatewayAt[r] = "set"
    /\ \/ PutEntry(r) /\ Show(r) /\ UNCHANGED disturbed
       \/ (PutEntry(r) \/ UNCHANGED cacheVars) /\ Fails(r, "redis")
    /\ UNCHANGED <<ask, me, listing, toDelete, orderVars, catalogVars, accountsVars, clientVars>>

\* Every entry is set with a time to live of 60 seconds.
ExpireEntry(k) ==
    /\ cache[k] # NotCached
    /\ cache' = [cache EXCEPT ![k] = NotCached]
    /\ UNCHANGED <<gatewayVars, outdated, orderVars, catalogVars, accountsVars, clientVars, disturbed>>
-----------------------------------------------------------------------------
(***************************************************************************)
(* Mutations                                                               *)
(***************************************************************************)
InvalidateLast(r, keys) ==  \* mutant: the list of all events is not deleted
    /\ toDelete' = [toDelete EXCEPT ![r] = <<keys[Len(keys)]>>]
    /\ Await(r, "delete")

Invalidate(r, keys) ==
    /\ toDelete' = [toDelete EXCEPT ![r] = keys]
    /\ Await(r, "delete")

CreateEventReturns(r) ==
    /\ gatewayAt[r] = "createEvent"
    /\ LET status == catalogReply[r].status
       IN  \/ /\ status = 201
              /\ Invalidate(r, <<AllKey, ListKey(me[r])>>)
              /\ UNCHANGED disturbed
           \/ /\ status \notin {0, 201}
              /\ Throw(r, OrdersApiError("createEvent", status))
              /\ UNCHANGED <<toDelete, disturbed>>
           \/ Fails(r, "network") /\ UNCHANGED toDelete
    /\ UNCHANGED <<ask, me, listing, cacheVars, orderVars, catalogVars, accountsVars, clientVars>>

Customer(r) == IF gatewayAt[r] = "rest" THEN ask[r].token ELSE me[r]

(***************************************************************************)
(* The rest of POST /orders, up to the release of the lock.  409 stands    *)
(* for tickets that are sold out and a ticket type of another event.       *)
(***************************************************************************)
StoreOrder(r) ==
    orders' = [o \in DOMAIN orders \cup {r} |-> IF o = r THEN "PENDING" ELSE orders[o]]

PlaceOrder(r) ==
    /\ clientAt[r] \in {"found", "failed"} /\ orderStatus[r] = 0
    /\ LET allowed == clientAt[r] = "found" /\ Customer(r) \notin Staff
           found == allowed /\ ask[r].arg \in DOMAIN events
           storable == ask[r].body # "total too large"
       IN  \/ clientAt[r] = "failed" /\ Respond(r, OrdersStatus("Other")) /\ UNCHANGED <<orders, disturbed>>
           \/ /\ clientAt[r] = "found" /\ ~allowed
              /\ Respond(r, OrdersStatus("Forbidden"))
              /\ UNCHANGED <<orders, disturbed>>
           \/ allowed /\ ~found /\ Respond(r, OrdersStatus("NotFound")) /\ UNCHANGED <<orders, disturbed>>
           \/ found /\ Respond(r, OrdersStatus("Conflict")) /\ UNCHANGED <<orders, disturbed>>
           \/ found /\ storable /\ Respond(r, 201) /\ StoreOrder(r) /\ UNCHANGED disturbed
           \/ /\ found /\ ~storable
              /\ Respond(r, OrdersStatus("Other"))
              /\ UNCHANGED <<orders, disturbed>>
           \/ /\ Fault(r, "db") \/ Fault(r, "redis")
              /\ Respond(r, OrdersStatus("Other"))
              /\ UNCHANGED orders \/ (found /\ storable /\ StoreOrder(r))
    /\ UNCHANGED <<gatewayVars, cacheVars, catalogVars, accountsVars, clientVars>>

AnyResponse(r) ==       \* mutant: response.ok is not tested
    /\ gatewayAt[r] = "createOrder" /\ orderStatus[r] # 0
    /\ Invalidate(r, <<EventCacheKey(ask[r].arg), AllKey, ListKey(me[r])>>)
    /\ UNCHANGED <<ask, me, listing, cacheVars, orderVars, catalogVars, accountsVars, clientVars, disturbed>>

CreateOrderReturns(r) ==
    /\ gatewayAt[r] = "createOrder"
    /\ \/ /\ orderStatus[r] = 201
          /\ Invalidate(r, <<EventCacheKey(ask[r].arg), AllKey, ListKey(me[r])>>)
          /\ UNCHANGED disturbed
       \/ /\ orderStatus[r] \notin {0, 201}
          /\ Throw(r, OrdersApiError("createOrder", orderStatus[r]))
          /\ UNCHANGED <<toDelete, disturbed>>
       \/ Fails(r, "network") /\ UNCHANGED toDelete
    /\ UNCHANGED <<ask, me, listing, cacheVars, orderVars, catalogVars, accountsVars, clientVars>>

MarkPaid(o) == orders' = [orders EXCEPT ![o] = "PAID"]

\* An order that is not PENDING is a conflict, which payOrder does not know.
PayOrder(r) ==
    /\ gatewayAt[r] = "payOrder"
    /\ LET o == ask[r].arg
           known == o \in DOMAIN orders
       IN  \/ ~known /\ Throw(r, OrdersApiError("payOrder", 404)) /\ UNCHANGED <<orders, disturbed>>
           \/ /\ known /\ orders[o] = "PAID"
              /\ Throw(r, OrdersApiError("payOrder", 409))
              /\ UNCHANGED <<orders, disturbed>>
           \/ known /\ orders[o] = "PENDING" /\ MarkPaid(o) /\ Answer(r, "OK") /\ UNCHANGED disturbed
           \/ /\ Fails(r, "network") \/ Fails(r, "db")
              /\ UNCHANGED orders \/ (known /\ MarkPaid(o))
    /\ UNCHANGED <<ask, me, listing, toDelete, cacheVars, orderStatus, catalogVars, accountsVars, clientVars>>

DropEntry(r) == cache' = [cache EXCEPT ![Head(toDelete[r])] = NotCached]

DeleteCached(r) ==
    /\ gatewayAt[r] = "delete"
    /\ \/ /\ DropEntry(r)
          /\ toDelete' = [toDelete EXCEPT ![r] = Tail(@)]
          /\ IF Len(toDelete[r]) = 1 THEN Answer(r, "OK") ELSE UNCHANGED <<gatewayAt, code>>
          /\ UNCHANGED disturbed
       \/ /\ DropEntry(r) \/ UNCHANGED cache
          /\ Fails(r, "redis")
          /\ UNCHANGED toDelete
    /\ UNCHANGED <<ask, me, listing, outdated, orderVars, catalogVars, accountsVars, clientVars>>
-----------------------------------------------------------------------------
(***************************************************************************)
(* Requests sent to the services directly                                  *)
(***************************************************************************)
RestRequest(r) ==
    /\ gatewayAt[r] = "new"
    /\ gatewayAt' = [gatewayAt EXCEPT ![r] = "rest"]
    /\ \/ /\ \/ "signup" \in OpsOf[r] /\ Signup(r)
             \/ "login" \in OpsOf[r] /\ Login(r)
          /\ UNCHANGED <<ask, orderStatus, catalogVars, clientVars>>
       \/ /\ "postEvent" \in OpsOf[r]
          /\ \E body \in CreateEventRequest :
                body.organizer \in OrganizersOf[r] /\ CreateEvent(r, body)
          /\ UNCHANGED <<ask, orderStatus, accountsVars, clientVars>>
       \/ /\ "postOrder" \in OpsOf[r]
          /\ \E customer \in LoggedIn \cup {Removed}, e \in Request, body \in OrderBody :
                /\ ask' = [ask EXCEPT ![r] = [op |-> "postOrder", token |-> customer, arg |-> e,
                                             body |-> body]]
                /\ PostOrder(r, body)
          /\ UNCHANGED <<catalogVars, accountsVars>>
    /\ UNCHANGED <<me, listing, toDelete, code, cacheVars, orders>>

AtAccounts(r) == AccountsStep(r) /\ UNCHANGED <<gatewayVars, cacheVars, orderVars, catalogVars, clientVars>>

\* getUserById, as accounts-service answers it over gRPC
CustomerExists(r) == IsStored(Customer(r))

AtOrders(r) ==
    \/ CatalogStep(r) /\ UNCHANGED <<gatewayVars, cacheVars, orderVars, accountsVars, clientVars>>
    \/ /\ CallOnce(r, CustomerExists(r)) \/ Pause(r)
       /\ UNCHANGED <<gatewayVars, cacheVars, orderVars, catalogVars, accountsVars>>
    \/ PlaceOrder(r)

AtGateway(r) ==
    \/ MeReturns(r) \/ AwaitUser(r) \/ GetCached(r) \/ Fetch(r) \/ SetCached(r)
    \/ CreateEventReturns(r) \/ CreateOrderReturns(r) \/ PayOrder(r) \/ DeleteCached(r)

Step(r) == AtAccounts(r) \/ AtOrders(r) \/ AtGateway(r)

Next ==
    \/ \E r \in Request : Receive(r) \/ RestRequest(r) \/ Step(r)
    \/ \E k \in CacheKey : ExpireEntry(k)

Spec == Init /\ [][Next]_vars

\* Services answer, and awaited calls return or throw.
FairSpec == Spec /\ \A r \in Request : WF_vars(Step(r))
-----------------------------------------------------------------------------
(***************************************************************************)
(* Properties                                                              *)
(***************************************************************************)
StillToDelete(r, k) == \E n \in DOMAIN toDelete[r] : toDelete[r][n] = k

(***************************************************************************)
(* A cached list shows all there is, but for events whose creation has not *)
(* deleted it: one sent to orders-service directly, one that is under way, *)
(* one that failed or was refused after the event had been stored.  The    *)
(* other way for a list to be stale is a query that read it before a       *)
(* creation and cached it after the creation had deleted it.               *)
(***************************************************************************)
StaleExplained ==
    \A k \in CacheKey : cache[k] # NotCached =>
        /\ cache[k] \subseteq Stored(k)
        /\ \A e \in Stored(k) \ cache[k] :
              \/ gatewayAt[e] \in {"rest", "createEvent", "lost"}
              \/ StillToDelete(e, k)
              \/ e \in disturbed \/ catalogReply[e].status = 400
              \/ \E r \in outdated : CacheKeyOf(r) = k /\ listing[r] = cache[k]

(***************************************************************************)
(* What the errors of the services become on their way through three       *)
(* mappings still tells the client what happened.  OK: the change it asked *)
(* for is in the tables.  A refusal: nothing was stored.  An internal      *)
(* error: something failed, or it is one of the refusals the mappings do   *)
(* not know (invalid or unstorable input of createEvent and createOrder,   *)
(* an order by staff, an order that is paid already), or a query that      *)
(* cannot succeed.                                                         *)
(***************************************************************************)
AnswerTrue ==
    \A r \in Request :
        LET op == ask[r].op
        IN  CASE code[r] = "none" -> TRUE
              [] code[r] = "OK" ->
                    /\ op = "createEvent" => ticketTypes[r] = TicketTypes
                    /\ op = "createOrder" => r \in DOMAIN orders
                    /\ op = "payOrder" => orders[ask[r].arg] = "PAID"
              [] code[r] = "INTERNAL_SERVER_ERROR" ->
                    \/ r \in disturbed
                    \/ /\ op = "createEvent"
                       /\ catalogReply[r].status = 400 \/ catalogBody[r].unstorable = 0
                    \/ op = "createOrder" /\ (me[r] \in Staff \/ ask[r].body # "valid")
                    \/ op = "payOrder" /\ orders[ask[r].arg] = "PAID"
                    \/ op \in {"ordersByCustomer", "eventWithEnd"}
              [] OTHER -> r \notin DOMAIN events \cup DOMAIN orders

IsOver(r) ==
    /\ gatewayAt[r] \in {"rest", "answered", "lost"}
    /\ accountsAt[r] \in {"idle", "done"} /\ catalogAt[r] \in {"idle", "done"}
    /\ clientAt[r] = "idle" \/ orderStatus[r] # 0

(***************************************************************************)
(* Every request is over some day, in the gateway and in the services it   *)
(* reaches: retries end, and a promise that is awaited settles.            *)
(***************************************************************************)
EveryRequestOver ==
    \A r \in Request : gatewayAt[r] # "new" ~> IsOver(r)
=============================================================================
