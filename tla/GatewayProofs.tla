----------------------------- MODULE GatewayProofs -----------------------------
(***************************************************************************)
(* Theorems about the gateway and the services it calls.  A step of the    *)
(* system is, for each service, a step of that service or one that leaves  *)
(* it alone, so the invariants of ServicesProofs hold in the composition.  *)
(***************************************************************************)
EXTENDS Gateway, ServicesProofs, SequenceTheorems

(***************************************************************************)
(* From a step of the system to steps of the services                      *)
(***************************************************************************)
ServicesStep ==
    /\ DisturbedGrows
    /\ AccountsRest \/ \E r \in Request : AccountsMove(r)
    /\ CatalogRest \/ \E r \in Request : CatalogMove(r)
    /\ UNCHANGED clientVars \/ \E r \in Request : ClientMove(r)

LEMMA TokensAreUsers == Sendable \ {Unauthenticated} \subseteq User \cup {Nobody}
BY DEF Sendable, LoggedIn, User

\* Steps of the gateway that no service takes part in.
LEMMA GatewayAlone ==
    ASSUME NEW r \in Request,
           \/ MeReturns(r) \/ GetCached(r) \/ Fetch(r) \/ SetCached(r)
           \/ CreateEventReturns(r) \/ CreateOrderReturns(r) \/ PayOrder(r) \/ DeleteCached(r)
           \/ PlaceOrder(r)
    PROVE  UNCHANGED <<accountsVars, catalogVars, clientVars>> /\ DisturbedGrows
<1>1. CASE MeReturns(r)
  BY <1>1 DEF MeReturns, Fault, DisturbedGrows
<1>2. CASE GetCached(r)
  BY <1>2 DEF GetCached, Fails, Fault, DisturbedGrows
<1>3. CASE Fetch(r)
  BY <1>3 DEF Fetch, Fails, Fault, DisturbedGrows
<1>4. CASE SetCached(r)
  BY <1>4 DEF SetCached, Fails, Fault, DisturbedGrows
<1>5. CASE CreateEventReturns(r)
  BY <1>5 DEF CreateEventReturns, Fails, Fault, DisturbedGrows
<1>6. CASE CreateOrderReturns(r)
  BY <1>6 DEF CreateOrderReturns, Fails, Fault, DisturbedGrows
<1>7. CASE PayOrder(r)
  BY <1>7 DEF PayOrder, Fails, Fault, DisturbedGrows
<1>8. CASE DeleteCached(r)
  BY <1>8 DEF DeleteCached, Fails, Fault, DisturbedGrows
<1>9. CASE PlaceOrder(r)
  BY <1>9 DEF PlaceOrder, Fault, DisturbedGrows
<1> QED
  BY <1>1, <1>2, <1>3, <1>4, <1>5, <1>6, <1>7, <1>8, <1>9

LEMMA PostOrderServices ==
    ASSUME NEW r \in Request, NEW body, PostOrder(r, body)
    PROVE  /\ UNCHANGED clientVars \/ GetUserById(r)
           /\ disturbed' = disturbed \/ disturbed' = disturbed \cup {r}
BY DEF PostOrder, Fault, GetUserById

LEMMA AwaitUserServices ==
    ASSUME NEW r \in Request, AwaitUser(r)
    PROVE  ServicesStep
<1>1. UNCHANGED accountsVars
  BY DEF AwaitUser
<1>2. \/ UNCHANGED <<catalogVars, clientVars, disturbed>>
      \/ /\ \E body \in CreateEventRequest : CreateEvent(r, body)
         /\ UNCHANGED clientVars
      \/ PostOrder(r, ask[r].body) /\ UNCHANGED catalogVars
  BY DEF AwaitUser
<1>3. DisturbedGrows
  BY <1>2, PostOrderServices DEF DisturbedGrows, CreateEvent
<1> QED
  BY <1>1, <1>2, <1>3, PostOrderServices
  DEF ServicesStep, AccountsRest, CatalogRest, CatalogMove, ClientMove

LEMMA ReceiveServices ==
    ASSUME NEW r \in Request, Receive(r)
    PROVE  ServicesStep
<1>1. UNCHANGED <<catalogVars, clientVars>>
  BY DEF Receive
<1>2. \/ UNCHANGED <<accountsVars, disturbed>>
      \/ \E token \in User \cup {Nobody} : Me(r, token)
  BY TokensAreUsers DEF Receive
<1>3. DisturbedGrows
  BY <1>2 DEF DisturbedGrows, Me, Ask
<1> QED
  BY <1>1, <1>2, <1>3 DEF ServicesStep, AccountsRest, CatalogRest, AccountsMove

LEMMA RestRequestServices ==
    ASSUME NEW r \in Request, RestRequest(r)
    PROVE  ServicesStep
<1>1. \/ Signup(r) /\ UNCHANGED <<catalogVars, clientVars>>
      \/ Login(r) /\ UNCHANGED <<catalogVars, clientVars>>
      \/ /\ \E body \in CreateEventRequest : CreateEvent(r, body)
         /\ UNCHANGED <<accountsVars, clientVars>>
      \/ (\E body \in OrderBody : PostOrder(r, body)) /\ UNCHANGED <<accountsVars, catalogVars>>
  BY DEF RestRequest
<1>2. DisturbedGrows
  BY <1>1, PostOrderServices DEF DisturbedGrows, Signup, Login, Ask, CreateEvent
<1> QED
  BY <1>1, <1>2, PostOrderServices
  DEF ServicesStep, AccountsRest, CatalogRest, AccountsMove, CatalogMove, ClientMove

LEMMA AtAccountsServices ==
    ASSUME NEW r \in Request, AtAccounts(r)
    PROVE  ServicesStep
<1>1. AccountsStep(r) /\ UNCHANGED <<catalogVars, clientVars>>
  BY DEF AtAccounts
<1>2. DisturbedGrows
  BY <1>1 DEF AccountsStep, SignupFindByEmail, SaveUser, LoginFindByEmail, GetMe, AccountsFails,
              Fault, DisturbedGrows
<1> QED
  BY <1>1, <1>2 DEF ServicesStep, CatalogRest, AccountsMove

LEMMA AtOrdersServices ==
    ASSUME NEW r \in Request, AtOrders(r)
    PROVE  ServicesStep
<1>1. CASE CatalogStep(r) /\ UNCHANGED <<accountsVars, clientVars>>
  <2>1. DisturbedGrows
    BY <1>1 DEF CatalogStep, FindEventByKey, SaveEvent, SaveTicketType, CatalogFails, Fault,
                DisturbedGrows
  <2> QED
    BY <1>1, <2>1 DEF ServicesStep, AccountsRest, CatalogMove
<1>2. CASE CallOnce(r, CustomerExists(r)) /\ UNCHANGED <<accountsVars, catalogVars>>
  <2>1. DisturbedGrows
    BY <1>2 DEF CallOnce, Fault, DisturbedGrows
  <2>2. CallOnce(r, TRUE) \/ CallOnce(r, FALSE)
    BY <1>2 DEF CallOnce
  <2> QED
    BY <1>2, <2>1, <2>2 DEF ServicesStep, AccountsRest, CatalogRest, ClientMove
<1>3. CASE Pause(r) /\ UNCHANGED <<accountsVars, catalogVars>>
  BY <1>3 DEF Pause, DisturbedGrows, ServicesStep, AccountsRest, CatalogRest, ClientMove
<1>4. CASE PlaceOrder(r)
  BY <1>4, GatewayAlone DEF ServicesStep, AccountsRest, CatalogRest
<1> QED
  BY <1>1, <1>2, <1>3, <1>4 DEF AtOrders

LEMMA EveryStepServices ==
    ASSUME [Next]_vars
    PROVE  ServicesStep
<1>1. ASSUME NEW r \in Request, AtGateway(r) PROVE ServicesStep
  BY <1>1, GatewayAlone, AwaitUserServices DEF AtGateway, ServicesStep, AccountsRest, CatalogRest
<1>2. ASSUME NEW k \in CacheKey, ExpireEntry(k) PROVE ServicesStep
  BY <1>2 DEF ExpireEntry, DisturbedGrows, ServicesStep, AccountsRest, CatalogRest
<1>3. CASE UNCHANGED vars
  BY <1>3 DEF vars, DisturbedGrows, ServicesStep, AccountsRest, CatalogRest
<1> QED
  BY <1>1, <1>2, <1>3, ReceiveServices, RestRequestServices, AtAccountsServices, AtOrdersServices
  DEF Next, Step
-----------------------------------------------------------------------------
(***************************************************************************)
(* Types, and what the state of a request says of it                       *)
(***************************************************************************)
MeError == {"Unauthorized", "NotFound", "Unexpected", "Other"}

OwnTypeOK ==
    /\ DOMAIN ask = Request
    /\ gatewayAt \in [Request -> {"new", "rest", "await", "get", "fetch", "set", "createEvent",
                                  "createOrder", "payOrder", "delete", "answered", "lost"}]
    /\ me \in [Request -> User \cup {Unauthenticated, Pending} \cup MeError]
    /\ listing \in [Request -> SUBSET Request]
    /\ toDelete \in [Request -> Seq(CacheKey)]
    /\ code \in [Request -> {"none", "OK", "UNAUTHENTICATED", "NOT_FOUND", "CONFLICT",
                             "INTERNAL_SERVER_ERROR", "GRAPHQL_VALIDATION_FAILED"}]
    /\ cache \in [CacheKey -> (SUBSET Request) \cup {NotCached}]
    /\ outdated \in SUBSET Request
    /\ disturbed \in SUBSET Request
    /\ DOMAIN orders \subseteq Request \cup DOMAIN Placed
    /\ orders \in [DOMAIN orders -> {"PENDING", "PAID"}]
    /\ orderStatus \in [Request -> {0, 201, 400, 403, 404, 409, 500}]

Cached == {"events", "event", "eventWithEnd"}

IdleServices(r) == catalogAt[r] = "idle" /\ clientAt[r] = "idle" /\ orderStatus[r] = 0

\* The call a resolver awaits fits the operation and the user.
CallFits(r) ==
    LET op == ask[r].op
    IN  /\ gatewayAt[r] = "new" => me[r] = Unauthenticated
        /\ gatewayAt[r] \in {"new", "await", "get", "fetch", "set", "payOrder"} => IdleServices(r)
        /\ gatewayAt[r] = "await" => op \in AwaitsUser
        /\ gatewayAt[r] \in {"get", "set"} => op \in Cached
        /\ gatewayAt[r] = "fetch" => op \in Cached \cup {"ordersByCustomer"}
        /\ gatewayAt[r] = "payOrder" => op = "payOrder"
        /\ gatewayAt[r] = "createEvent" =>
              /\ op = "createEvent" /\ me[r] \in User
              /\ catalogAt[r] # "idle" /\ catalogBody[r].key = NoKey /\ clientAt[r] = "idle"
        /\ gatewayAt[r] = "createOrder" =>
              op = "createOrder" /\ me[r] \in User /\ catalogAt[r] = "idle"
        /\ gatewayAt[r] = "delete" =>
              /\ toDelete[r] # <<>>
              /\ \/ op = "createEvent" /\ ticketTypes[r] = TicketTypes
                 \/ op = "createOrder" /\ r \in DOMAIN orders
        /\ op = "createOrder" => ask[r].arg \in Request

\* The promise of the user.
UserFits(r) ==
    /\ me[r] = Pending =>
          gatewayAt[r] \notin {"new", "rest"} /\ ask[r].op \in Op /\ HasToken(r)
    /\ me[r] \in User => me[r] \in DOMAIN users
    /\ gatewayAt[r] = "await" /\ me[r] \in {"Unexpected", "Other"} => r \in disturbed

\* What orders-service made of POST /orders.
OrderFits(r) ==
    /\ orderStatus[r] # 0 => clientAt[r] \in {"idle", "found", "failed"}
    /\ r \in DOMAIN orders => orderStatus[r] # 0
    /\ gatewayAt[r] # "rest" =>
          /\ clientAt[r] # "idle" \/ orderStatus[r] # 0 => me[r] \in User
          /\ clientAt[r] = "failed" => r \in disturbed
          /\ orderStatus[r] = 201 => r \in DOMAIN orders
          /\ orderStatus[r] = 400 => ask[r].body # "valid"
          /\ orderStatus[r] = 403 => me[r] \in Staff
          /\ orderStatus[r] \in {404, 409} => r \notin DOMAIN orders
          /\ orderStatus[r] = 500 => r \in disturbed \/ ask[r].body # "valid"

(***************************************************************************)
(* The answer, and why no later step of a service makes it untrue.         *)
(***************************************************************************)
PaidFor(r) == ask[r].arg \in DOMAIN orders /\ orders[ask[r].arg] = "PAID"

AnswerFits(r) ==
    LET op == ask[r].op
    IN  /\ gatewayAt[r] # "answered" => code[r] = "none"
        /\ code[r] = "OK" =>
              /\ op = "createEvent" => ticketTypes[r] = TicketTypes
              /\ op = "createOrder" => r \in DOMAIN orders
              /\ op = "payOrder" => PaidFor(r)
        /\ code[r] = "INTERNAL_SERVER_ERROR" =>
              \/ r \in disturbed
              \/ /\ op = "createEvent" /\ catalogAt[r] # "idle"
                 /\ catalogReply[r].status = 400 \/ catalogBody[r].unstorable = 0
              \/ op = "createOrder" /\ (me[r] \in Staff \/ ask[r].body # "valid")
              \/ op = "payOrder" /\ PaidFor(r)
              \/ op \in {"ordersByCustomer", "eventWithEnd"}
        /\ code[r] \in {"UNAUTHENTICATED", "NOT_FOUND", "CONFLICT", "GRAPHQL_VALIDATION_FAILED"} =>
              /\ catalogAt[r] = "idle" /\ r \notin DOMAIN orders
              /\ clientAt[r] = "idle" \/ orderStatus[r] # 0

GatewayRequest(r) == CallFits(r) /\ UserFits(r) /\ OrderFits(r) /\ AnswerFits(r)

GatewayInv ==
    /\ AccountsInv /\ CatalogInv /\ ClientInv
    /\ \A r \in Request : KeylessRequest(r)
    /\ OwnTypeOK
    /\ \A r \in Request : GatewayRequest(r)

\* The variables of a request that another request's step leaves alone.
SameRequest(s) ==
    /\ ask'[s] = ask[s] /\ gatewayAt'[s] = gatewayAt[s] /\ me'[s] = me[s]
    /\ toDelete'[s] = toDelete[s] /\ code'[s] = code[s]
    /\ catalogAt'[s] = catalogAt[s] /\ catalogBody'[s] = catalogBody[s]
    /\ catalogReply'[s] = catalogReply[s] /\ ticketTypes'[s] = ticketTypes[s]
    /\ clientAt'[s] = clientAt[s] /\ orderStatus'[s] = orderStatus[s]
    /\ accountsBody'[s] = accountsBody[s]

\* Orders are never removed, and stay paid.
OrdersGrow ==
    \A o \in DOMAIN orders :
        o \in DOMAIN orders' /\ (orders[o] = "PAID" => orders'[o] = "PAID")

TablesGrow == DisturbedGrows /\ OrdersGrow /\ DOMAIN users \subseteq DOMAIN users'

\* What is true of a request stays true when others move.
LEMMA GatewayOthers ==
    ASSUME NEW s \in Request, GatewayRequest(s), SameRequest(s), TablesGrow,
           s \in DOMAIN orders' => s \in DOMAIN orders
    PROVE  GatewayRequest(s)'
<1>1. CallFits(s)'
  BY DEF GatewayRequest, SameRequest, TablesGrow, OrdersGrow, CallFits, IdleServices
<1>2. UserFits(s)'
  BY DEF GatewayRequest, SameRequest, TablesGrow, DisturbedGrows, UserFits, HasToken
<1>3. OrderFits(s)'
  BY DEF GatewayRequest, SameRequest, TablesGrow, OrdersGrow, DisturbedGrows, OrderFits
<1>4. PaidFor(s) => PaidFor(s)'
  BY DEF SameRequest, TablesGrow, OrdersGrow, PaidFor
<1>5. AnswerFits(s)'
  BY <1>4 DEF GatewayRequest, SameRequest, TablesGrow, OrdersGrow, DisturbedGrows, AnswerFits
<1> QED
  BY <1>1, <1>2, <1>3, <1>5 DEF GatewayRequest

LEMMA UsersGrow ==
    ASSUME AccountsRest \/ \E r \in Request : AccountsMove(r)
    PROVE  DOMAIN users \subseteq DOMAIN users'
BY DEF AccountsRest, accountsVars, AccountsMove, Signup, Login, Me, Ask, AccountsStep,
       SignupFindByEmail, SaveUser, InsertUser, LoginFindByEmail, GetMe

\* A step of request r is one of nobody else.
LEMMA OneMoves ==
    ASSUME GatewayInv, ServicesStep, OrdersGrow, NEW r \in Request,
           \A s \in Request \ {r} :
              SameRequest(s) /\ (s \in DOMAIN orders' => s \in DOMAIN orders),
           OwnTypeOK', GatewayRequest(r)'
    PROVE  GatewayInv'
<1>1. (AccountsInv /\ CatalogInv /\ ClientInv /\ \A s \in Request : KeylessRequest(s))'
  BY AccountsPreserved, CatalogPreserved, ClientPreserved, KeylessPreserved
  DEF GatewayInv, ServicesStep
<1>2. TablesGrow
  BY UsersGrow DEF ServicesStep, TablesGrow
<1>3. ASSUME NEW s \in Request PROVE GatewayRequest(s)'
  BY <1>2, GatewayOthers DEF GatewayInv
<1> QED
  BY <1>1, <1>3 DEF GatewayInv

LEMMA GraphQlCodes ==
    /\ GraphQlCode("Unauthorized") = "UNAUTHENTICATED"
    /\ GraphQlCode("NotFound") = "NOT_FOUND"
    /\ GraphQlCode("Conflict") = "CONFLICT"
    /\ GraphQlCode("Unexpected") = "INTERNAL_SERVER_ERROR"
    /\ GraphQlCode("Other") = "INTERNAL_SERVER_ERROR"
BY DEF GraphQlCode

LEMMA OrdersApiErrors ==
    /\ \A status \in {400, 500} : OrdersApiError("createEvent", status) = "Unexpected"
    /\ OrdersApiError("createOrder", 400) = "Unexpected"
    /\ OrdersApiError("createOrder", 403) = "Unexpected"
    /\ OrdersApiError("createOrder", 404) = "NotFound"
    /\ OrdersApiError("createOrder", 409) = "Conflict"
    /\ OrdersApiError("createOrder", 500) = "Unexpected"
    /\ OrdersApiError("payOrder", 404) = "NotFound"
    /\ OrdersApiError("payOrder", 409) = "Unexpected"
    /\ OrdersApiError("listOrdersByCustomer", 404) = "Unexpected"
BY DEF OrdersApiError

LEMMA UsersDiffer ==
    User \cap (MeError \cup {Unauthenticated, Pending}) = {}
BY GatewayAssumption DEF Error, MeError
-----------------------------------------------------------------------------
(***************************************************************************)
(* The steps                                                               *)
(***************************************************************************)
LEMMA GatewayInitially ==
    ASSUME Init
    PROVE  GatewayInv
<1>1. AccountsInv /\ CatalogInv /\ ClientInv
  BY AccountsInitially, CatalogInitially, ClientInitially DEF Init
<1>2. OwnTypeOK
  <2>1. [r \in Request |-> <<>>] \in [Request -> Seq(CacheKey)]
    OBVIOUS
  <2>2. /\ DOMAIN orders \subseteq Request \cup DOMAIN Placed
        /\ orders \in [DOMAIN orders -> {"PENDING", "PAID"}]
    BY GatewayAssumption DEF Init
  <2>3. /\ DOMAIN ask = Request /\ outdated \in SUBSET Request /\ disturbed \in SUBSET Request
        /\ gatewayAt \in [Request -> {"new", "rest", "await", "get", "fetch", "set", "createEvent",
                                      "createOrder", "payOrder", "delete", "answered", "lost"}]
        /\ me \in [Request -> User \cup {Unauthenticated, Pending} \cup MeError]
        /\ listing \in [Request -> SUBSET Request]
    BY DEF Init
  <2>4. toDelete \in [Request -> Seq(CacheKey)]
    BY <2>1 DEF Init
  <2>5. /\ code \in [Request -> {"none", "OK", "UNAUTHENTICATED", "NOT_FOUND", "CONFLICT",
                                 "INTERNAL_SERVER_ERROR", "GRAPHQL_VALIDATION_FAILED"}]
        /\ cache \in [CacheKey -> (SUBSET Request) \cup {NotCached}]
        /\ orderStatus \in [Request -> {0, 201, 400, 403, 404, 409, 500}]
    BY DEF Init
  <2> QED
    BY <2>2, <2>3, <2>4, <2>5 DEF OwnTypeOK
<1>3. ASSUME NEW r \in Request PROVE GatewayRequest(r) /\ KeylessRequest(r)
  <2>1. CallFits(r)
    BY DEF Init, CatalogInit, ClientInit, CallFits, IdleServices
  <2>2. UserFits(r)
    BY UsersDiffer DEF Init, UserFits, Unauthenticated, Pending
  <2>3. OrderFits(r)
    BY GatewayAssumption DEF Init, ClientInit, OrderFits
  <2>4. AnswerFits(r)
    BY DEF Init, AnswerFits
  <2>5. KeylessRequest(r)
    BY DEF Init, CatalogInit, KeylessRequest
  <2> QED
    BY <2>1, <2>2, <2>3, <2>4, <2>5 DEF GatewayRequest
<1> QED
  BY <1>1, <1>2, <1>3 DEF GatewayInv


\* Only the history of failures, and what the services keep, may change.
LEMMA OwnTypesKept ==
    ASSUME OwnTypeOK, UNCHANGED <<gatewayVars, cacheVars, orderVars>>, NEW r \in Request,
           disturbed' = disturbed \/ disturbed' = disturbed \cup {r}
    PROVE  OwnTypeOK'
<1>1. disturbed' \in SUBSET Request
  BY DEF OwnTypeOK
<1> QED
  BY <1>1 DEF OwnTypeOK, gatewayVars, cacheVars, orderVars

LEMMA AtAccountsInv ==
    ASSUME GatewayInv, NEW r \in Request, AtAccounts(r)
    PROVE  GatewayInv'
<1>1. ServicesStep
  BY AtAccountsServices
<1>2. UNCHANGED <<gatewayVars, cacheVars, orderVars, catalogVars, clientVars>>
  BY DEF AtAccounts
<1>3. UNCHANGED accountsBody /\ (disturbed' = disturbed \/ disturbed' = disturbed \cup {r})
  BY DEF AtAccounts, AccountsStep, SignupFindByEmail, SaveUser, LoginFindByEmail, GetMe,
         AccountsFails, Fault
<1>4. OrdersGrow
  BY <1>2 DEF OrdersGrow, orderVars
<1>5. \A s \in Request : SameRequest(s) /\ (s \in DOMAIN orders' => s \in DOMAIN orders)
  BY <1>2, <1>3 DEF SameRequest, gatewayVars, orderVars, catalogVars, clientVars
<1>6. GatewayRequest(r)'
  <2>1. TablesGrow
    BY <1>1, <1>4, UsersGrow DEF ServicesStep, TablesGrow
  <2> QED
    BY <1>5, <2>1, GatewayOthers DEF GatewayInv
<1>7. OwnTypeOK'
  BY <1>2, <1>3, OwnTypesKept DEF GatewayInv
<1> QED
  BY <1>1, <1>4, <1>5, <1>6, <1>7, OneMoves

LEMMA CatalogStepInv ==
    ASSUME GatewayInv, NEW r \in Request, CatalogStep(r),
           UNCHANGED <<gatewayVars, cacheVars, orderVars, accountsVars, clientVars>>
    PROVE  GatewayInv'
<1>1. ServicesStep
  BY AtOrdersServices DEF AtOrders
<1>2. /\ catalogAt[r] \in {"findByKey", "saveEvent", "saveTicketType"}
      /\ UNCHANGED catalogBody
      /\ disturbed' = disturbed \/ disturbed' = disturbed \cup {r}
      /\ catalogAt'[r] # "idle"
      /\ \A s \in Request \ {r} :
            catalogAt'[s] = catalogAt[s] /\ catalogReply'[s] = catalogReply[s]
  BY DEF GatewayInv, CatalogInv, CatalogTypeOK, CatalogStep, FindEventByKey, SaveEvent,
         SaveTicketType, NextTicketType, CatalogFails, CatalogThrow, CatalogAnswer, CatalogGo,
         Fault
<1>3. /\ \A s \in Request \ {r} : ticketTypes'[s] = ticketTypes[s]
      /\ ticketTypes[r] = TicketTypes => ticketTypes'[r] = TicketTypes
  <2>1. CatalogTypeOK /\ CatalogRequest(r)
    BY DEF GatewayInv, CatalogInv
  <2>2. \/ UNCHANGED ticketTypes
        \/ catalogAt[r] = "saveTicketType" /\ InsertTicketType(r)
    BY DEF CatalogStep, FindEventByKey, SaveEvent, SaveTicketType
  <2>3. catalogAt[r] = "saveTicketType" => ticketTypes[r] # TicketTypes
    BY <2>1, CatalogAssumption DEF CatalogRequest
  <2> QED
    BY <2>1, <2>2, <2>3 DEF CatalogTypeOK, InsertTicketType
<1>4. OrdersGrow
  BY DEF OrdersGrow, orderVars
<1>5. \A s \in Request \ {r} : SameRequest(s) /\ (s \in DOMAIN orders' => s \in DOMAIN orders)
  BY <1>2, <1>3 DEF SameRequest, gatewayVars, orderVars, accountsVars, clientVars
<1>6. GatewayRequest(r)'
  <2>1. GatewayRequest(r) /\ CatalogRequest(r)
    BY DEF GatewayInv, CatalogInv
  <2>2. UNCHANGED <<ask, gatewayAt, me, toDelete, code, orders, orderStatus, clientAt, users,
                    accountsBody>>
    BY DEF gatewayVars, orderVars, accountsVars, clientVars
  <2>3. CallFits(r)'
    BY <1>2, <1>3, <2>1, <2>2 DEF GatewayRequest, CallFits, IdleServices
  <2>4. UserFits(r)' /\ OrderFits(r)'
    BY <1>1, <2>1, <2>2
    DEF GatewayRequest, UserFits, OrderFits, HasToken, ServicesStep, DisturbedGrows
  <2>5. catalogReply[r].status # 400
    BY <1>2, <2>1 DEF CatalogRequest
  <2>6. AnswerFits(r)'
    BY <1>1, <1>2, <1>3, <2>1, <2>2, <2>5
    DEF GatewayRequest, AnswerFits, PaidFor, ServicesStep, DisturbedGrows
  <2> QED
    BY <2>3, <2>4, <2>6 DEF GatewayRequest
<1>7. OwnTypeOK'
  BY <1>2, OwnTypesKept DEF GatewayInv
<1> QED
  BY <1>1, <1>4, <1>5, <1>6, <1>7, OneMoves

LEMMA ClientStepInv ==
    ASSUME GatewayInv, NEW r \in Request, CallOnce(r, CustomerExists(r)) \/ Pause(r),
           UNCHANGED <<gatewayVars, cacheVars, orderVars, catalogVars, accountsVars>>
    PROVE  GatewayInv'
<1>1. ServicesStep
  BY AtOrdersServices DEF AtOrders
<1>2. /\ clientAt[r] \in {"call", "pause"}
      /\ clientAt' = [clientAt EXCEPT ![r] = clientAt'[r]]
      /\ clientAt'[r] # "idle"
      /\ disturbed' = disturbed \/ disturbed' = disturbed \cup {r}
      /\ clientAt'[r] = "failed" => r \in disturbed' \/ ~CustomerExists(r)
  BY DEF GatewayInv, ClientInv, ClientTypeOK, CallOnce, Pause, Rejected, ClientGo, Fault
<1>3. UNCHANGED <<ask, gatewayAt, me, toDelete, code, orders, orderStatus, users, accountsBody,
                  catalogAt, catalogBody, catalogReply, ticketTypes>>
  BY DEF gatewayVars, orderVars, accountsVars, catalogVars
<1>4. OrdersGrow
  BY DEF OrdersGrow, orderVars
<1>5. \A s \in Request \ {r} : SameRequest(s) /\ (s \in DOMAIN orders' => s \in DOMAIN orders)
  BY <1>2, <1>3 DEF GatewayInv, ClientInv, ClientTypeOK, SameRequest
<1>6. GatewayRequest(r)'
  <2>1. GatewayRequest(r)
    BY DEF GatewayInv
  <2>2. CallFits(r)'
    BY <1>2, <1>3, <2>1 DEF GatewayRequest, CallFits, IdleServices
  <2>3. UserFits(r)'
    BY <1>1, <1>3, <2>1 DEF GatewayRequest, UserFits, HasToken, ServicesStep, DisturbedGrows
  <2>4. gatewayAt[r] # "rest" => CustomerExists(r)
    BY <1>2, <2>1 DEF GatewayRequest, UserFits, OrderFits, CustomerExists, Customer, IsStored
  <2>5. orderStatus[r] = 0
    BY <1>2, <2>1 DEF GatewayRequest, OrderFits
  <2>6. OrderFits(r)'
    BY <1>1, <1>2, <1>3, <2>1, <2>4, <2>5
    DEF GatewayRequest, OrderFits, ServicesStep, DisturbedGrows
  <2>7. AnswerFits(r)'
    BY <1>1, <1>2, <1>3, <2>1, <2>5
    DEF GatewayRequest, AnswerFits, PaidFor, ServicesStep, DisturbedGrows
  <2> QED
    BY <2>2, <2>3, <2>6, <2>7 DEF GatewayRequest
<1>7. OwnTypeOK'
  BY <1>2, OwnTypesKept DEF GatewayInv
<1> QED
  BY <1>1, <1>4, <1>5, <1>6, <1>7, OneMoves

\* How a request to place an order may end.
Outcome(r) ==
    \/ clientAt[r] = "failed" /\ Respond(r, 500)
    \/ Customer(r) \in Staff /\ Respond(r, 403)
    \/ Respond(r, 404) /\ UNCHANGED orders
    \/ Respond(r, 409) /\ UNCHANGED orders
    \/ Respond(r, 201) /\ StoreOrder(r)
    \/ ask[r].body # "valid" /\ Respond(r, 500)
    \/ r \in disturbed' /\ Respond(r, 500)

LEMMA PlaceOrderInv ==
    ASSUME GatewayInv, NEW r \in Request, PlaceOrder(r)
    PROVE  GatewayInv'
<1>1. ServicesStep
  BY AtOrdersServices DEF AtOrders
<1>0. clientAt[r] \in {"found", "failed"} /\ orderStatus[r] = 0
  BY DEF PlaceOrder
<1>2. OwnTypeOK /\ GatewayRequest(r) /\ r \notin DOMAIN orders
  BY <1>0 DEF GatewayInv, GatewayRequest, OrderFits
<1>3. UNCHANGED <<gatewayVars, cacheVars, catalogVars, accountsVars, clientVars>>
  BY DEF PlaceOrder
<1>4. Outcome(r)
  <2>1. \/ clientAt[r] = "failed" /\ Respond(r, OrdersStatus("Other"))
        \/ Customer(r) \in Staff /\ Respond(r, OrdersStatus("Forbidden"))
        \/ /\ Respond(r, OrdersStatus("NotFound")) \/ Respond(r, OrdersStatus("Conflict"))
           /\ UNCHANGED orders
        \/ Respond(r, 201) /\ StoreOrder(r)
        \/ ask[r].body = "total too large" /\ Respond(r, OrdersStatus("Other"))
        \/ (Fault(r, "db") \/ Fault(r, "redis")) /\ Respond(r, OrdersStatus("Other"))
    BY DEF PlaceOrder
  <2>2. /\ Respond(r, OrdersStatus("Other")) => Respond(r, 500)
        /\ Respond(r, OrdersStatus("Forbidden")) => Respond(r, 403)
        /\ Respond(r, OrdersStatus("NotFound")) => Respond(r, 404)
        /\ Respond(r, OrdersStatus("Conflict")) => Respond(r, 409)
    BY OrdersStatuses DEF Respond
  <2>3. CASE clientAt[r] = "failed" /\ Respond(r, OrdersStatus("Other"))
    BY <2>2, <2>3 DEF Outcome
  <2>4. CASE Customer(r) \in Staff /\ Respond(r, OrdersStatus("Forbidden"))
    BY <2>2, <2>4 DEF Outcome
  <2>5. CASE /\ Respond(r, OrdersStatus("NotFound")) \/ Respond(r, OrdersStatus("Conflict"))
             /\ UNCHANGED orders
    BY <2>2, <2>5 DEF Outcome
  <2>6. CASE Respond(r, 201) /\ StoreOrder(r)
    BY <2>6 DEF Outcome
  <2>7. CASE ask[r].body = "total too large" /\ Respond(r, OrdersStatus("Other"))
    BY <2>2, <2>7 DEF Outcome
  <2>8. CASE (Fault(r, "db") \/ Fault(r, "redis")) /\ Respond(r, OrdersStatus("Other"))
    BY <2>2, <2>8 DEF Outcome, Fault
  <2> QED
    BY <2>1, <2>3, <2>4, <2>5, <2>6, <2>7, <2>8
<1>5. /\ UNCHANGED orders \/ StoreOrder(r)
      /\ disturbed' = disturbed \/ disturbed' = disturbed \cup {r}
  BY DEF PlaceOrder, Fault
<1>6. OrdersGrow
  BY <1>2, <1>5 DEF OrdersGrow, StoreOrder
<1>8. \A s \in Request \ {r} : SameRequest(s) /\ (s \in DOMAIN orders' => s \in DOMAIN orders)
  BY <1>2, <1>3, <1>4, <1>5
  DEF SameRequest, OwnTypeOK, Outcome, Respond, StoreOrder, gatewayVars, accountsVars, catalogVars, clientVars
<1>9. GatewayRequest(r)'
  <2>1. UNCHANGED <<ask, gatewayAt, me, toDelete, code, users, accountsBody, clientAt,
                    catalogAt, catalogBody, catalogReply, ticketTypes>>
    BY <1>3 DEF gatewayVars, accountsVars, catalogVars, clientVars
  <2>2. /\ orderStatus'[r] \in {201, 403, 404, 409, 500}
        /\ orderStatus'[r] = 201 => r \in DOMAIN orders'
        /\ orderStatus'[r] \in {404, 409} => r \notin DOMAIN orders'
        /\ orderStatus'[r] = 403 => Customer(r) \in Staff
        /\ orderStatus'[r] = 500 =>
              r \in disturbed' \/ clientAt[r] = "failed" \/ ask[r].body # "valid"
    BY <1>2, <1>4 DEF OwnTypeOK, Outcome, Respond, StoreOrder
  <2>3. CallFits(r)' /\ UserFits(r)'
    BY <1>1, <1>0, <1>2, <1>6, <2>1
    DEF GatewayRequest, CallFits, IdleServices, UserFits, HasToken, OrdersGrow, ServicesStep,
        DisturbedGrows
  <2>4. OrderFits(r)'
    BY <1>1, <1>0, <1>2, <2>1, <2>2
    DEF GatewayRequest, OrderFits, Customer, ServicesStep, DisturbedGrows
  <2>5. PaidFor(r) => PaidFor(r)'
    BY <1>6, <2>1 DEF PaidFor, OrdersGrow
  <2>6. AnswerFits(r)'
    BY <1>1, <1>0, <1>2, <1>6, <2>1, <2>5
    DEF GatewayRequest, AnswerFits, OrdersGrow, ServicesStep, DisturbedGrows
  <2> QED
    BY <2>3, <2>4, <2>6 DEF GatewayRequest
<1>10. OwnTypeOK'
  <2>1. orderStatus' \in [Request -> {0, 201, 400, 403, 404, 409, 500}]
    <3>1. \E status \in {201, 403, 404, 409, 500} : Respond(r, status)
      BY <1>4 DEF Outcome
    <3> QED
      BY <1>2, <3>1 DEF OwnTypeOK, Respond
  <2>2. DOMAIN orders' \subseteq Request \cup DOMAIN Placed
        /\ orders' \in [DOMAIN orders' -> {"PENDING", "PAID"}]
    BY <1>2, <1>5 DEF OwnTypeOK, StoreOrder
  <2>3. disturbed' \in SUBSET Request
    BY <1>2, <1>5 DEF OwnTypeOK
  <2> QED
    BY <1>2, <1>3, <2>1, <2>2, <2>3 DEF OwnTypeOK, gatewayVars, cacheVars
<1> QED
  BY <1>1, <1>6, <1>8, <1>9, <1>10, OneMoves

(***************************************************************************)
(* A step of a resolver: of its own variables it changes only those of r,  *)
(* and it ends in another call or in an answer.                            *)
(***************************************************************************)
ResolverGoes(r) ==
    /\ \/ /\ \E call \in {"fetch", "set", "createEvent", "createOrder", "delete"} : Await(r, call)
          /\ UNCHANGED disturbed
       \/ \E answer \in {"OK", "UNAUTHENTICATED", "NOT_FOUND", "CONFLICT",
                          "INTERNAL_SERVER_ERROR"} : Answer(r, answer)
       \/ UNCHANGED <<gatewayAt, code>>
    /\ UNCHANGED disturbed \/ disturbed' = disturbed \cup {r}

LEMMA ResolverTypes ==
    ASSUME OwnTypeOK, NEW r \in Request, ResolverGoes(r)
    PROVE  /\ gatewayAt' \in [Request -> {"new", "rest", "await", "get", "fetch", "set",
                    "createEvent", "createOrder", "payOrder", "delete", "answered", "lost"}]
           /\ code' \in [Request -> {"none", "OK", "UNAUTHENTICATED", "NOT_FOUND", "CONFLICT",
                                     "INTERNAL_SERVER_ERROR", "GRAPHQL_VALIDATION_FAILED"}]
           /\ disturbed' \in SUBSET Request
           /\ \A s \in Request \ {r} : gatewayAt'[s] = gatewayAt[s] /\ code'[s] = code[s]
           /\ \A s \in Request : gatewayAt'[s] = "lost" => gatewayAt[s] = "lost"
<1>1. CASE \E call \in {"fetch", "set", "createEvent", "createOrder", "delete"} : Await(r, call)
  BY <1>1 DEF OwnTypeOK, ResolverGoes, Await
<1>2. CASE \E answer \in {"OK", "UNAUTHENTICATED", "NOT_FOUND", "CONFLICT",
                          "INTERNAL_SERVER_ERROR"} : Answer(r, answer)
  BY <1>2 DEF OwnTypeOK, ResolverGoes, Answer
<1>3. CASE UNCHANGED <<gatewayAt, code>>
  BY <1>3 DEF OwnTypeOK, ResolverGoes
<1> QED
  BY <1>1, <1>2, <1>3 DEF ResolverGoes

LEMMA ResolverInv ==
    ASSUME GatewayInv, NEW r \in Request, ResolverGoes(r),
           gatewayAt[r] \in {"await", "get", "fetch", "set", "createEvent", "createOrder",
                            "payOrder", "delete"},
           gatewayAt'[r] # "await",
           UNCHANGED <<ask, me, orderStatus, accountsVars, catalogVars, clientVars>>,
           UNCHANGED orders \/ \E o \in DOMAIN orders : MarkPaid(o),
           listing' \in [Request -> SUBSET Request],
           toDelete' \in [Request -> Seq(CacheKey)],
           \A s \in Request \ {r} : toDelete'[s] = toDelete[s],
           cache' \in [CacheKey -> (SUBSET Request) \cup {NotCached}],
           outdated' \in SUBSET Request,
           CallFits(r)', AnswerFits(r)'
    PROVE  GatewayInv'
<1>1. OwnTypeOK /\ GatewayRequest(r)
  BY DEF GatewayInv
<1>2. ServicesStep
  BY DEF ResolverGoes, ServicesStep, DisturbedGrows, AccountsRest, CatalogRest
<1>3. OrdersGrow /\ DOMAIN orders' = DOMAIN orders
  BY DEF OrdersGrow, MarkPaid
<1>5. \A s \in Request \ {r} : SameRequest(s) /\ (s \in DOMAIN orders' => s \in DOMAIN orders)
  BY <1>1, <1>3, ResolverTypes DEF SameRequest, accountsVars, catalogVars, clientVars
<1>6. GatewayRequest(r)'
  <2>1. gatewayAt'[r] \notin {"new", "rest", "await"}
    BY <1>1 DEF OwnTypeOK, ResolverGoes, Await, Answer
  <2>2. UserFits(r)' /\ OrderFits(r)'
    BY <1>1, <1>2, <1>3, <2>1
    DEF GatewayRequest, UserFits, OrderFits, HasToken, ServicesStep, DisturbedGrows,
        accountsVars, clientVars
  <2> QED
    BY <2>2 DEF GatewayRequest
<1>7. OwnTypeOK'
  <2>1. orders' \in [DOMAIN orders' -> {"PENDING", "PAID"}]
    <3>1. CASE UNCHANGED orders
      BY <1>1, <3>1 DEF OwnTypeOK
    <3>2. ASSUME NEW o \in DOMAIN orders, MarkPaid(o)
          PROVE  orders' \in [DOMAIN orders' -> {"PENDING", "PAID"}]
      BY <1>1, <3>2 DEF OwnTypeOK, MarkPaid
    <3> QED
      BY <3>1, <3>2
  <2>2. /\ gatewayAt' \in [Request -> {"new", "rest", "await", "get", "fetch", "set",
                   "createEvent", "createOrder", "payOrder", "delete", "answered", "lost"}]
        /\ code' \in [Request -> {"none", "OK", "UNAUTHENTICATED", "NOT_FOUND", "CONFLICT",
                                  "INTERNAL_SERVER_ERROR", "GRAPHQL_VALIDATION_FAILED"}]
        /\ disturbed' \in SUBSET Request
    BY <1>1, ResolverTypes
  <2> QED
    BY <1>1, <1>3, <2>1, <2>2 DEF OwnTypeOK
<1> QED
  BY <1>2, <1>3, <1>5, <1>6, <1>7, OneMoves

LEMMA StoredAreRequests ==
    ASSUME CatalogTypeOK, NEW key
    PROVE  Stored(key) \in SUBSET Request
BY DEF Stored, FindAll, FindById, FindByOrganizerId, CatalogTypeOK

\* Answers that need no other explanation.
LEMMA AnsweredFits ==
    ASSUME OwnTypeOK, NEW r \in Request, CallFits(r), UNCHANGED ask,
           NEW answer, Answer(r, answer),
           \/ answer = "INTERNAL_SERVER_ERROR"
              /\ (r \in disturbed' \/ ask[r].op \in {"ordersByCustomer", "eventWithEnd"})
           \/ answer = "OK" /\ ask[r].op \notin Mutation
    PROVE  CallFits(r)' /\ AnswerFits(r)'
<1>1. gatewayAt'[r] = "answered" /\ code'[r] = answer
  BY DEF OwnTypeOK, Answer
<1> QED
  BY <1>1 DEF CallFits, AnswerFits, Mutation

LEMMA PutEntryTypes ==
    ASSUME OwnTypeOK, NEW r \in Request, PutEntry(r)
    PROVE  /\ cache' \in [CacheKey -> (SUBSET Request) \cup {NotCached}]
           /\ outdated' \in SUBSET Request
<1>1. /\ cache \in [CacheKey -> (SUBSET Request) \cup {NotCached}]
      /\ listing[r] \in (SUBSET Request) \cup {NotCached}
  BY DEF OwnTypeOK
<1>2. cache' = [cache EXCEPT ![CacheKeyOf(r)] = listing[r]]
  BY DEF PutEntry
<1>3. outdated' \in SUBSET Request
  BY DEF OwnTypeOK, PutEntry
<1> QED
  BY <1>1, <1>2, <1>3

LEMMA QueriesInv ==
    ASSUME GatewayInv, NEW r \in Request, GetCached(r) \/ Fetch(r) \/ SetCached(r)
    PROVE  GatewayInv'
<1> USE GraphQlCodes, OrdersApiErrors
<1>1. OwnTypeOK /\ CallFits(r) /\ AnswerFits(r) /\ CatalogTypeOK
  BY DEF GatewayInv, GatewayRequest, CatalogInv
<1>2. /\ gatewayAt[r] \in {"get", "fetch", "set"}
      /\ UNCHANGED <<ask, me, toDelete, orderVars, accountsVars, catalogVars, clientVars>>
  BY DEF GetCached, Fetch, SetCached
<1>3. \/ \E call \in {"fetch", "set"} :
            /\ Await(r, call) /\ UNCHANGED disturbed
            /\ call = "set" => ask[r].op # "ordersByCustomer"
      \/ \E answer \in {"OK", "INTERNAL_SERVER_ERROR"} :
            /\ Answer(r, answer)
            /\ UNCHANGED disturbed \/ disturbed' = disturbed \cup {r}
            /\ answer = "INTERNAL_SERVER_ERROR" =>
                  r \in disturbed' \/ ask[r].op \in {"ordersByCustomer", "eventWithEnd"}
            /\ answer = "OK" => ask[r].op # "ordersByCustomer"
  <2>1. CASE GetCached(r)
    BY <1>1, <2>1 DEF GetCached, Show, Throw, Fails, Fault, CallFits, Cached
  <2>2. CASE Fetch(r)
    BY <2>2 DEF Fetch, Throw, Fails, Fault
  <2>3. CASE SetCached(r)
    BY <1>1, <2>3 DEF SetCached, Show, Throw, Fails, Fault, CallFits, Cached
  <2> QED
    BY <2>1, <2>2, <2>3
<1>4. CallFits(r)' /\ AnswerFits(r)' /\ gatewayAt'[r] # "await"
  <2>1. ask[r].op \in Cached \cup {"ordersByCustomer"}
    BY <1>1, <1>2 DEF CallFits
  <2>2. ASSUME NEW call \in {"fetch", "set"}, Await(r, call),
               call = "set" => ask[r].op # "ordersByCustomer"
        PROVE  CallFits(r)' /\ AnswerFits(r)' /\ gatewayAt'[r] # "await"
    <3>1. gatewayAt'[r] = call /\ code'[r] = "none"
      BY <1>1, <1>2, <2>2 DEF OwnTypeOK, Await, AnswerFits
    <3> QED
      BY <1>1, <1>2, <2>1, <2>2, <3>1
      DEF CallFits, AnswerFits, IdleServices, orderVars, catalogVars, clientVars
  <2>3. ASSUME NEW answer \in {"OK", "INTERNAL_SERVER_ERROR"}, Answer(r, answer),
               answer = "INTERNAL_SERVER_ERROR" =>
                  r \in disturbed' \/ ask[r].op \in {"ordersByCustomer", "eventWithEnd"}
        PROVE  CallFits(r)' /\ AnswerFits(r)' /\ gatewayAt'[r] # "await"
    <3>1. ask[r].op \notin Mutation
      BY <2>1 DEF Cached, Mutation
    <3>2. gatewayAt'[r] = "answered"
      BY <1>1, <2>3 DEF OwnTypeOK, Answer
    <3> QED
      BY <1>1, <1>2, <2>3, <3>1, <3>2, AnsweredFits
  <2> QED
    BY <1>3, <2>2, <2>3
<1>5. ResolverGoes(r)
  BY <1>3 DEF ResolverGoes
<1>6. listing' \in [Request -> SUBSET Request]
  <2>1. listing' = listing \/ \E key : listing' = [listing EXCEPT ![r] = Stored(key)]
    BY DEF GetCached, Fetch, SetCached
  <2>2. ASSUME NEW key, listing' = [listing EXCEPT ![r] = Stored(key)]
        PROVE  listing' \in [Request -> SUBSET Request]
    <3>1. Stored(key) \in SUBSET Request
      BY <1>1, StoredAreRequests
    <3> QED
      BY <1>1, <2>2, <3>1 DEF OwnTypeOK
  <2>3. CASE UNCHANGED listing
    BY <1>1, <2>3 DEF OwnTypeOK
  <2> QED
    BY <2>1, <2>2, <2>3
<1>7. /\ cache' \in [CacheKey -> (SUBSET Request) \cup {NotCached}]
      /\ outdated' \in SUBSET Request
  <2>1. UNCHANGED cacheVars \/ PutEntry(r)
    BY DEF GetCached, Fetch, SetCached
  <2>2. CASE UNCHANGED cacheVars
    BY <1>1, <2>2 DEF OwnTypeOK, cacheVars
  <2>3. CASE PutEntry(r)
    BY <1>1, <2>3, PutEntryTypes
  <2> QED
    BY <2>1, <2>2, <2>3
<1>8. /\ toDelete' \in [Request -> Seq(CacheKey)]
      /\ \A s \in Request \ {r} : toDelete'[s] = toDelete[s]
      /\ UNCHANGED <<orders, orderStatus>>
  BY <1>1, <1>2 DEF OwnTypeOK, orderVars
<1> QED
  BY <1>2, <1>4, <1>5, <1>6, <1>7, <1>8, ResolverInv

\* A mutation succeeded: keys are to be deleted from the cache.
LEMMA InvalidateFits ==
    ASSUME OwnTypeOK, NEW r \in Request, CallFits(r), AnswerFits(r), gatewayAt[r] # "answered",
           UNCHANGED <<ask, disturbed>>,
           NEW keys \in Seq(CacheKey), keys # <<>>, Invalidate(r, keys),
           \/ ask[r].op = "createEvent" /\ ticketTypes'[r] = TicketTypes
           \/ ask[r].op = "createOrder" /\ r \in DOMAIN orders'
    PROVE  /\ ResolverGoes(r) /\ CallFits(r)' /\ AnswerFits(r)' /\ gatewayAt'[r] # "await"
           /\ toDelete' \in [Request -> Seq(CacheKey)]
           /\ \A s \in Request \ {r} : toDelete'[s] = toDelete[s]
<1>1. gatewayAt'[r] = "delete" /\ code'[r] = "none" /\ toDelete'[r] = keys
  BY DEF OwnTypeOK, Invalidate, Await, AnswerFits
<1>2. CallFits(r)' /\ AnswerFits(r)'
  BY <1>1 DEF CallFits, AnswerFits
<1>3. ResolverGoes(r)
  BY DEF ResolverGoes, Invalidate
<1>4. /\ toDelete' \in [Request -> Seq(CacheKey)]
      /\ \A s \in Request \ {r} : toDelete'[s] = toDelete[s]
  BY DEF OwnTypeOK, Invalidate
<1> QED
  BY <1>1, <1>2, <1>3, <1>4

\* A mutation is answered with an error.
LEMMA ThrowFits ==
    ASSUME OwnTypeOK, NEW r \in Request, CallFits(r), UNCHANGED <<ask, toDelete>>,
           UNCHANGED disturbed \/ disturbed' = disturbed \cup {r},
           NEW error \in MeError \cup {"Conflict"}, Throw(r, error),
           error \in {"Unexpected", "Other"} =>
              \/ r \in disturbed'
              \/ /\ ask[r].op = "createEvent" /\ catalogAt'[r] # "idle"
                 /\ catalogReply'[r].status = 400 \/ catalogBody'[r].unstorable = 0
              \/ ask[r].op = "createOrder" /\ (me'[r] \in Staff \/ ask[r].body # "valid")
              \/ ask[r].op = "payOrder" /\ PaidFor(r)',
           error \in {"Unauthorized", "NotFound", "Conflict"} =>
              /\ catalogAt'[r] = "idle" /\ r \notin DOMAIN orders'
              /\ clientAt'[r] = "idle" \/ orderStatus'[r] # 0
    PROVE  /\ ResolverGoes(r) /\ CallFits(r)' /\ AnswerFits(r)' /\ gatewayAt'[r] # "await"
           /\ toDelete' \in [Request -> Seq(CacheKey)]
           /\ \A s \in Request \ {r} : toDelete'[s] = toDelete[s]
<1> USE GraphQlCodes
<1>1. /\ Answer(r, GraphQlCode(error))
      /\ GraphQlCode(error) \in {"UNAUTHENTICATED", "NOT_FOUND", "CONFLICT",
                                "INTERNAL_SERVER_ERROR"}
      /\ GraphQlCode(error) = "INTERNAL_SERVER_ERROR" <=> error \in {"Unexpected", "Other"}
  BY DEF Throw, MeError
<1>2. gatewayAt'[r] = "answered" /\ code'[r] = GraphQlCode(error)
  BY <1>1 DEF OwnTypeOK, Answer
<1>3. CallFits(r)'
  BY <1>2 DEF CallFits
<1>4. AnswerFits(r)'
  BY <1>1, <1>2 DEF AnswerFits, MeError
<1>5. ResolverGoes(r)
  BY <1>1 DEF ResolverGoes
<1> QED
  BY <1>2, <1>3, <1>4, <1>5 DEF OwnTypeOK

LEMMA CreateEventReturnsInv ==
    ASSUME GatewayInv, NEW r \in Request, CreateEventReturns(r)
    PROVE  GatewayInv'
<1>1. OwnTypeOK /\ CallFits(r) /\ AnswerFits(r) /\ CatalogTypeOK
      /\ CatalogRequest(r) /\ KeylessRequest(r)
  BY DEF GatewayInv, GatewayRequest, CatalogInv
<1>2. /\ gatewayAt[r] = "createEvent"
      /\ UNCHANGED <<ask, me, listing, cacheVars, orderVars, accountsVars, catalogVars, clientVars>>
  BY DEF CreateEventReturns
<1>3. /\ ask[r].op = "createEvent" /\ me[r] \in User
      /\ catalogAt[r] # "idle" /\ catalogBody[r].key = NoKey
  BY <1>1, <1>2 DEF CallFits
<1>4. catalogReply[r].status \in {0, 201, 400, 500}
  BY <1>1 DEF CatalogTypeOK
<1>5. /\ ResolverGoes(r) /\ CallFits(r)' /\ AnswerFits(r)' /\ gatewayAt'[r] # "await"
      /\ toDelete' \in [Request -> Seq(CacheKey)]
      /\ \A s \in Request \ {r} : toDelete'[s] = toDelete[s]
  <2>1. ASSUME catalogReply[r].status = 201, UNCHANGED disturbed,
               Invalidate(r, <<AllKey, ListKey(me[r])>>)
        PROVE  <1>5!:
    <3> DEFINE keys == <<AllKey, ListKey(me[r])>>
    <3>1. keys \in Seq(CacheKey) /\ keys # <<>>
      BY <1>3, GatewayAssumption DEF CacheKey
    <3>2. ticketTypes'[r] = TicketTypes
      <4>1. r \in DOMAIN events /\ ~Explained(r)
        BY <1>1, <1>3, <2>1 DEF CatalogRequest, KeylessRequest, Created, Explained
      <4>2. ~(ticketTypes[r] < TicketTypes) /\ ticketTypes[r] \in 0 .. TicketTypes
        BY <1>1, <4>1 DEF CatalogRequest, CatalogTypeOK
      <4> QED
        BY <1>2, <4>2, CatalogAssumption DEF catalogVars
    <3>3. gatewayAt[r] # "answered" /\ UNCHANGED <<ask, disturbed>> /\ Invalidate(r, keys)
      BY <1>2, <2>1
    <3> HIDE DEF keys
    <3> QED
      BY <1>1, <1>3, <3>1, <3>2, <3>3, InvalidateFits
  <2>2. ASSUME catalogReply[r].status \in {400, 500}, UNCHANGED <<toDelete, disturbed>>,
               Throw(r, "Unexpected")
        PROVE  <1>5!:
    <3>1. r \in disturbed' \/ catalogReply'[r].status = 400 \/ catalogBody'[r].unstorable = 0
      BY <1>1, <1>2, <1>3, <2>2 DEF KeylessRequest, catalogVars
    <3>2. catalogAt'[r] # "idle"
      BY <1>2, <1>3 DEF catalogVars
    <3> QED
      BY <1>1, <1>2, <1>3, <2>2, <3>1, <3>2, ThrowFits DEF MeError
  <2>3. ASSUME Fails(r, "network"), UNCHANGED toDelete PROVE <1>5!:
    BY <1>1, <1>2, <2>3, ThrowFits DEF Fails, Fault, MeError
  <2> QED
    BY <1>4, <2>1, <2>2, <2>3, OrdersApiErrors DEF CreateEventReturns
<1> QED
  BY <1>1, <1>2, <1>5, ResolverInv DEF OwnTypeOK, orderVars, cacheVars

LEMMA CreateOrderReturnsInv ==
    ASSUME GatewayInv, NEW r \in Request, CreateOrderReturns(r)
    PROVE  GatewayInv'
<1>1. OwnTypeOK /\ CallFits(r) /\ AnswerFits(r) /\ OrderFits(r)
  BY DEF GatewayInv, GatewayRequest
<1>2. /\ gatewayAt[r] = "createOrder"
      /\ UNCHANGED <<ask, me, listing, cacheVars, orderVars, accountsVars, catalogVars, clientVars>>
  BY DEF CreateOrderReturns
<1>3. /\ ask[r].op = "createOrder" /\ me[r] \in User /\ catalogAt[r] = "idle"
      /\ ask[r].arg \in Request
  BY <1>1, <1>2 DEF CallFits
<1>4. orderStatus[r] \in {0, 201, 400, 403, 404, 409, 500}
  BY <1>1 DEF OwnTypeOK
<1>5. /\ ResolverGoes(r) /\ CallFits(r)' /\ AnswerFits(r)' /\ gatewayAt'[r] # "await"
      /\ toDelete' \in [Request -> Seq(CacheKey)]
      /\ \A s \in Request \ {r} : toDelete'[s] = toDelete[s]
  <2> DEFINE keys == <<EventCacheKey(ask[r].arg), AllKey, ListKey(me[r])>>
  <2>1. ASSUME orderStatus[r] = 201, UNCHANGED disturbed, Invalidate(r, keys) PROVE <1>5!:
    <3>1. keys \in Seq(CacheKey) /\ keys # <<>>
      BY <1>3, GatewayAssumption DEF CacheKey
    <3>2. r \in DOMAIN orders'
      BY <1>1, <1>2, <2>1 DEF OrderFits, orderVars
    <3>3. gatewayAt[r] # "answered" /\ UNCHANGED <<ask, disturbed>> /\ Invalidate(r, keys)
      BY <1>2, <2>1
    <3> HIDE DEF keys
    <3> QED
      BY <1>1, <1>3, <3>1, <3>2, <3>3, InvalidateFits
  <2>2. ASSUME orderStatus[r] \in {400, 403, 404, 409, 500}, UNCHANGED <<toDelete, disturbed>>,
               Throw(r, OrdersApiError("createOrder", orderStatus[r]))
        PROVE  <1>5!:
    <3> DEFINE error == OrdersApiError("createOrder", orderStatus[r])
    <3>1. /\ error \in {"Unexpected", "NotFound", "Conflict"}
          /\ error = "Unexpected" => orderStatus[r] \in {400, 403, 500}
          /\ error # "Unexpected" => orderStatus[r] \in {404, 409}
      BY <2>2, OrdersApiErrors
    <3>2. /\ orderStatus[r] = 400 => ask[r].body # "valid"
          /\ orderStatus[r] = 403 => me'[r] \in Staff
          /\ orderStatus[r] = 500 => r \in disturbed' \/ ask[r].body # "valid"
          /\ orderStatus[r] \in {404, 409} =>
                catalogAt'[r] = "idle" /\ r \notin DOMAIN orders' /\ orderStatus'[r] # 0
      BY <1>1, <1>2, <1>3, <2>2 DEF OrderFits, orderVars, catalogVars
    <3>3. Throw(r, error) /\ UNCHANGED <<ask, toDelete>> /\ UNCHANGED disturbed
      BY <1>2, <2>2
    <3> HIDE DEF error
    <3> QED
      BY <1>1, <1>3, <3>1, <3>2, <3>3, ThrowFits DEF MeError
  <2>3. ASSUME Fails(r, "network"), UNCHANGED toDelete PROVE <1>5!:
    BY <1>1, <1>2, <2>3, ThrowFits DEF Fails, Fault, MeError
  <2> QED
    BY <1>4, <2>1, <2>2, <2>3 DEF CreateOrderReturns
<1> QED
  BY <1>1, <1>2, <1>5, ResolverInv DEF OwnTypeOK, orderVars, cacheVars

LEMMA PayOrderInv ==
    ASSUME GatewayInv, NEW r \in Request, PayOrder(r)
    PROVE  GatewayInv'
<1> DEFINE o == ask[r].arg
<1>1. OwnTypeOK /\ CallFits(r) /\ AnswerFits(r) /\ OrderFits(r)
  BY DEF GatewayInv, GatewayRequest
<1>2. /\ gatewayAt[r] = "payOrder"
      /\ UNCHANGED <<ask, me, listing, toDelete, cacheVars, orderStatus, accountsVars,
                     catalogVars, clientVars>>
  BY DEF PayOrder
<1>3. ask[r].op = "payOrder" /\ IdleServices(r) /\ r \notin DOMAIN orders
  BY <1>1, <1>2 DEF CallFits, IdleServices, OrderFits
<1>4. \/ o \notin DOMAIN orders /\ Throw(r, "NotFound") /\ UNCHANGED <<orders, disturbed>>
      \/ PaidFor(r) /\ Throw(r, "Unexpected") /\ UNCHANGED <<orders, disturbed>>
      \/ o \in DOMAIN orders /\ MarkPaid(o) /\ Answer(r, "OK") /\ UNCHANGED disturbed
      \/ /\ Throw(r, "Other") /\ disturbed' = disturbed \cup {r}
         /\ UNCHANGED orders \/ (o \in DOMAIN orders /\ MarkPaid(o))
  BY OrdersApiErrors DEF PayOrder, PaidFor, Fails, Fault
<1>5. UNCHANGED orders \/ \E p \in DOMAIN orders : MarkPaid(p)
  BY <1>4
<1>6. r \notin DOMAIN orders' /\ catalogAt'[r] = "idle" /\ clientAt'[r] = "idle"
  BY <1>2, <1>3, <1>5 DEF MarkPaid, IdleServices, catalogVars, clientVars
<1>7. ResolverGoes(r) /\ CallFits(r)' /\ AnswerFits(r)' /\ gatewayAt'[r] # "await"
  <2>1. ASSUME Throw(r, "NotFound"), UNCHANGED disturbed PROVE <1>7!:
    BY <1>1, <1>2, <1>6, <2>1, ThrowFits DEF MeError
  <2>2. ASSUME Throw(r, "Unexpected"), UNCHANGED <<orders, disturbed>>, PaidFor(r) PROVE <1>7!:
    <3>1. PaidFor(r)'
      BY <1>2, <2>2 DEF PaidFor
    <3> QED
      BY <1>1, <1>2, <1>3, <2>2, <3>1, ThrowFits DEF MeError
  <2>3. ASSUME o \in DOMAIN orders, MarkPaid(o), Answer(r, "OK"), UNCHANGED disturbed
        PROVE  <1>7!:
    <3>1. PaidFor(r)'
      BY <1>2, <2>3 DEF PaidFor, MarkPaid
    <3>2. gatewayAt'[r] = "answered" /\ code'[r] = "OK"
      BY <1>1, <2>3 DEF OwnTypeOK, Answer
    <3> QED
      BY <1>1, <1>2, <1>3, <2>3, <3>1, <3>2 DEF CallFits, AnswerFits, ResolverGoes
  <2>4. ASSUME Throw(r, "Other"), disturbed' = disturbed \cup {r} PROVE <1>7!:
    BY <1>1, <1>2, <2>4, ThrowFits DEF MeError
  <2> QED
    BY <1>4, <2>1, <2>2, <2>3, <2>4
<1> QED
  BY <1>1, <1>2, <1>5, <1>7, ResolverInv DEF OwnTypeOK, cacheVars

LEMMA DeleteCachedInv ==
    ASSUME GatewayInv, NEW r \in Request, DeleteCached(r)
    PROVE  GatewayInv'
<1>1. OwnTypeOK /\ CallFits(r) /\ AnswerFits(r)
  BY DEF GatewayInv, GatewayRequest
<1>2. /\ gatewayAt[r] = "delete"
      /\ UNCHANGED <<ask, me, listing, outdated, orderVars, accountsVars, catalogVars, clientVars>>
  BY DEF DeleteCached
<1>3. /\ toDelete[r] \in Seq(CacheKey) /\ toDelete[r] # <<>>
      /\ \/ ask[r].op = "createEvent" /\ ticketTypes[r] = TicketTypes
         \/ ask[r].op = "createOrder" /\ r \in DOMAIN orders
  BY <1>1, <1>2 DEF OwnTypeOK, CallFits
<1>4. UNCHANGED cache \/ DropEntry(r)
  BY DEF DeleteCached
<1>5. cache' \in [CacheKey -> (SUBSET Request) \cup {NotCached}]
  <2>1. CASE UNCHANGED cache
    BY <1>1, <2>1 DEF OwnTypeOK
  <2>2. CASE DropEntry(r)
    BY <1>1, <2>2 DEF OwnTypeOK, DropEntry
  <2> QED
    BY <1>4, <2>1, <2>2
<1>6. /\ ResolverGoes(r) /\ CallFits(r)' /\ AnswerFits(r)' /\ gatewayAt'[r] # "await"
      /\ toDelete' \in [Request -> Seq(CacheKey)]
      /\ \A s \in Request \ {r} : toDelete'[s] = toDelete[s]
  <2>1. ASSUME toDelete' = [toDelete EXCEPT ![r] = Tail(@)], UNCHANGED disturbed,
               IF Len(toDelete[r]) = 1 THEN Answer(r, "OK") ELSE UNCHANGED <<gatewayAt, code>>
        PROVE  <1>6!:
    <3>1. Tail(toDelete[r]) \in Seq(CacheKey)
          /\ (Len(toDelete[r]) # 1 => Tail(toDelete[r]) # <<>>)
      <4>1. /\ Tail(toDelete[r]) \in Seq(CacheKey)
            /\ Len(Tail(toDelete[r])) = Len(toDelete[r]) - 1
            /\ Len(toDelete[r]) \in Nat
        BY <1>3, HeadTailProperties
      <4>2. ASSUME NEW t, t = <<>> PROVE Len(t) = 0
        BY <4>2
      <4>3. Len(Tail(toDelete[r])) = 0 => Len(toDelete[r]) = 1
        BY <4>1
      <4> QED
        BY <4>1, <4>2, <4>3, Zenon
    <3>2. /\ toDelete' \in [Request -> Seq(CacheKey)] /\ toDelete'[r] = Tail(toDelete[r])
          /\ \A s \in Request \ {r} : toDelete'[s] = toDelete[s]
      BY <1>1, <2>1, <3>1 DEF OwnTypeOK
    <3>3. \/ gatewayAt'[r] = "answered" /\ code'[r] = "OK"
          \/ /\ gatewayAt'[r] = "delete" /\ code'[r] = "none"
             /\ Len(toDelete[r]) # 1
      BY <1>1, <1>2, <2>1 DEF OwnTypeOK, Answer, AnswerFits
    <3>4. CallFits(r)' /\ AnswerFits(r)'
      BY <1>1, <1>2, <1>3, <3>1, <3>2, <3>3
      DEF CallFits, AnswerFits, catalogVars, orderVars
    <3>5. ResolverGoes(r)
      BY <2>1 DEF ResolverGoes
    <3> QED
      BY <3>2, <3>3, <3>4, <3>5
  <2>2. ASSUME Fails(r, "redis"), UNCHANGED toDelete PROVE <1>6!:
    BY <1>1, <1>2, <2>2, ThrowFits DEF Fails, Fault, MeError
  <2> QED
    BY <2>1, <2>2 DEF DeleteCached
<1> QED
  BY <1>1, <1>2, <1>5, <1>6, ResolverInv DEF OwnTypeOK, orderVars

\* The resolver goes on to a service, whose variables for r change with it.
LEMMA CallsServiceInv ==
    ASSUME GatewayInv, NEW r \in Request, gatewayAt[r] = "await", me[r] \in User,
           UNCHANGED <<ask, me, listing, toDelete, cacheVars, orders, accountsVars>>,
           \/ /\ ask[r].op = "createEvent" /\ Await(r, "createEvent")
              /\ UNCHANGED <<orderStatus, clientVars>>
              /\ \E body \in CreateEventRequest : body.key = NoKey /\ CreateEvent(r, body)
           \/ /\ ask[r].op = "createOrder" /\ Await(r, "createOrder") /\ UNCHANGED catalogVars
              /\ PostOrder(r, ask[r].body)
    PROVE  GatewayInv'
<1>1. OwnTypeOK /\ GatewayRequest(r) /\ CatalogTypeOK /\ ClientTypeOK
      /\ IdleServices(r) /\ code[r] = "none" /\ CatalogRequest(r)
  BY DEF GatewayInv, CatalogInv, ClientInv, GatewayRequest, CallFits, AnswerFits
<1>2. ServicesStep /\ OrdersGrow
  BY PostOrderServices
  DEF CreateEvent, ServicesStep, DisturbedGrows, AccountsRest, CatalogRest, CatalogMove,
      ClientMove, OrdersGrow
<1>3. /\ disturbed' \in SUBSET Request
      /\ gatewayAt' \in [Request -> {"new", "rest", "await", "get", "fetch", "set",
               "createEvent", "createOrder", "payOrder", "delete", "answered", "lost"}]
      /\ UNCHANGED code
      /\ \A s \in Request \ {r} : gatewayAt'[s] = gatewayAt[s]
  <2>1. disturbed' = disturbed \/ disturbed' = disturbed \cup {r}
    BY PostOrderServices DEF CreateEvent
  <2>2. ASSUME NEW call \in {"createEvent", "createOrder"}, Await(r, call)
        PROVE  /\ gatewayAt' \in [Request -> {"new", "rest", "await", "get", "fetch", "set",
                     "createEvent", "createOrder", "payOrder", "delete", "answered", "lost"}]
               /\ UNCHANGED code
               /\ \A s \in Request \ {r} : gatewayAt'[s] = gatewayAt[s]
    BY <1>1, <2>2 DEF OwnTypeOK, Await
  <2>3. disturbed' \in SUBSET Request
    BY <1>1, <2>1 DEF OwnTypeOK
  <2> QED
    BY <2>2, <2>3
<1>4. /\ orderStatus' \in [Request -> {0, 201, 400, 403, 404, 409, 500}]
      /\ \A s \in Request \ {r} : orderStatus'[s] = orderStatus[s]
  BY <1>1, OrdersStatuses DEF OwnTypeOK, PostOrder, Respond
<1>5. \A s \in Request \ {r} :
         /\ catalogAt'[s] = catalogAt[s] /\ catalogBody'[s] = catalogBody[s]
         /\ catalogReply'[s] = catalogReply[s] /\ ticketTypes'[s] = ticketTypes[s]
         /\ clientAt'[s] = clientAt[s]
  BY <1>1, PostOrderServices
  DEF CreateEvent, CatalogThrow, CatalogAnswer, CatalogGo, GetUserById, ClientGo, CatalogTypeOK,
      ClientTypeOK, catalogVars, clientVars
<1>6. \A s \in Request \ {r} : SameRequest(s) /\ (s \in DOMAIN orders' => s \in DOMAIN orders)
  BY <1>1, <1>3, <1>4, <1>5 DEF SameRequest, accountsVars
<1>7. GatewayRequest(r)'
  <2>1. code'[r] = "none" /\ gatewayAt'[r] \in {"createEvent", "createOrder"}
        /\ gatewayAt'[r] = ask[r].op
    BY <1>1 DEF OwnTypeOK, Await
  <2>2. CallFits(r)'
    <3>1. CASE ask[r].op = "createEvent"
      <4>1. catalogAt'[r] # "idle" /\ catalogBody'[r].key = NoKey /\ clientAt'[r] = "idle"
        BY <1>1, <3>1
        DEF CreateEvent, CatalogThrow, CatalogAnswer, CatalogGo, CatalogTypeOK, IdleServices,
            clientVars
      <4> QED
        BY <2>1, <3>1, <4>1 DEF CallFits
    <3>2. CASE ask[r].op = "createOrder"
      <4>1. catalogAt'[r] = "idle"
        BY <1>1, <3>2 DEF IdleServices, catalogVars
      <4> QED
        BY <1>1, <2>1, <3>2, <4>1 DEF GatewayRequest, CallFits
    <3> QED
      BY <3>1, <3>2
  <2>3. UserFits(r)'
    BY <1>1, <2>1 DEF GatewayRequest, UserFits, HasToken, accountsVars
  <2>4. \/ clientAt'[r] \in {"idle", "call"} /\ orderStatus'[r] = 0
        \/ /\ clientAt'[r] = "idle" /\ orderStatus'[r] \in {400, 409, 500}
           /\ orderStatus'[r] = 400 => ask[r].body # "valid"
           /\ orderStatus'[r] = 500 => r \in disturbed'
    BY <1>1, OrdersStatuses
    DEF PostOrder, Respond, Fault, GetUserById, ClientGo, ClientTypeOK, IdleServices, clientVars,
        OwnTypeOK
  <2>5. r \notin DOMAIN orders
    BY <1>1 DEF GatewayRequest, OrderFits, IdleServices
  <2>6. OrderFits(r)'
    BY <2>4, <2>5 DEF OrderFits
  <2>7. AnswerFits(r)'
    BY <2>1 DEF AnswerFits
  <2> QED
    BY <2>2, <2>3, <2>6, <2>7 DEF GatewayRequest
<1>8. OwnTypeOK'
  BY <1>1, <1>3, <1>4 DEF OwnTypeOK, cacheVars
<1> QED
  BY <1>2, <1>6, <1>7, <1>8, OneMoves

LEMMA AwaitUserInv ==
    ASSUME GatewayInv, NEW r \in Request, AwaitUser(r)
    PROVE  GatewayInv'
<1>1. OwnTypeOK /\ CallFits(r) /\ AnswerFits(r) /\ UserFits(r) /\ OrderFits(r)
  BY DEF GatewayInv, GatewayRequest
<1>2. /\ gatewayAt[r] = "await" /\ me[r] # Pending
      /\ UNCHANGED <<ask, me, listing, toDelete, cacheVars, orders, accountsVars>>
  BY DEF AwaitUser
<1>3. /\ ask[r].op \in AwaitsUser /\ IdleServices(r)
      /\ r \notin DOMAIN orders
  BY <1>1, <1>2 DEF CallFits, OrderFits, IdleServices
<1>4. ASSUME UNCHANGED <<orderStatus, catalogVars, clientVars>>,
             ResolverGoes(r) /\ CallFits(r)' /\ AnswerFits(r)' /\ gatewayAt'[r] # "await"
      PROVE  GatewayInv'
  <2>1. /\ listing' \in [Request -> SUBSET Request]
        /\ toDelete' \in [Request -> Seq(CacheKey)]
        /\ \A s \in Request \ {r} : toDelete'[s] = toDelete[s]
        /\ cache' \in [CacheKey -> (SUBSET Request) \cup {NotCached}]
        /\ outdated' \in SUBSET Request
    BY <1>1, <1>2 DEF OwnTypeOK, cacheVars
  <2> QED
    BY <1>2, <1>4, <2>1, ResolverInv
<1>5. ASSUME me[r] \in Error, Throw(r, me[r]),
             UNCHANGED <<orderStatus, catalogVars, clientVars, disturbed>>
      PROVE  GatewayInv'
  <2>1. me[r] \in MeError
    <3>1. me[r] \in User \cup {Unauthenticated, Pending} \cup MeError
      BY <1>1 DEF OwnTypeOK
    <3>2. me[r] \notin User
      BY <1>5, GatewayAssumption
    <3>3. me[r] \notin {Unauthenticated, Pending}
      BY <1>5 DEF Error, Unauthenticated, Pending
    <3> QED
      BY <3>1, <3>2, <3>3
  <2>2. me[r] \in {"Unexpected", "Other"} => r \in disturbed
    BY <1>1, <1>2 DEF UserFits
  <2>3. catalogAt'[r] = "idle" /\ r \notin DOMAIN orders' /\ clientAt'[r] = "idle"
    BY <1>2, <1>3, <1>5 DEF IdleServices, catalogVars, clientVars
  <2>4. ResolverGoes(r) /\ CallFits(r)' /\ AnswerFits(r)' /\ gatewayAt'[r] # "await"
    BY <1>1, <1>2, <1>5, <2>1, <2>2, <2>3, ThrowFits
  <2> QED
    BY <1>4, <1>5, <2>4
<1>6. ASSUME ask[r].op = "me", Answer(r, "OK"),
             UNCHANGED <<orderStatus, catalogVars, clientVars, disturbed>>
      PROVE  GatewayInv'
  <2>1. gatewayAt'[r] = "answered"
    BY <1>1, <1>6 DEF OwnTypeOK, Answer
  <2>2. CallFits(r)' /\ AnswerFits(r)'
    BY <1>1, <1>2, <1>6, AnsweredFits DEF Mutation
  <2>3. ResolverGoes(r)
    BY <1>6 DEF ResolverGoes
  <2> QED
    BY <1>4, <1>6, <2>1, <2>2, <2>3
<1>7. ASSUME Throw(r, "Unauthorized"), UNCHANGED <<orderStatus, catalogVars, clientVars, disturbed>>
      PROVE  GatewayInv'
  <2>1. catalogAt'[r] = "idle" /\ r \notin DOMAIN orders' /\ clientAt'[r] = "idle"
    BY <1>2, <1>3, <1>7 DEF IdleServices, catalogVars, clientVars
  <2>2. ResolverGoes(r) /\ CallFits(r)' /\ AnswerFits(r)' /\ gatewayAt'[r] # "await"
    BY <1>1, <1>2, <1>7, <2>1, ThrowFits DEF MeError
  <2> QED
    BY <1>4, <1>7, <2>2
<1>8. ASSUME me[r] \in User,
             \/ /\ ask[r].op = "createEvent" /\ Await(r, "createEvent")
                /\ UNCHANGED <<orderStatus, clientVars>>
                /\ \E body \in CreateEventRequest : body.key = NoKey /\ CreateEvent(r, body)
             \/ /\ ask[r].op = "createOrder" /\ Await(r, "createOrder") /\ UNCHANGED catalogVars
                /\ PostOrder(r, ask[r].body)
      PROVE  GatewayInv'
  BY <1>2, <1>8, CallsServiceInv
<1>9. \/ /\ me[r] \in Error /\ Throw(r, me[r])
         /\ UNCHANGED <<orderStatus, catalogVars, clientVars, disturbed>>
      \/ /\ ask[r].op = "me" /\ Answer(r, "OK")
         /\ UNCHANGED <<orderStatus, catalogVars, clientVars, disturbed>>
      \/ Throw(r, "Unauthorized") /\ UNCHANGED <<orderStatus, catalogVars, clientVars, disturbed>>
      \/ /\ me[r] \in User
         /\ \/ /\ ask[r].op = "createEvent" /\ Await(r, "createEvent")
               /\ UNCHANGED <<orderStatus, clientVars>>
               /\ \E body \in CreateEventRequest : body.key = NoKey /\ CreateEvent(r, body)
            \/ /\ ask[r].op = "createOrder" /\ Await(r, "createOrder") /\ UNCHANGED catalogVars
               /\ PostOrder(r, ask[r].body)
  BY DEF AwaitUser
<1> QED
  BY <1>5, <1>6, <1>7, <1>8, <1>9

LEMMA ReceiveInv ==
    ASSUME GatewayInv, NEW r \in Request, Receive(r)
    PROVE  GatewayInv'
<1>1. ServicesStep
  BY ReceiveServices
<1>2. /\ OwnTypeOK /\ GatewayRequest(r) /\ gatewayAt[r] = "new" /\ me[r] = Unauthenticated
      /\ IdleServices(r) /\ code[r] = "none" /\ AccountsTypeOK
  BY DEF GatewayInv, AccountsInv, Receive, GatewayRequest, CallFits, AnswerFits
<1>3. UNCHANGED <<listing, toDelete, cacheVars, orderVars, catalogVars, clientVars, users,
                  disturbed>>
  BY DEF Receive, Me, Ask, accountsVars
<1>4. PICK op \in OpsOf[r] \ Rest, token \in TokensOf[r] \cap Sendable :
         /\ \E arg \in Arguments(op), body \in Bodies(op) :
               ask' = [ask EXCEPT ![r] = [op |-> op, token |-> token, arg |-> arg, body |-> body]]
         /\ IF op = Malformed
            THEN Answer(r, "GRAPHQL_VALIDATION_FAILED") ELSE Await(r, FirstCall(op))
         /\ IF token = Unauthenticated
            THEN UNCHANGED <<me, accountsVars, disturbed>>
            ELSE me' = [me EXCEPT ![r] = Pending] /\ Me(r, token)
  BY DEF Receive
<1>5. op \in Query \cup Mutation \cup {Malformed}
  BY GatewayAssumption DEF Op
<1>6. /\ \A s \in Request \ {r} : gatewayAt'[s] = gatewayAt[s] /\ code'[s] = code[s]
      /\ gatewayAt'[r] \in {"await", "get", "fetch", "payOrder", "answered"}
      /\ gatewayAt'[r] = "await" => op \in AwaitsUser
      /\ gatewayAt'[r] = "get" => op \in Cached
      /\ gatewayAt'[r] = "fetch" => op = "ordersByCustomer"
      /\ gatewayAt'[r] = "payOrder" => op = "payOrder"
      /\ code'[r] \in {"none", "GRAPHQL_VALIDATION_FAILED"}
      /\ gatewayAt'[r] # "answered" => code'[r] = "none"
      /\ gatewayAt' \in [Request -> {"new", "rest", "await", "get", "fetch", "set", "createEvent",
                                     "createOrder", "payOrder", "delete", "answered", "lost"}]
      /\ code' \in [Request -> {"none", "OK", "UNAUTHENTICATED", "NOT_FOUND", "CONFLICT",
                                "INTERNAL_SERVER_ERROR", "GRAPHQL_VALIDATION_FAILED"}]
  <2>1. CASE op = Malformed
    <3>1. Answer(r, "GRAPHQL_VALIDATION_FAILED")
      BY <1>4, <2>1
    <3>2. gatewayAt'[r] = "answered" /\ code'[r] = "GRAPHQL_VALIDATION_FAILED"
      BY <1>2, <3>1 DEF OwnTypeOK, Answer
    <3> QED
      BY <1>2, <3>1, <3>2 DEF OwnTypeOK, Answer
  <2>2. CASE op # Malformed
    <3>1. Await(r, FirstCall(op)) /\ op \in Query \cup Mutation
      BY <1>4, <1>5, <2>2
    <3>2. /\ FirstCall(op) \in {"await", "get", "fetch", "payOrder"}
          /\ FirstCall(op) = "await" => op \in AwaitsUser
          /\ FirstCall(op) = "get" => op \in Cached
          /\ FirstCall(op) = "fetch" => op = "ordersByCustomer"
          /\ FirstCall(op) = "payOrder" => op = "payOrder"
      BY <3>1 DEF FirstCall, AwaitsUser, Query, Mutation, Cached
    <3>3. gatewayAt'[r] = FirstCall(op) /\ code'[r] = "none"
      BY <1>2, <3>1 DEF OwnTypeOK, Await
    <3> QED
      BY <1>2, <3>1, <3>2, <3>3 DEF OwnTypeOK, Await
  <2> QED
    BY <2>1, <2>2
<1>7. /\ ask'[r].op = op /\ DOMAIN ask' = Request
      /\ op = "createOrder" => ask'[r].arg \in Request
      /\ \A s \in Request \ {r} : ask'[s] = ask[s]
  <2>1. PICK arg \in Arguments(op), body \in Bodies(op) :
           ask' = [ask EXCEPT ![r] = [op |-> op, token |-> token, arg |-> arg, body |-> body]]
    BY <1>4
  <2>2. op = "createOrder" => arg \in Request
    BY DEF Arguments
  <2> QED
    BY <1>2, <2>1, <2>2 DEF OwnTypeOK
<1>8. /\ me' \in [Request -> User \cup {Unauthenticated, Pending} \cup MeError]
      /\ \A s \in Request \ {r} : me'[s] = me[s] /\ accountsBody'[s] = accountsBody[s]
      /\ me'[r] \in {Unauthenticated, Pending}
      /\ me'[r] = Pending => HasToken(r)'
  <2>1. CASE token = Unauthenticated
    <3>1. me' = me /\ accountsBody' = accountsBody
      BY <1>4, <2>1 DEF accountsVars
    <3>2. Unauthenticated # Pending
      BY DEF Unauthenticated, Pending
    <3> QED
      BY <1>2, <3>1, <3>2 DEF OwnTypeOK
  <2>2. CASE token # Unauthenticated
    <3>1. /\ me' = [me EXCEPT ![r] = Pending]
          /\ accountsBody' = [accountsBody EXCEPT ![r] = [token |-> token]]
      BY <1>4, <2>2 DEF Me, Ask
    <3>2. token \in User \cup {Nobody}
      BY <2>2, TokensAreUsers
    <3> QED
      BY <1>2, <3>1, <3>2 DEF OwnTypeOK, AccountsTypeOK, HasToken
  <2> QED
    BY <2>1, <2>2
<1>9. GatewayRequest(r)'
  <2>1. CallFits(r)'
    BY <1>2, <1>3, <1>6, <1>7 DEF CallFits, IdleServices, catalogVars, clientVars, orderVars
  <2>2. UserFits(r)'
    BY <1>5, <1>6, <1>7, <1>8, UsersDiffer
    DEF UserFits, Op, Unauthenticated, Pending
  <2>3. /\ catalogAt'[r] = "idle" /\ clientAt'[r] = "idle"
        /\ orderStatus'[r] = 0 /\ r \notin DOMAIN orders'
    BY <1>2, <1>3 DEF GatewayRequest, OrderFits, IdleServices, catalogVars, clientVars, orderVars
  <2>4. OrderFits(r)' /\ AnswerFits(r)'
    BY <1>6, <2>3 DEF OrderFits, AnswerFits
  <2> QED
    BY <2>1, <2>2, <2>4 DEF GatewayRequest
<1>10. \A s \in Request \ {r} : SameRequest(s) /\ (s \in DOMAIN orders' => s \in DOMAIN orders)
  BY <1>2, <1>3, <1>6, <1>7, <1>8
  DEF OwnTypeOK, SameRequest, catalogVars, clientVars, orderVars
<1>11. OwnTypeOK'
  BY <1>2, <1>3, <1>6, <1>7, <1>8 DEF OwnTypeOK, cacheVars, orderVars
<1>12. OrdersGrow
  BY <1>3 DEF OrdersGrow, orderVars
<1> QED
  BY <1>1, <1>9, <1>10, <1>11, <1>12, OneMoves

LEMMA RestRequestInv ==
    ASSUME GatewayInv, NEW r \in Request, RestRequest(r)
    PROVE  GatewayInv'
<1>1. ServicesStep
  BY RestRequestServices
<1>2. /\ OwnTypeOK /\ GatewayRequest(r) /\ gatewayAt[r] = "new" /\ me[r] = Unauthenticated
      /\ IdleServices(r) /\ code[r] = "none"
      /\ AccountsTypeOK /\ CatalogTypeOK /\ ClientTypeOK
  BY DEF GatewayInv, AccountsInv, CatalogInv, ClientInv, RestRequest, GatewayRequest, CallFits,
         AnswerFits
<1>3. /\ UNCHANGED <<me, listing, toDelete, code, cacheVars, orders>>
      /\ gatewayAt' = [gatewayAt EXCEPT ![r] = "rest"]
      /\ UNCHANGED orderStatus \/ \E body \in OrderBody : PostOrder(r, body)
      /\ disturbed' = disturbed \/ disturbed' = disturbed \cup {r}
  BY PostOrderServices DEF RestRequest, Signup, Login, Ask, CreateEvent
<1>4. UNCHANGED ask \/ \E customer \in LoggedIn \cup {Removed}, e \in Request, body \in OrderBody :
         ask' = [ask EXCEPT ![r] = [op |-> "postOrder", token |-> customer, arg |-> e,
                                    body |-> body]]
  BY DEF RestRequest
<1>5. /\ DOMAIN ask' = Request /\ (\A s \in Request \ {r} : ask'[s] = ask[s])
      /\ ask'[r] = ask[r] \/ ask'[r].op = "postOrder"
  <2>1. CASE UNCHANGED ask
    BY <1>2, <2>1 DEF OwnTypeOK
  <2>2. ASSUME NEW ticket, ask' = [ask EXCEPT ![r] = ticket], ticket.op = "postOrder"
        PROVE  <1>5!:
    BY <1>2, <2>2 DEF OwnTypeOK
  <2> QED
    BY <1>4, <2>1, <2>2
<1>6. \A s \in Request \ {r} :
         /\ catalogAt'[s] = catalogAt[s] /\ catalogBody'[s] = catalogBody[s]
         /\ catalogReply'[s] = catalogReply[s] /\ ticketTypes'[s] = ticketTypes[s]
         /\ clientAt'[s] = clientAt[s] /\ accountsBody'[s] = accountsBody[s]
  <2>1. \/ accountsVars' = accountsVars
        \/ \E body : accountsBody' = [accountsBody EXCEPT ![r] = body]
    BY DEF RestRequest, Signup, Login, Ask
  <2>2. \/ catalogVars' = catalogVars
        \/ \E body \in CreateEventRequest : CreateEvent(r, body)
    BY DEF RestRequest
  <2>3. clientVars' = clientVars \/ GetUserById(r)
    BY PostOrderServices DEF RestRequest
  <2>4. \A s \in Request \ {r} : accountsBody'[s] = accountsBody[s]
    BY <1>2, <2>1 DEF AccountsTypeOK, accountsVars
  <2>5. \A s \in Request \ {r} : clientAt'[s] = clientAt[s]
    BY <1>2, <2>3 DEF ClientTypeOK, GetUserById, ClientGo, clientVars
  <2>6. \A s \in Request \ {r} :
           /\ catalogAt'[s] = catalogAt[s] /\ catalogBody'[s] = catalogBody[s]
           /\ catalogReply'[s] = catalogReply[s] /\ ticketTypes'[s] = ticketTypes[s]
    BY <1>2, <2>2
    DEF CatalogTypeOK, CreateEvent, CatalogThrow, CatalogAnswer, CatalogGo, catalogVars
  <2> QED
    BY <2>4, <2>5, <2>6
<1>7. /\ orderStatus' \in [Request -> {0, 201, 400, 403, 404, 409, 500}]
      /\ \A s \in Request \ {r} : orderStatus'[s] = orderStatus[s]
      /\ orderStatus'[r] # 0 => clientAt'[r] = "idle"
  <2>1. CASE UNCHANGED orderStatus
    BY <1>2, <2>1 DEF OwnTypeOK, IdleServices
  <2>2. ASSUME NEW body \in OrderBody, PostOrder(r, body) PROVE <1>7!:
    <3>1. \/ UNCHANGED orderStatus
          \/ /\ UNCHANGED clientVars
             /\ \E status \in {400, 409, 500} : Respond(r, status)
      BY <2>2, OrdersStatuses DEF PostOrder
    <3>2. ASSUME UNCHANGED clientVars, NEW status \in {400, 409, 500}, Respond(r, status)
          PROVE  <1>7!:
      BY <1>2, <3>2 DEF OwnTypeOK, Respond, IdleServices, clientVars
    <3> QED
      BY <2>1, <3>1, <3>2
  <2> QED
    BY <1>3, <2>1, <2>2
<1>8. \A s \in Request \ {r} : SameRequest(s) /\ (s \in DOMAIN orders' => s \in DOMAIN orders)
  BY <1>2, <1>3, <1>5, <1>6, <1>7 DEF OwnTypeOK, SameRequest
<1>9. GatewayRequest(r)'
  <2>1. gatewayAt'[r] = "rest" /\ code'[r] = "none" /\ me'[r] = Unauthenticated
    BY <1>2, <1>3 DEF OwnTypeOK
  <2>2. CallFits(r)'
    BY <1>2, <1>5, <2>1 DEF GatewayRequest, CallFits
  <2>3. UserFits(r)'
    BY <2>1, UsersDiffer DEF UserFits, Unauthenticated, Pending
  <2>4. r \notin DOMAIN orders'
    BY <1>2, <1>3 DEF GatewayRequest, OrderFits, IdleServices
  <2>5. OrderFits(r)' /\ AnswerFits(r)'
    BY <1>7, <2>1, <2>4 DEF OrderFits, AnswerFits
  <2> QED
    BY <2>2, <2>3, <2>5 DEF GatewayRequest
<1>10. OwnTypeOK'
  <2>1. /\ gatewayAt' \in [Request -> {"new", "rest", "await", "get", "fetch", "set", "createEvent",
                                       "createOrder", "payOrder", "delete", "answered", "lost"}]
        /\ disturbed' \in SUBSET Request
    BY <1>2, <1>3 DEF OwnTypeOK
  <2> QED
    BY <1>2, <1>3, <1>5, <1>7, <2>1 DEF OwnTypeOK, cacheVars
<1>11. OrdersGrow
  BY <1>3 DEF OrdersGrow
<1> QED
  BY <1>1, <1>8, <1>9, <1>10, <1>11, OneMoves

(***************************************************************************)
(* The promise of the user settles.  When nobody awaits its rejection the  *)
(* process dies: requests under way are lost, and no promise is pending.   *)
(***************************************************************************)
LEMMA ProcessDiesInv ==
    ASSUME GatewayInv, NEW r \in Request, me[r] = Pending, ask[r].op \notin AwaitsUser,
           ProcessDies,
           UNCHANGED <<ask, listing, toDelete, code, cacheVars, orderVars, catalogVars,
                       accountsVars, clientVars>>,
           disturbed' = disturbed \/ disturbed' = disturbed \cup {r}
    PROVE  GatewayInv'
<1>1. OwnTypeOK
  BY DEF GatewayInv
<1>2. ServicesStep /\ TablesGrow
  BY DEF ServicesStep, TablesGrow, DisturbedGrows, OrdersGrow, AccountsRest, CatalogRest,
         accountsVars, orderVars
<1>3. (AccountsInv /\ CatalogInv /\ ClientInv /\ \A s \in Request : KeylessRequest(s))'
  BY <1>2, AccountsPreserved, CatalogPreserved, ClientPreserved, KeylessPreserved
  DEF GatewayInv, ServicesStep
<1>4. \A s \in Request :
         /\ gatewayAt'[s] = IF gatewayAt[s] \in {"new", "rest", "answered", "lost"}
                            THEN gatewayAt[s] ELSE "lost"
         /\ me'[s] = IF me[s] = Pending THEN "Other" ELSE me[s]
  BY DEF ProcessDies
<1>5. ASSUME NEW s \in Request PROVE GatewayRequest(s)'
  <2>1. GatewayRequest(s)
    BY DEF GatewayInv
  <2>2. UNCHANGED <<ask, toDelete, code, orders, orderStatus, catalogAt, catalogBody,
                    catalogReply, ticketTypes, clientAt, users, accountsBody>>
    BY DEF orderVars, catalogVars, clientVars, accountsVars
  <2>3. CallFits(s)'
    BY <1>4, <2>1, <2>2, UsersDiffer
    DEF GatewayRequest, CallFits, IdleServices, Unauthenticated, Pending
  <2>4. me'[s] # Pending /\ (me'[s] \in User => me[s] = me'[s]) /\ gatewayAt'[s] # "await"
    BY <1>4, UsersDiffer DEF MeError, Pending
  <2>5. UserFits(s)'
    BY <2>1, <2>2, <2>4 DEF GatewayRequest, UserFits
  <2>6. me[s] \in User => me'[s] = me[s]
    BY <1>4, UsersDiffer
  <2>7. Staff \subseteq User
    BY GatewayAssumption DEF User
  <2>8. OrderFits(s)'
    BY <1>2, <1>4, <2>1, <2>2, <2>6, <2>7
    DEF GatewayRequest, OrderFits, TablesGrow, DisturbedGrows
  <2>9. AnswerFits(s)'
    BY <1>2, <1>4, <2>1, <2>2, <2>6, <2>7
    DEF GatewayRequest, AnswerFits, PaidFor, TablesGrow, DisturbedGrows
  <2> QED
    BY <2>3, <2>5, <2>8, <2>9 DEF GatewayRequest
<1>6. OwnTypeOK'
  <2>1. gatewayAt' \in [Request -> {"new", "rest", "await", "get", "fetch", "set", "createEvent",
                                  "createOrder", "payOrder", "delete", "answered", "lost"}]
    BY <1>1 DEF OwnTypeOK, ProcessDies
  <2>2. me' \in [Request -> User \cup {Unauthenticated, Pending} \cup MeError]
    BY <1>1 DEF OwnTypeOK, ProcessDies, MeError
  <2>3. disturbed' \in SUBSET Request
    BY <1>1 DEF OwnTypeOK
  <2> QED
    BY <1>1, <2>1, <2>2, <2>3 DEF OwnTypeOK, cacheVars, orderVars
<1> QED
  BY <1>3, <1>5, <1>6 DEF GatewayInv

LEMMA MeReturnsInv ==
    ASSUME GatewayInv, NEW r \in Request, MeReturns(r)
    PROVE  GatewayInv'
<1>1. /\ OwnTypeOK /\ GatewayRequest(r) /\ AccountsRequest(r) /\ AccountsTypeOK
      /\ me[r] = Pending
  BY DEF GatewayInv, AccountsInv, MeReturns
<1>2. /\ UNCHANGED <<ask, listing, toDelete, code, cacheVars, orderVars, catalogVars, accountsVars,
                     clientVars>>
      /\ disturbed' = disturbed \/ disturbed' = disturbed \cup {r}
  BY DEF MeReturns, Fault
<1>3. \E result \in DOMAIN users \cup MeError :
         /\ Settle(r, result)
         /\ result \in {"Unexpected", "Other"} => r \in disturbed'
  <2>1. HasToken(r)
    BY <1>1 DEF GatewayRequest, UserFits
  <2>2. CASE Fault(r, "network") /\ Settle(r, "Other")
    BY <2>2 DEF Fault, MeError
  <2>3. CASE /\ accountsAt[r] = "done" /\ UNCHANGED disturbed
             /\ Settle(r, UserOf(accountsReply[r]))
    <3>1. \/ accountsReply[r].status \in {200, 401, 404}
          \/ accountsReply[r].status = 500 /\ r \in disturbed
      BY <1>1, <2>1, <2>3 DEF AccountsRequest
    <3>2. CASE accountsReply[r].status = 200
      <4>1. accountsReply[r].user \in DOMAIN users
        BY <1>1, <3>2 DEF AccountsRequest
      <4>2. accountsReply[r].user \notin MeError
        BY <1>1, <4>1, UsersDiffer DEF AccountsTypeOK
      <4> QED
        BY <2>3, <3>2, <4>1, <4>2 DEF UserOf, MeError
    <3>3. CASE accountsReply[r].status # 200
      <4>1. /\ AccountsApiError(accountsReply[r].status) \in MeError
            /\ AccountsApiError(accountsReply[r].status) # "Other"
            /\ AccountsApiError(accountsReply[r].status) = "Unexpected" => r \in disturbed
        BY <3>1, <3>3 DEF AccountsApiError, MeError
      <4> QED
        BY <2>3, <3>3, <4>1 DEF UserOf
    <3> QED
      BY <3>2, <3>3
  <2> QED
    BY <2>2, <2>3 DEF MeReturns
<1>4. PICK result \in DOMAIN users \cup MeError :
         /\ Settle(r, result)
         /\ result \in {"Unexpected", "Other"} => r \in disturbed'
  BY <1>3
<1>5. CASE result \in Error /\ ask[r].op \notin AwaitsUser
  BY <1>1, <1>2, <1>4, <1>5, ProcessDiesInv DEF Settle
<1>6. CASE ~(result \in Error /\ ask[r].op \notin AwaitsUser)
  <2>1. me' = [me EXCEPT ![r] = result] /\ UNCHANGED gatewayAt
    BY <1>4, <1>6 DEF Settle
  <2>2. result \in User \cup MeError /\ result # Pending
    BY <1>1, <1>4, UsersDiffer DEF AccountsTypeOK, MeError, Pending
  <2>3. me'[r] = result /\ \A s \in Request \ {r} : me'[s] = me[s]
    BY <1>1, <2>1 DEF OwnTypeOK
  <2>4. UNCHANGED <<ask, gatewayAt, toDelete, code, orders, orderStatus, catalogAt, catalogBody,
                    catalogReply, ticketTypes, clientAt, users, accountsBody>>
    BY <1>2, <2>1 DEF orderVars, catalogVars, clientVars, accountsVars
  <2>5. ServicesStep /\ OrdersGrow
    BY <1>2 DEF ServicesStep, OrdersGrow, DisturbedGrows, AccountsRest, CatalogRest, orderVars
  <2>6. \A s \in Request \ {r} : SameRequest(s) /\ (s \in DOMAIN orders' => s \in DOMAIN orders)
    BY <2>3, <2>4 DEF SameRequest
  <2>7. me[r] \notin User /\ me[r] # Unauthenticated
    BY <1>1, UsersDiffer DEF Unauthenticated, Pending
  <2>8. GatewayRequest(r)'
    <3>1. CallFits(r)'
      BY <1>1, <2>4, <2>7 DEF GatewayRequest, CallFits, UserFits, IdleServices
    <3>2. UserFits(r)'
      BY <1>4, <2>2, <2>3, <2>4, UsersDiffer DEF UserFits
    <3>3. gatewayAt[r] \notin {"new", "rest"} /\ clientAt[r] = "idle" /\ orderStatus[r] = 0
          /\ r \notin DOMAIN orders
      BY <1>1, <2>7 DEF GatewayRequest, UserFits, OrderFits
    <3>4. OrderFits(r)'
      BY <2>4, <3>3 DEF OrderFits
    <3>5. me[r] \notin Staff
      BY <2>7, GatewayAssumption DEF User
    <3>6. AnswerFits(r)'
      BY <1>1, <2>4, <2>5, <3>5
      DEF GatewayRequest, AnswerFits, PaidFor, ServicesStep, DisturbedGrows
    <3> QED
      BY <3>1, <3>2, <3>4, <3>6 DEF GatewayRequest
  <2>9. OwnTypeOK'
    <3>1. me' \in [Request -> User \cup {Unauthenticated, Pending} \cup MeError]
      BY <1>1, <2>1, <2>2 DEF OwnTypeOK
    <3>2. disturbed' \in SUBSET Request
      BY <1>1, <1>2 DEF OwnTypeOK
    <3> QED
      BY <1>1, <1>2, <2>1, <3>1, <3>2 DEF OwnTypeOK, cacheVars, orderVars
  <2> QED
    BY <2>5, <2>6, <2>8, <2>9, OneMoves
<1> QED
  BY <1>5, <1>6

LEMMA ExpireEntryInv ==
    ASSUME GatewayInv, [\E k \in CacheKey : ExpireEntry(k)]_vars
    PROVE  GatewayInv'
<1>1. /\ UNCHANGED <<gatewayVars, outdated, orderVars, catalogVars, accountsVars, clientVars,
                     disturbed>>
      /\ UNCHANGED cache \/ \E k \in CacheKey : cache' = [cache EXCEPT ![k] = NotCached]
  BY DEF ExpireEntry, vars, cacheVars
<1>2. ServicesStep /\ TablesGrow
  BY <1>1 DEF ServicesStep, TablesGrow, DisturbedGrows, OrdersGrow, AccountsRest, CatalogRest,
              accountsVars, orderVars
<1>3. (AccountsInv /\ CatalogInv /\ ClientInv /\ \A s \in Request : KeylessRequest(s))'
  BY <1>2, AccountsPreserved, CatalogPreserved, ClientPreserved, KeylessPreserved
  DEF GatewayInv, ServicesStep
<1>4. \A s \in Request : SameRequest(s) /\ (s \in DOMAIN orders' => s \in DOMAIN orders)
  BY <1>1 DEF SameRequest, gatewayVars, orderVars, catalogVars, accountsVars, clientVars
<1>5. \A s \in Request : GatewayRequest(s)'
  BY <1>2, <1>4, GatewayOthers DEF GatewayInv
<1>6. OwnTypeOK'
  <2>1. OwnTypeOK
    BY DEF GatewayInv
  <2>2. cache' \in [CacheKey -> (SUBSET Request) \cup {NotCached}]
    <3>1. CASE UNCHANGED cache
      BY <2>1, <3>1 DEF OwnTypeOK
    <3>2. ASSUME NEW k \in CacheKey, cache' = [cache EXCEPT ![k] = NotCached] PROVE <2>2!:
      BY <2>1, <3>2 DEF OwnTypeOK
    <3> QED
      BY <1>1, <3>1, <3>2
  <2> QED
    BY <1>1, <2>1, <2>2 DEF OwnTypeOK, gatewayVars, orderVars
<1> QED
  BY <1>3, <1>5, <1>6 DEF GatewayInv
-----------------------------------------------------------------------------
(***************************************************************************)
(* The invariant, and what follows from it                                 *)
(***************************************************************************)
LEMMA GatewayPreserved == GatewayInv /\ [Next]_vars => GatewayInv'
<1> SUFFICES ASSUME GatewayInv, [Next]_vars PROVE GatewayInv'
  OBVIOUS
<1>1. ASSUME NEW r \in Request, AtOrders(r) PROVE GatewayInv'
  BY <1>1, CatalogStepInv, ClientStepInv, PlaceOrderInv DEF AtOrders
<1>2. ASSUME NEW r \in Request, AtGateway(r) PROVE GatewayInv'
  BY <1>2, MeReturnsInv, AwaitUserInv, QueriesInv, CreateEventReturnsInv, CreateOrderReturnsInv,
     PayOrderInv, DeleteCachedInv
  DEF AtGateway
<1>3. ASSUME NEW r \in Request, Receive(r) \/ RestRequest(r) \/ AtAccounts(r) PROVE GatewayInv'
  BY <1>3, ReceiveInv, RestRequestInv, AtAccountsInv
<1>4. ASSUME [\E k \in CacheKey : ExpireEntry(k)]_vars PROVE GatewayInv'
  BY <1>4, ExpireEntryInv
<1> QED
  BY <1>1, <1>2, <1>3, <1>4 DEF Next, Step

LEMMA GatewayInvariant == Spec => []GatewayInv
<1>1. Init => GatewayInv
  BY GatewayInitially
<1> QED
  BY <1>1, GatewayPreserved, PTL DEF Spec

(***************************************************************************)
(* The variables keep their types: no answer has the code FORBIDDEN, and   *)
(* the cache holds sets of events under the keys of the resolvers only.    *)
(***************************************************************************)
THEOREM GatewayTypesCorrect == Spec => []GatewayTypeOK
<1>1. GatewayInv => GatewayTypeOK
  <2> SUFFICES ASSUME GatewayInv PROVE GatewayTypeOK
    OBVIOUS
  <2>1. me \in [Request -> User \cup {Unauthenticated, Pending} \cup Error]
    <3>1. MeError \subseteq Error
      BY DEF MeError, Error
    <3> QED
      BY <3>1 DEF GatewayInv, OwnTypeOK
  <2> QED
    BY <2>1 DEF GatewayInv, OwnTypeOK, AccountsInv, CatalogInv, ClientInv, GatewayTypeOK
<1> QED
  BY <1>1, GatewayInvariant, PTL

(***************************************************************************)
(* Two users never share an address, whatever signups interleave.          *)
(***************************************************************************)
THEOREM EmailsUnique == Spec => []OneUserPerEmail
<1>1. GatewayInv => OneUserPerEmail
  BY DEF GatewayInv, AccountsInv
<1> QED
  BY <1>1, GatewayInvariant, PTL

(***************************************************************************)
(* The status a signup is answered with is true of the table of users.     *)
(***************************************************************************)
THEOREM SignupsAnswered == Spec => []SignupAnswerTrue
<1>1. GatewayInv => SignupAnswerTrue
  BY AccountsInvImplies DEF GatewayInv
<1> QED
  BY <1>1, GatewayInvariant, PTL

(***************************************************************************)
(* Creations with one idempotency key that succeed return one event.       *)
(***************************************************************************)
THEOREM OneEventForKey == Spec => []SameKeySameEvent
<1>1. GatewayInv => SameKeySameEvent
  BY CatalogInvImplies DEF GatewayInv
<1> QED
  BY <1>1, GatewayInvariant, PTL

(***************************************************************************)
(* An event without all its ticket types has a creation that is under way  *)
(* or that was told so.                                                    *)
(***************************************************************************)
THEOREM PartialEventsExplained == Spec => []IncompleteExplained
<1>1. GatewayInv => IncompleteExplained
  BY CatalogInvImplies DEF GatewayInv
<1> QED
  BY <1>1, GatewayInvariant, PTL

(***************************************************************************)
(* When the time to live of the lock covers all the attempts, each with a  *)
(* pause as long as the last one, retries never outlast the lock.          *)
(***************************************************************************)
THEOREM RetriesWithinLock == RetryBudget <= LockTtl => (Spec => []RetriesFitLock)
<1> SUFFICES ASSUME RetryBudget <= LockTtl PROVE Spec => []RetriesFitLock
  OBVIOUS
<1>1. GatewayInv => RetriesFitLock
  BY ClientInvImplies DEF GatewayInv
<1> QED
  BY <1>1, GatewayInvariant, PTL

(***************************************************************************)
(* What a client is told of a mutation is true of the tables, through the  *)
(* three translations of errors and whatever fails on the way.             *)
(***************************************************************************)
THEOREM AnswersTrue == Spec => []AnswerTrue
<1>1. GatewayInv => AnswerTrue
  <2> SUFFICES ASSUME GatewayInv, NEW r \in Request
               PROVE  LET op == ask[r].op
                      IN  CASE code[r] = "none" -> TRUE
                            [] code[r] = "OK" ->
                                  /\ op = "createEvent" => ticketTypes[r] = TicketTypes
                                  /\ op = "createOrder" => r \in DOMAIN orders
                                  /\ op = "payOrder" => orders[ask[r].arg] = "PAID"
                            [] code[r] = "INTERNAL_SERVER_ERROR" ->
                                  \/ r \in disturbed
                                  \/ /\ op = "createEvent"
                                     /\ catalogReply[r].status = 400 \/ catalogBody[r].unstorable = 0
                                  \/ /\ op = "createOrder"
                                     /\ me[r] \in Staff \/ ask[r].body # "valid"
                                  \/ op = "payOrder" /\ orders[ask[r].arg] = "PAID"
                                  \/ op \in {"ordersByCustomer", "eventWithEnd"}
                            [] OTHER -> r \notin DOMAIN events \cup DOMAIN orders
    BY DEF AnswerTrue
  <2>1. AnswerFits(r)
    BY DEF GatewayInv, GatewayRequest
  <2>2. catalogAt[r] = "idle" => r \notin DOMAIN events
    BY DEF GatewayInv, CatalogInv, CatalogRequest
  <2>3. code[r] \in {"none", "OK", "UNAUTHENTICATED", "NOT_FOUND", "CONFLICT",
                    "INTERNAL_SERVER_ERROR", "GRAPHQL_VALIDATION_FAILED"}
    BY DEF GatewayInv, OwnTypeOK
  <2> QED
    BY <2>1, <2>2, <2>3 DEF AnswerFits, PaidFor
<1> QED
  BY <1>1, GatewayInvariant, PTL
-----------------------------------------------------------------------------
(***************************************************************************)
(* Stale entries of the cache                                              *)
(***************************************************************************)
Creating == {"rest", "createEvent", "lost"}

\* Why event e is missing in the entry of key k; see StaleExplained.
Excused(e, k) ==
    \/ gatewayAt[e] \in Creating
    \/ StillToDelete(e, k)
    \/ e \in disturbed \/ catalogReply[e].status = 400
    \/ \E r \in outdated : CacheKeyOf(r) = k /\ listing[r] = cache[k]

EntryFits(k) ==
    cache[k] # NotCached =>
        /\ cache[k] \subseteq Stored(k)
        /\ (\E e \in Request : k = EventCacheKey(e)) => cache[k] # {}
        /\ \A e \in Stored(k) \ cache[k] : Excused(e, k)

(***************************************************************************)
(* An event is stored while its creation is under way, or was given up; a  *)
(* list that waits to be cached holds stored events, and is one event for  *)
(* the key of an event; a query that cached an outdated list is over.      *)
(***************************************************************************)
StaleRequest(r) ==
    /\ catalogAt[r] \notin {"idle", "done"} => gatewayAt[r] \in Creating \/ r \in disturbed
    /\ gatewayAt[r] = "createEvent" => catalogBody[r].organizer = me[r]
    /\ gatewayAt[r] = "set" =>
          /\ listing[r] \subseteq Stored(CacheKeyOf(r))
          /\ ask[r].op # "events" => listing[r] # {}
    /\ r \in outdated => gatewayAt[r] \in {"answered", "lost"}

StaleInv ==
    /\ \A r \in Request : StaleRequest(r)
    /\ \A k \in CacheKey : EntryFits(k)

EventsGrow == \A e \in DOMAIN events : e \in DOMAIN events' /\ events'[e] = events[e]

LEMMA StoredGrows ==
    ASSUME EventsGrow, NEW key
    PROVE  Stored(key) \subseteq Stored(key)'
BY DEF EventsGrow, Stored, FindAll, FindById, FindByOrganizerId

LEMMA StoredSame ==
    ASSUME UNCHANGED events, NEW key
    PROVE  Stored(key)' = Stored(key)
BY DEF Stored, FindAll, FindById, FindByOrganizerId

LEMMA ExcusedKept ==
    ASSUME NEW e \in Request, NEW k, Excused(e, k), cache'[k] = cache[k], DisturbedGrows,
           gatewayAt[e] \in Creating => gatewayAt'[e] \in Creating,
           StillToDelete(e, k) => StillToDelete(e, k)',
           catalogReply[e].status = 400 => catalogReply'[e].status = 400,
           \A r \in outdated : r \in outdated' /\ ask'[r] = ask[r] /\ listing'[r] = listing[r]
    PROVE  Excused(e, k)'
<1>1. ASSUME NEW r \in outdated, CacheKeyOf(r) = k, listing[r] = cache[k] PROVE Excused(e, k)'
  <2>1. CacheKeyOf(r)' = CacheKeyOf(r)
    BY DEF CacheKeyOf
  <2> QED
    BY <1>1, <2>1 DEF Excused
<1>2. ASSUME \/ gatewayAt[e] \in Creating \/ StillToDelete(e, k)
             \/ e \in disturbed \/ catalogReply[e].status = 400
      PROVE  Excused(e, k)'
  BY <1>2 DEF Excused, DisturbedGrows
<1> QED
  BY <1>1, <1>2 DEF Excused

LEMMA EntryKept ==
    ASSUME NEW k \in CacheKey, EntryFits(k), cache'[k] = cache[k], EventsGrow,
           cache[k] # NotCached =>
              \A e \in Stored(k) \ cache[k] : Excused(e, k) => Excused(e, k)',
           \A e \in Stored(k)' \ Stored(k) : Excused(e, k)'
    PROVE  EntryFits(k)'
<1>1. Stored(k) \subseteq Stored(k)'
  BY StoredGrows
<1> QED
  BY <1>1 DEF EntryFits

LEMMA StaleOthers ==
    ASSUME NEW s \in Request, StaleRequest(s), EventsGrow, DisturbedGrows,
           ask'[s] = ask[s], gatewayAt'[s] = gatewayAt[s], listing'[s] = listing[s],
           gatewayAt[s] = "createEvent" => me'[s] = me[s],
           catalogAt'[s] = catalogAt[s], catalogBody'[s] = catalogBody[s],
           s \in outdated' => s \in outdated
    PROVE  StaleRequest(s)'
<1>1. CacheKeyOf(s)' = CacheKeyOf(s)
  BY DEF CacheKeyOf
<1>2. Stored(CacheKeyOf(s)) \subseteq Stored(CacheKeyOf(s))'
  BY <1>1, StoredGrows
<1> QED
  BY <1>2 DEF StaleRequest, DisturbedGrows

(***************************************************************************)
(* A step that changes no table of events, no reply and no entry of the    *)
(* cache, and ends no creation of an event.                                *)
(***************************************************************************)
LEMMA EntriesUntouched ==
    ASSUME StaleInv, CatalogTypeOK, UNCHANGED <<cache, events, catalogReply>>, DisturbedGrows,
           \A e \in DOMAIN events :
              /\ gatewayAt[e] \in Creating => gatewayAt'[e] \in Creating
              /\ \A k \in CacheKey : StillToDelete(e, k) => StillToDelete(e, k)',
           \A r \in outdated : r \in outdated' /\ ask'[r] = ask[r] /\ listing'[r] = listing[r]
    PROVE  \A k \in CacheKey : EntryFits(k)'
<1> SUFFICES ASSUME NEW k \in CacheKey PROVE EntryFits(k)'
  OBVIOUS
<1>1. EventsGrow
  BY DEF EventsGrow
<1>2. Stored(k)' = Stored(k) /\ Stored(k) \subseteq DOMAIN events /\ DOMAIN events \subseteq Request
  BY StoredSame DEF Stored, FindAll, FindById, FindByOrganizerId, CatalogTypeOK
<1>3. ASSUME NEW e \in Stored(k), Excused(e, k) PROVE Excused(e, k)'
  BY <1>2, <1>3, ExcusedKept
<1> QED
  BY <1>1, <1>2, <1>3, EntryKept DEF StaleInv

LEMMA QuietStale ==
    ASSUME GatewayInv, StaleInv, UNCHANGED <<gatewayVars, cacheVars, catalogVars>>, DisturbedGrows
    PROVE  StaleInv'
<1>1. UNCHANGED <<ask, gatewayAt, me, listing, toDelete, cache, outdated, events, catalogAt,
                  catalogBody, catalogReply>>
  BY DEF gatewayVars, cacheVars, catalogVars
<1>2. ASSUME NEW s \in Request PROVE StaleRequest(s)'
  BY <1>1, StaleOthers DEF StaleInv, EventsGrow
<1>3. \A e, k : StillToDelete(e, k) => StillToDelete(e, k)'
  BY <1>1 DEF StillToDelete
<1>4. \A k \in CacheKey : EntryFits(k)'
  BY <1>1, <1>3, EntriesUntouched DEF GatewayInv, CatalogInv
<1> QED
  BY <1>2, <1>4 DEF StaleInv

LEMMA CatalogStale ==
    ASSUME GatewayInv, StaleInv, NEW r \in Request, CatalogStep(r), UNCHANGED <<gatewayVars, cacheVars>>
    PROVE  StaleInv'
<1>1. UNCHANGED <<ask, gatewayAt, me, listing, toDelete, cache, outdated, catalogBody>>
  BY DEF gatewayVars, cacheVars, CatalogStep, FindEventByKey, SaveEvent, SaveTicketType
<1>2. /\ CatalogTypeOK /\ CatalogRequest(r) /\ DisturbedGrows
      /\ catalogAt[r] \in {"findByKey", "saveEvent", "saveTicketType"}
      /\ UNCHANGED events \/ (catalogAt[r] = "saveEvent" /\ InsertEvent(r))
  BY DEF GatewayInv, CatalogInv, CatalogStep, FindEventByKey, SaveEvent, SaveTicketType,
         CatalogFails, Fault, DisturbedGrows
<1>3. /\ r \notin DOMAIN events \/ UNCHANGED events
      /\ catalogReply[r].status = 0
  BY <1>2 DEF CatalogRequest
<1>4. EventsGrow /\ \A key : Stored(key)' \subseteq Stored(key) \cup {r}
  <2>1. CASE UNCHANGED events
    BY <2>1, StoredSame DEF EventsGrow
  <2>2. CASE InsertEvent(r) /\ r \notin DOMAIN events
    BY <2>2 DEF InsertEvent, EventsGrow, Stored, FindAll, FindById, FindByOrganizerId
  <2> QED
    BY <1>2, <1>3, <2>1, <2>2
<1>5. \A s \in Request \ {r} :
         catalogAt'[s] = catalogAt[s] /\ catalogReply'[s] = catalogReply[s]
  BY <1>2
  DEF CatalogStep, FindEventByKey, SaveEvent, SaveTicketType, NextTicketType, CatalogFails,
      CatalogThrow, CatalogAnswer, CatalogGo, CatalogTypeOK
<1>6. gatewayAt'[r] \in Creating \/ r \in disturbed'
  BY <1>1, <1>2 DEF StaleInv, StaleRequest, DisturbedGrows
<1>7. ASSUME NEW s \in Request PROVE StaleRequest(s)'
  <2>1. CASE s # r
    BY <1>1, <1>2, <1>4, <1>5, <2>1, StaleOthers DEF StaleInv
  <2>2. CASE s = r
    <3>1. CacheKeyOf(r)' = CacheKeyOf(r)
      BY <1>1 DEF CacheKeyOf
    <3>2. Stored(CacheKeyOf(r)) \subseteq Stored(CacheKeyOf(r))'
      BY <1>4, <3>1, StoredGrows
    <3> QED
      BY <1>1, <1>6, <2>2, <3>2 DEF StaleInv, StaleRequest
  <2> QED
    BY <2>1, <2>2
<1>8. ASSUME NEW k \in CacheKey PROVE EntryFits(k)'
  <2>1. \A e \in Stored(k)' \ Stored(k) : Excused(e, k)'
    BY <1>4, <1>6 DEF Excused
  <2>2. ASSUME NEW e \in Stored(k), Excused(e, k) PROVE Excused(e, k)'
    <3>1. e \in Request
      BY <1>2, StoredAreRequests
    <3>2. catalogReply[e].status = 400 => catalogReply'[e].status = 400
      BY <1>3, <1>5, <3>1
    <3>3. StillToDelete(e, k) => StillToDelete(e, k)'
      BY <1>1 DEF StillToDelete
    <3> QED
      BY <1>1, <1>2, <2>2, <3>1, <3>2, <3>3, ExcusedKept
  <2> QED
    BY <1>1, <1>4, <2>1, <2>2, EntryKept DEF StaleInv
<1> QED
  BY <1>7, <1>8 DEF StaleInv

LEMMA RequestStale ==
    ASSUME GatewayInv, GatewayInv', StaleInv, NEW r \in Request, Receive(r) \/ RestRequest(r)
    PROVE  StaleInv'
<1>1. /\ OwnTypeOK /\ CatalogTypeOK /\ gatewayAt[r] = "new" /\ IdleServices(r) /\ r \notin outdated
      /\ CatalogRequest(r)
  BY DEF GatewayInv, CatalogInv, GatewayRequest, CallFits, Receive, RestRequest, StaleInv,
         StaleRequest
<1>2. UNCHANGED <<listing, toDelete, cache, outdated, events>> /\ DisturbedGrows
  <2>1. DisturbedGrows
    BY ReceiveServices, RestRequestServices DEF ServicesStep
  <2> QED
    BY <2>1 DEF Receive, RestRequest, CreateEvent, cacheVars, catalogVars
<1>3. \E call \in {"await", "get", "fetch", "payOrder", "rest", "answered"} :
         gatewayAt' = [gatewayAt EXCEPT ![r] = call]
  BY DEF Receive, RestRequest, Answer, Await, FirstCall
<1>4. \A s \in Request \ {r} :
         /\ ask'[s] = ask[s] /\ gatewayAt'[s] = gatewayAt[s] /\ me'[s] = me[s]
         /\ catalogAt'[s] = catalogAt[s] /\ catalogBody'[s] = catalogBody[s]
         /\ catalogReply'[s] = catalogReply[s]
  <2>1. UNCHANGED ask \/ \E question : ask' = [ask EXCEPT ![r] = question]
    BY DEF Receive, RestRequest
  <2>2. me' = me \/ me' = [me EXCEPT ![r] = Pending]
    BY DEF Receive, RestRequest
  <2>3. UNCHANGED catalogVars \/ \E body \in CreateEventRequest : CreateEvent(r, body)
    BY DEF Receive, RestRequest
  <2>4. \A s \in Request \ {r} :
           /\ catalogAt'[s] = catalogAt[s] /\ catalogBody'[s] = catalogBody[s]
           /\ catalogReply'[s] = catalogReply[s]
    BY <1>1, <2>3
    DEF CatalogTypeOK, CreateEvent, CatalogThrow, CatalogAnswer, CatalogGo, catalogVars
  <2>5. \A s \in Request \ {r} : ask'[s] = ask[s]
    BY <1>1, <2>1 DEF OwnTypeOK
  <2>6. \A s \in Request \ {r} : me'[s] = me[s] /\ gatewayAt'[s] = gatewayAt[s]
    BY <1>1, <1>3, <2>2 DEF OwnTypeOK
  <2> QED
    BY <2>4, <2>5, <2>6
<1>5. gatewayAt'[r] \in {"await", "get", "fetch", "payOrder", "rest", "answered"}
  BY <1>1, <1>3 DEF OwnTypeOK
<1>6. ASSUME NEW s \in Request PROVE StaleRequest(s)'
  <2>1. CASE s # r
    BY <1>2, <1>4, <2>1, StaleOthers DEF StaleInv, EventsGrow
  <2>2. CASE s = r
    <3>1. gatewayAt'[r] # "rest" => catalogAt'[r] = "idle"
      <4>1. gatewayAt'[r] # "rest" => UNCHANGED catalogVars
        BY <1>1 DEF Receive, RestRequest, OwnTypeOK
      <4> QED
        BY <1>1, <4>1 DEF IdleServices, catalogVars
    <3> QED
      BY <1>1, <1>2, <1>5, <2>2, <3>1 DEF StaleRequest, Creating
  <2> QED
    BY <2>1, <2>2
<1>7. ASSUME NEW k \in CacheKey PROVE EntryFits(k)'
  <2>1. EventsGrow /\ Stored(k)' = Stored(k) /\ Stored(k) \subseteq DOMAIN events
        /\ DOMAIN events \subseteq Request /\ r \notin DOMAIN events
    BY <1>1, <1>2, StoredSame
    DEF EventsGrow, Stored, FindAll, FindById, FindByOrganizerId, CatalogTypeOK, CatalogRequest,
        IdleServices
  <2>2. ASSUME NEW e \in Stored(k), Excused(e, k) PROVE Excused(e, k)'
    <3>1. e \in Request \ {r}
      BY <2>1
    <3>2. StillToDelete(e, k) => StillToDelete(e, k)'
      BY <1>2 DEF StillToDelete
    <3>3. outdated \subseteq Request
      BY <1>1 DEF OwnTypeOK
    <3> QED
      BY <1>1, <1>2, <1>4, <2>2, <3>1, <3>2, <3>3, ExcusedKept
  <2> QED
    BY <1>2, <2>1, <2>2, EntryKept DEF StaleInv
<1> QED
  BY <1>6, <1>7 DEF StaleInv

LEMMA MeReturnsStale ==
    ASSUME GatewayInv, StaleInv, NEW r \in Request, MeReturns(r)
    PROVE  StaleInv'
<1>1. /\ UNCHANGED <<ask, listing, toDelete, cache, outdated, events, catalogAt, catalogBody,
                     catalogReply>>
      /\ DisturbedGrows
      /\ me[r] = Pending /\ OwnTypeOK
  BY DEF MeReturns, Fault, DisturbedGrows, cacheVars, catalogVars, GatewayInv
<1>2. \/ ProcessDies
      \/ /\ UNCHANGED gatewayAt
         /\ \E result : me' = [me EXCEPT ![r] = result]
  BY DEF MeReturns, Settle
<1>3. ASSUME NEW s \in Request
      PROVE  /\ \/ gatewayAt'[s] = gatewayAt[s]
                \/ gatewayAt[s] \notin {"new", "rest", "answered", "lost"} /\ gatewayAt'[s] = "lost"
             /\ gatewayAt[s] = "createEvent" => me'[s] = me[s]
  <2>1. gatewayAt[s] = "createEvent" => me[s] # Pending
    BY UsersDiffer DEF GatewayInv, GatewayRequest, CallFits
  <2>2. CASE ProcessDies
    BY <2>1, <2>2 DEF ProcessDies
  <2>3. ASSUME UNCHANGED gatewayAt, NEW result, me' = [me EXCEPT ![r] = result]
        PROVE  gatewayAt'[s] = gatewayAt[s] /\ (gatewayAt[s] = "createEvent" => me'[s] = me[s])
    BY <1>1, <2>1, <2>3 DEF OwnTypeOK
  <2> QED
    BY <1>2, <2>2, <2>3
<1>4. EventsGrow
  BY <1>1 DEF EventsGrow
<1>5. ASSUME NEW s \in Request PROVE StaleRequest(s)'
  <2>1. CASE gatewayAt'[s] = gatewayAt[s]
    BY <1>1, <1>3, <1>4, <2>1, StaleOthers DEF StaleInv
  <2>2. CASE gatewayAt'[s] = "lost"
    BY <1>1, <2>2 DEF StaleRequest, Creating
  <2> QED
    BY <1>3, <2>1, <2>2
<1>6. \A e, k : StillToDelete(e, k) => StillToDelete(e, k)'
  BY <1>1 DEF StillToDelete
<1>7. \A e \in Request : gatewayAt[e] \in Creating => gatewayAt'[e] \in Creating
  BY <1>3 DEF Creating
<1>8. CatalogTypeOK /\ DOMAIN events \subseteq Request
  BY DEF GatewayInv, CatalogInv, CatalogTypeOK
<1>9. \A k \in CacheKey : EntryFits(k)'
  BY <1>1, <1>6, <1>7, <1>8, EntriesUntouched
<1> QED
  BY <1>5, <1>9 DEF StaleInv

(***************************************************************************)
(* A step of the resolver of r, which answers it or lets it await the next *)
(* call, stores no event; entries it writes fit, and if r is an event that *)
(* is missing somewhere it remains excused.                                *)
(***************************************************************************)
LEMMA ResolverStale ==
    ASSUME GatewayInv, StaleInv, NEW r \in Request, DisturbedGrows,
           UNCHANGED <<ask, me, events>>, gatewayAt[r] \notin {"answered", "lost"},
           \A s \in Request \ {r} :
              /\ gatewayAt'[s] = gatewayAt[s] /\ listing'[s] = listing[s]
              /\ toDelete'[s] = toDelete[s] /\ catalogAt'[s] = catalogAt[s]
              /\ catalogBody'[s] = catalogBody[s] /\ catalogReply'[s] = catalogReply[s],
           outdated \subseteq outdated', outdated' \subseteq outdated \cup {r},
           StaleRequest(r)',
           \A k \in CacheKey : cache'[k] = cache[k] \/ EntryFits(k)',
           \A k \in CacheKey :
              cache'[k] = cache[k] /\ cache[k] # NotCached /\ r \in Stored(k) \ cache[k] =>
                 Excused(r, k)'
    PROVE  StaleInv'
<1>1. EventsGrow /\ outdated \subseteq Request /\ r \notin outdated
  BY DEF EventsGrow, GatewayInv, OwnTypeOK, StaleInv, StaleRequest
<1>2. ASSUME NEW s \in Request PROVE StaleRequest(s)'
  BY <1>1, StaleOthers DEF StaleInv
<1>3. ASSUME NEW k \in CacheKey, cache'[k] = cache[k] PROVE EntryFits(k)'
  <2>1. Stored(k)' = Stored(k)
    BY StoredSame
  <2>2. Stored(k) \subseteq Request
    BY StoredAreRequests DEF GatewayInv, CatalogInv
  <2>3. ASSUME NEW e \in Stored(k) \ {r}, Excused(e, k) PROVE Excused(e, k)'
    <3>1. StillToDelete(e, k) => StillToDelete(e, k)'
      BY <2>2 DEF StillToDelete
    <3> QED
      BY <1>1, <1>3, <2>2, <2>3, <3>1, ExcusedKept
  <2> QED
    BY <1>1, <1>3, <2>1, <2>3, EntryKept DEF StaleInv
<1> QED
  BY <1>2, <1>3 DEF StaleInv

\* A request that has stored no event needs no excuse.
LEMMA NoEventStale ==
    ASSUME GatewayInv, StaleInv, NEW r \in Request, DisturbedGrows, r \notin DOMAIN events,
           UNCHANGED <<ask, me, events>>, gatewayAt[r] \notin {"answered", "lost"},
           \A s \in Request \ {r} :
              /\ gatewayAt'[s] = gatewayAt[s] /\ listing'[s] = listing[s]
              /\ toDelete'[s] = toDelete[s] /\ catalogAt'[s] = catalogAt[s]
              /\ catalogBody'[s] = catalogBody[s] /\ catalogReply'[s] = catalogReply[s],
           outdated \subseteq outdated', outdated' \subseteq outdated \cup {r},
           StaleRequest(r)',
           \A k \in CacheKey : cache'[k] = cache[k] \/ EntryFits(k)'
    PROVE  StaleInv'
<1>1. \A k : r \notin Stored(k)
  BY DEF Stored, FindAll, FindById, FindByOrganizerId
<1> QED
  BY <1>1, ResolverStale

LEMMA AwaitUserStale ==
    ASSUME GatewayInv, StaleInv, NEW r \in Request, AwaitUser(r)
    PROVE  StaleInv'
<1>1. /\ OwnTypeOK /\ CatalogTypeOK /\ gatewayAt[r] = "await" /\ catalogAt[r] = "idle"
      /\ r \notin DOMAIN events /\ r \notin outdated
  BY DEF GatewayInv, CatalogInv, GatewayRequest, CallFits, IdleServices, CatalogRequest, AwaitUser,
         StaleInv, StaleRequest
<1>2. UNCHANGED <<ask, me, listing, toDelete, cache, outdated, events>> /\ DisturbedGrows
  <2>1. DisturbedGrows
    BY AwaitUserServices DEF ServicesStep
  <2> QED
    BY <2>1 DEF AwaitUser, CreateEvent, cacheVars, catalogVars
<1>3. \/ UNCHANGED catalogVars
         /\ \/ \E answer : Answer(r, answer)
            \/ Await(r, "createOrder")
      \/ \E body \in CreateEventRequest :
            body.organizer = me[r] /\ CreateEvent(r, body) /\ Await(r, "createEvent")
  BY DEF AwaitUser, Throw
<1>4. ASSUME UNCHANGED catalogVars, (\E answer : Answer(r, answer)) \/ Await(r, "createOrder")
      PROVE  StaleInv'
  <2>1. gatewayAt'[r] \in {"answered", "createOrder"}
        /\ \A s \in Request \ {r} : gatewayAt'[s] = gatewayAt[s]
    BY <1>1, <1>4 DEF OwnTypeOK, Answer, Await
  <2>2. StaleRequest(r)'
    BY <1>1, <1>2, <1>4, <2>1 DEF StaleRequest, catalogVars
  <2> QED
    BY <1>1, <1>2, <1>4, <2>1, <2>2, NoEventStale DEF catalogVars
<1>5. ASSUME NEW body \in CreateEventRequest, body.organizer = me[r], CreateEvent(r, body),
             Await(r, "createEvent")
      PROVE  StaleInv'
  <2>1. gatewayAt'[r] = "createEvent" /\ \A s \in Request \ {r} : gatewayAt'[s] = gatewayAt[s]
    BY <1>1, <1>5 DEF OwnTypeOK, Await
  <2>2. /\ catalogBody'[r] = body
        /\ \A s \in Request \ {r} :
              /\ catalogAt'[s] = catalogAt[s] /\ catalogBody'[s] = catalogBody[s]
              /\ catalogReply'[s] = catalogReply[s]
    BY <1>1, <1>5 DEF CatalogTypeOK, CreateEvent, CatalogThrow, CatalogAnswer, CatalogGo
  <2>3. StaleRequest(r)'
    BY <1>1, <1>2, <1>5, <2>1, <2>2 DEF StaleRequest, Creating
  <2> QED
    BY <1>1, <1>2, <2>1, <2>2, <2>3, NoEventStale
<1> QED
  BY <1>3, <1>4, <1>5

\* A query that answers its request, or awaits its next call.
LEMMA QueriesStale ==
    ASSUME GatewayInv, StaleInv, NEW r \in Request, GetCached(r) \/ Fetch(r) \/ SetCached(r)
    PROVE  StaleInv'
<1>1. /\ OwnTypeOK /\ CatalogTypeOK /\ catalogAt[r] = "idle"
      /\ gatewayAt[r] \in {"get", "fetch", "set"}
      /\ r \notin DOMAIN events /\ r \notin outdated
  BY DEF GatewayInv, CatalogInv, GatewayRequest, CallFits, IdleServices, CatalogRequest,
         GetCached, Fetch, SetCached, StaleInv, StaleRequest
<1>2. UNCHANGED <<ask, me, toDelete, events, catalogAt, catalogBody, catalogReply>>
  BY DEF GetCached, Fetch, SetCached, catalogVars
<1>3. DisturbedGrows
  BY DEF GetCached, Fetch, SetCached, Fails, Fault, DisturbedGrows
<1>4. /\ gatewayAt'[r] \in {"fetch", "set", "answered"}
      /\ \A s \in Request \ {r} : gatewayAt'[s] = gatewayAt[s]
  <2>1. \/ \E call \in {"fetch", "set"} : Await(r, call)
        \/ \E answer : Answer(r, answer)
    BY DEF GetCached, Fetch, SetCached, Show, Fails, Throw
  <2> QED
    BY <1>1, <2>1 DEF OwnTypeOK, Answer, Await
<1>5. /\ \A s \in Request \ {r} : listing'[s] = listing[s]
      /\ gatewayAt'[r] = "set" =>
            /\ listing'[r] = Stored(CacheKeyOf(r))
            /\ ask[r].op # "events" => listing'[r] # {}
  <2>1. CASE Fetch(r)
    <3>1. UNCHANGED listing \/ listing' = [listing EXCEPT ![r] = Stored(CacheKeyOf(r))]
      BY <2>1 DEF Fetch
    <3>2. ASSUME gatewayAt'[r] = "set"
          PROVE  /\ listing' = [listing EXCEPT ![r] = Stored(CacheKeyOf(r))]
                 /\ ask[r].op # "events" => listing'[r] # {}
      BY <1>1, <2>1, <3>2 DEF Fetch, Throw, Fails, Answer, OwnTypeOK
    <3> QED
      BY <1>1, <3>1, <3>2 DEF OwnTypeOK
  <2>2. CASE GetCached(r) \/ SetCached(r)
    <3>1. gatewayAt'[r] # "set"
      BY <1>1, <2>2 DEF GetCached, SetCached, Show, Fails, Throw, Answer, Await, OwnTypeOK
    <3> QED
      BY <2>2, <3>1 DEF GetCached, SetCached
  <2> QED
    BY <2>1, <2>2
<1>6. UNCHANGED cacheVars \/ (gatewayAt[r] = "set" /\ PutEntry(r) /\ gatewayAt'[r] = "answered")
  BY <1>1 DEF GetCached, Fetch, SetCached, Show, Fails, Throw, Answer, OwnTypeOK
<1>7. outdated \subseteq outdated' /\ outdated' \subseteq outdated \cup {r}
      /\ (r \in outdated' => gatewayAt'[r] = "answered")
  BY <1>1, <1>6 DEF cacheVars, PutEntry
<1>8. StaleRequest(r)'
  <2>1. CacheKeyOf(r)' = CacheKeyOf(r)
    BY <1>2 DEF CacheKeyOf
  <2>2. \A key : Stored(key)' = Stored(key)
    BY <1>2, StoredSame
  <2>3. Stored(CacheKeyOf(r))' = Stored(CacheKeyOf(r))
    BY <2>1, <2>2 DEF Stored
  <2> QED
    BY <1>1, <1>2, <1>4, <1>5, <1>7, <2>3 DEF StaleRequest
<1>9. ASSUME NEW k \in CacheKey, cache'[k] # cache[k] PROVE EntryFits(k)'
  <2>1. /\ gatewayAt[r] = "set" /\ PutEntry(r) /\ k = CacheKeyOf(r) /\ cache'[k] = listing[r]
        /\ listing' = listing
    <3>1. gatewayAt[r] = "set" /\ PutEntry(r)
      BY <1>6, <1>9 DEF cacheVars
    <3>2. listing' = listing
      BY <1>1, <3>1 DEF GetCached, Fetch, SetCached
    <3> QED
      BY <1>1, <1>9, <3>1, <3>2 DEF OwnTypeOK, PutEntry
  <2>2. Stored(k)' = Stored(k) /\ listing[r] \subseteq Stored(k)
        /\ (ask[r].op # "events" => listing[r] # {})
    BY <1>2, <2>1, StoredSame DEF StaleInv, StaleRequest
  <2>3. (\E e \in Request : k = EventCacheKey(e)) => ask[r].op # "events"
    BY <2>1 DEF CacheKeyOf, EventCacheKey, AllKey, ListKey
  <2>4. \A e \in Stored(k) \ listing[r] : Excused(e, k)'
    <3>1. ASSUME NEW e \in Stored(k) \ listing[r] PROVE r \in outdated'
      BY <2>1, <3>1 DEF PutEntry
    <3>2. CacheKeyOf(r)' = k
      BY <1>2, <2>1 DEF CacheKeyOf
    <3> QED
      BY <2>1, <3>1, <3>2 DEF Excused
  <2> QED
    BY <2>1, <2>2, <2>3, <2>4 DEF EntryFits
<1> QED
  BY <1>1, <1>2, <1>3, <1>4, <1>5, <1>7, <1>8, <1>9, NoEventStale

LEMMA CreateEventReturnsStale ==
    ASSUME GatewayInv, StaleInv, NEW r \in Request, CreateEventReturns(r)
    PROVE  StaleInv'
<1>1. /\ OwnTypeOK /\ CatalogTypeOK /\ CatalogRequest(r) /\ StaleRequest(r)
      /\ gatewayAt[r] = "createEvent" /\ r \notin outdated
      /\ me[r] \in User /\ catalogBody[r].organizer = me[r]
  BY DEF GatewayInv, CatalogInv, GatewayRequest, CallFits, CreateEventReturns, StaleInv, StaleRequest
<1>2. UNCHANGED <<ask, me, listing, cache, outdated, events, catalogAt, catalogBody, catalogReply>>
  BY DEF CreateEventReturns, cacheVars, catalogVars
<1>3. DisturbedGrows
  BY DEF CreateEventReturns, Fails, Fault, DisturbedGrows
<1>4. \/ catalogReply[r].status = 201 /\ Invalidate(r, <<AllKey, ListKey(me[r])>>)
      \/ /\ UNCHANGED toDelete
         /\ \E answer : Answer(r, answer)
         /\ r \in disturbed' \/ catalogReply[r].status \in {400, 500}
  <2>1. catalogReply[r].status \in {0, 201, 400, 500}
    BY <1>1 DEF CatalogTypeOK
  <2> QED
    BY <2>1 DEF CreateEventReturns, Fails, Fault, Throw
<1>5. /\ gatewayAt'[r] \in {"delete", "answered"}
      /\ \A s \in Request \ {r} : gatewayAt'[s] = gatewayAt[s] /\ toDelete'[s] = toDelete[s]
  BY <1>1, <1>4 DEF OwnTypeOK, Invalidate, Answer, Await
<1>6. StaleRequest(r)'
  <2>1. r \in disturbed' \/ catalogAt[r] = "done"
    BY <1>1, <1>4 DEF CatalogRequest
  <2> QED
    BY <1>1, <1>2, <1>5, <2>1 DEF StaleRequest
<1>7. ASSUME NEW k \in CacheKey, cache[k] # NotCached, r \in Stored(k) \ cache[k]
      PROVE  Excused(r, k)'
  <2>1. r \in DOMAIN events /\ events[r].organizer = me[r]
    BY <1>1, <1>7 DEF Stored, FindAll, FindById, FindByOrganizerId, CatalogRequest
  <2>2. CASE r \in disturbed' \/ catalogReply[r].status \in {400, 500}
    BY <1>1, <1>2, <1>3, <2>1, <2>2 DEF CatalogRequest, Excused, DisturbedGrows
  <2>3. ASSUME Invalidate(r, <<AllKey, ListKey(me[r])>>) PROVE Excused(r, k)'
    <3>1. EntryFits(k) /\ cache[k] \subseteq Stored(k)
      BY <1>7 DEF StaleInv, EntryFits
    <3>2. \A e \in Request : k # EventCacheKey(e)
      <4>1. ASSUME NEW e \in Request, k = EventCacheKey(e) PROVE FALSE
        <5>1. Stored(k) \subseteq {e}
          BY <4>1 DEF Stored, FindById, EventCacheKey, AllKey
        <5>2. cache[k] # {}
          BY <1>7, <3>1, <4>1 DEF EntryFits
        <5> QED
          BY <1>7, <3>1, <5>1, <5>2
      <4> QED
        BY <4>1
    <3>3. k \in {AllKey, ListKey(me[r])}
      <4>1. ASSUME NEW u \in Organizer, k = ListKey(u) PROVE u = me[r]
        <5>1. Stored(k) = FindByOrganizerId(u)
          BY <4>1, GatewayAssumption DEF Stored, ListKey, AllKey
        <5> QED
          BY <1>7, <2>1, <5>1 DEF FindByOrganizerId
      <4> QED
        BY <3>2, <4>1 DEF CacheKey
    <3>4. toDelete'[r] = <<AllKey, ListKey(me[r])>>
      BY <1>1, <2>3 DEF OwnTypeOK, Invalidate
    <3>5. /\ 1 \in DOMAIN <<AllKey, ListKey(me[r])>> /\ 2 \in DOMAIN <<AllKey, ListKey(me[r])>>
          /\ <<AllKey, ListKey(me[r])>>[1] = AllKey
          /\ <<AllKey, ListKey(me[r])>>[2] = ListKey(me[r])
      OBVIOUS
    <3>6. StillToDelete(r, k)'
      BY <3>3, <3>4, <3>5 DEF StillToDelete
    <3> QED
      BY <3>6 DEF Excused
  <2> QED
    BY <1>4, <2>2, <2>3
<1> QED
  BY <1>1, <1>2, <1>3, <1>5, <1>6, <1>7, ResolverStale

\* The other mutations store no event.
LEMMA OrdersStale ==
    ASSUME GatewayInv, StaleInv, NEW r \in Request, CreateOrderReturns(r) \/ PayOrder(r)
    PROVE  StaleInv'
<1>1. /\ OwnTypeOK /\ CatalogTypeOK /\ catalogAt[r] = "idle"
      /\ gatewayAt[r] \in {"createOrder", "payOrder"}
      /\ r \notin DOMAIN events /\ r \notin outdated
  BY DEF GatewayInv, CatalogInv, GatewayRequest, CallFits, IdleServices, CatalogRequest,
         CreateOrderReturns, PayOrder, StaleInv, StaleRequest
<1>2. UNCHANGED <<ask, me, listing, cache, outdated, events, catalogAt, catalogBody, catalogReply>>
  BY DEF CreateOrderReturns, PayOrder, cacheVars, catalogVars
<1>3. DisturbedGrows
  BY DEF CreateOrderReturns, PayOrder, Fails, Fault, DisturbedGrows
<1>4. \/ \E keys : Invalidate(r, keys)
      \/ UNCHANGED toDelete /\ \E answer : Answer(r, answer)
  BY DEF CreateOrderReturns, PayOrder, Fails, Throw
<1>5. /\ gatewayAt'[r] \in {"delete", "answered"}
      /\ \A s \in Request \ {r} : gatewayAt'[s] = gatewayAt[s] /\ toDelete'[s] = toDelete[s]
  BY <1>1, <1>4 DEF OwnTypeOK, Invalidate, Answer, Await
<1>6. StaleRequest(r)'
  BY <1>1, <1>2, <1>5 DEF StaleRequest
<1> QED
  BY <1>1, <1>2, <1>3, <1>5, <1>6, NoEventStale

\* The head of the list is deleted, the others remain to be.
LEMMA DeleteCachedStale ==
    ASSUME GatewayInv, StaleInv, NEW r \in Request, DeleteCached(r)
    PROVE  StaleInv'
<1>1. /\ OwnTypeOK /\ StaleRequest(r) /\ gatewayAt[r] = "delete" /\ r \notin outdated
      /\ toDelete[r] \in Seq(CacheKey) /\ toDelete[r] # <<>>
  <2>1. OwnTypeOK /\ CallFits(r) /\ StaleRequest(r) /\ gatewayAt[r] = "delete"
    BY DEF GatewayInv, GatewayRequest, DeleteCached, StaleInv
  <2>2. toDelete[r] \in Seq(CacheKey)
    BY <2>1 DEF OwnTypeOK
  <2>3. toDelete[r] # <<>>
    BY <2>1 DEF CallFits
  <2> QED
    BY <2>1, <2>2, <2>3 DEF StaleRequest
<1>2. UNCHANGED <<ask, me, listing, outdated, events, catalogAt, catalogBody, catalogReply>>
  BY DEF DeleteCached, catalogVars
<1>3. DisturbedGrows
  BY DEF DeleteCached, Fails, Fault, DisturbedGrows
<1>4. /\ gatewayAt'[r] \in {"delete", "answered"}
      /\ \A s \in Request \ {r} : gatewayAt'[s] = gatewayAt[s] /\ toDelete'[s] = toDelete[s]
  BY <1>1 DEF OwnTypeOK, DeleteCached, Fails, Throw, Answer
<1>5. \/ r \in disturbed'
      \/ DropEntry(r) /\ toDelete' = [toDelete EXCEPT ![r] = Tail(@)]
  BY DEF DeleteCached, Fails, Fault
<1>6. StaleRequest(r)'
  BY <1>1, <1>2, <1>3, <1>4 DEF StaleRequest, Creating, DisturbedGrows
<1>7. \A k \in CacheKey :
         \/ cache'[k] = cache[k]
         \/ cache'[k] = NotCached /\ k = Head(toDelete[r])
  BY <1>1 DEF DeleteCached, DropEntry, OwnTypeOK
<1>8. \A k \in CacheKey : cache'[k] = cache[k] \/ EntryFits(k)'
  BY <1>7 DEF EntryFits
<1>9. ASSUME NEW k \in CacheKey, cache'[k] = cache[k], cache[k] # NotCached,
             r \in Stored(k) \ cache[k]
      PROVE  Excused(r, k)'
  <2>1. CASE r \in disturbed'
    BY <2>1 DEF Excused
  <2>2. ASSUME DropEntry(r), toDelete' = [toDelete EXCEPT ![r] = Tail(@)] PROVE Excused(r, k)'
    <3>1. Excused(r, k) /\ k # Head(toDelete[r])
      BY <1>1, <1>9, <2>2 DEF StaleInv, EntryFits, DropEntry, OwnTypeOK
    <3>2. StillToDelete(r, k) => StillToDelete(r, k)'
      <4>1. ASSUME NEW n \in DOMAIN toDelete[r], toDelete[r][n] = k
            PROVE  StillToDelete(r, k)'
        <5>1. toDelete'[r] = Tail(toDelete[r])
          BY <1>1, <2>2 DEF OwnTypeOK
        <5>2. /\ n - 1 \in DOMAIN Tail(toDelete[r])
              /\ Tail(toDelete[r])[n - 1] = k
          BY <1>1, <3>1, <4>1
        <5> QED
          BY <5>1, <5>2 DEF StillToDelete
      <4> QED
        BY <4>1 DEF StillToDelete
    <3> QED
      BY <1>1, <1>2, <1>3, <1>9, <3>1, <3>2, ExcusedKept DEF Creating, OwnTypeOK
  <2> QED
    BY <1>5, <2>1, <2>2
<1> QED
  BY <1>1, <1>2, <1>3, <1>4, <1>6, <1>8, <1>9, ResolverStale

LEMMA ExpireEntryStale ==
    ASSUME GatewayInv, StaleInv, NEW key \in CacheKey, ExpireEntry(key)
    PROVE  StaleInv'
<1>1. /\ UNCHANGED <<ask, gatewayAt, me, listing, toDelete, outdated, events, catalogAt, catalogBody,
                     catalogReply, disturbed>>
      /\ OwnTypeOK /\ CatalogTypeOK /\ EventsGrow /\ DisturbedGrows
  BY DEF GatewayInv, CatalogInv, ExpireEntry, gatewayVars, catalogVars, EventsGrow, DisturbedGrows
<1>2. ASSUME NEW s \in Request PROVE StaleRequest(s)'
  BY <1>1, StaleOthers DEF StaleInv
<1>3. ASSUME NEW k \in CacheKey PROVE EntryFits(k)'
  <2>1. cache'[k] = NotCached \/ cache'[k] = cache[k]
    BY <1>1 DEF ExpireEntry, OwnTypeOK
  <2>2. CASE cache'[k] = NotCached
    BY <2>2 DEF EntryFits
  <2>3. ASSUME cache'[k] = cache[k] PROVE EntryFits(k)'
    <3>1. Stored(k)' = Stored(k) /\ Stored(k) \subseteq Request
      BY <1>1, StoredSame, StoredAreRequests
    <3>2. ASSUME NEW e \in Stored(k), Excused(e, k) PROVE Excused(e, k)'
      <4>1. StillToDelete(e, k) => StillToDelete(e, k)'
        BY <1>1 DEF StillToDelete
      <4> QED
        BY <1>1, <2>3, <3>1, <3>2, <4>1, ExcusedKept
    <3> QED
      BY <1>1, <2>3, <3>1, <3>2, EntryKept DEF StaleInv
  <2> QED
    BY <2>1, <2>2, <2>3
<1> QED
  BY <1>2, <1>3 DEF StaleInv

LEMMA StaleInitially ==
    ASSUME Init
    PROVE  StaleInv
<1>1. ASSUME NEW r \in Request PROVE StaleRequest(r)
  BY DEF Init, CatalogInit, StaleRequest
<1>2. ASSUME NEW k \in CacheKey PROVE EntryFits(k)
  BY DEF Init, EntryFits
<1> QED
  BY <1>1, <1>2 DEF StaleInv

LEMMA StalePreserved ==
    ASSUME GatewayInv, GatewayInv', StaleInv, [Next]_vars
    PROVE  StaleInv'
<1>1. ASSUME NEW r \in Request, Receive(r) \/ RestRequest(r) PROVE StaleInv'
  BY <1>1, RequestStale
<1>2. ASSUME NEW r \in Request, AtAccounts(r) PROVE StaleInv'
  <2>1. UNCHANGED <<gatewayVars, cacheVars, catalogVars>> /\ DisturbedGrows
    BY <1>2
    DEF AtAccounts, AccountsStep, SignupFindByEmail, SaveUser, LoginFindByEmail, GetMe,
        AccountsFails, Fault, DisturbedGrows
  <2> QED
    BY <2>1, QuietStale
<1>3. ASSUME NEW r \in Request, AtOrders(r) PROVE StaleInv'
  <2>1. CASE CatalogStep(r) /\ UNCHANGED <<gatewayVars, cacheVars>>
    BY <2>1, CatalogStale
  <2>2. ASSUME CallOnce(r, CustomerExists(r)) \/ Pause(r),
               UNCHANGED <<gatewayVars, cacheVars, catalogVars>>
        PROVE  StaleInv'
    <3>1. DisturbedGrows
      BY <2>2 DEF CallOnce, Pause, Fault, DisturbedGrows
    <3> QED
      BY <2>2, <3>1, QuietStale
  <2>3. ASSUME PlaceOrder(r) PROVE StaleInv'
    <3>1. UNCHANGED <<gatewayVars, cacheVars, catalogVars>> /\ DisturbedGrows
      BY <2>3 DEF PlaceOrder, Fault, DisturbedGrows
    <3> QED
      BY <3>1, QuietStale
  <2> QED
    BY <1>3, <2>1, <2>2, <2>3 DEF AtOrders
<1>4. ASSUME NEW r \in Request, AtGateway(r) PROVE StaleInv'
  BY <1>4, MeReturnsStale, AwaitUserStale, QueriesStale, CreateEventReturnsStale, OrdersStale,
     DeleteCachedStale
  DEF AtGateway
<1>5. ASSUME NEW k \in CacheKey, ExpireEntry(k) PROVE StaleInv'
  BY <1>5, ExpireEntryStale
<1>6. CASE UNCHANGED vars
  BY <1>6, QuietStale DEF vars, DisturbedGrows
<1> QED
  BY <1>1, <1>2, <1>3, <1>4, <1>5, <1>6 DEF Next, Step

(***************************************************************************)
(* Whatever the interleaving of queries and creations, an event is missing *)
(* in a cached list only for one of the reasons StaleExplained names: the  *)
(* invalidation of createEvent leaves no other stale entry behind.         *)
(***************************************************************************)
THEOREM StaleListsExplained == Spec => []StaleExplained
<1>1. Init => StaleInv
  BY StaleInitially
<1>2. StaleInv /\ GatewayInv /\ GatewayInv' /\ [Next]_vars => StaleInv'
  BY StalePreserved
<1>3. GatewayInv /\ StaleInv => StaleExplained
  BY DEF StaleInv, EntryFits, Excused, Creating, StaleExplained
<1> QED
  BY <1>1, <1>2, <1>3, GatewayInvariant, PTL DEF Spec
=============================================================================
