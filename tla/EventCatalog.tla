----------------------------- MODULE EventCatalog -----------------------------
(***************************************************************************)
(* The events of orders-service: POST /events (CreateEventUseCase), the    *)
(* tables events and ticket_types, and what the queries read.  An event    *)
(* and each of its ticket types are stored by statements of their own, in  *)
(* no transaction; catalogAt[r] names the one request r awaits.            *)
(*                                                                         *)
(* An event takes the identity of the request that creates it.  Titles,    *)
(* dates and prices are left out, but for what a check makes of them.      *)
(***************************************************************************)
EXTENDS ServiceCalls

CONSTANTS
    Organizer,    \* organizer ids a request may name
    EventKey,     \* idempotency keys: values of the x-idempotency-key header
    NoKey,        \* the request has no such header
    BlankKey,     \* the empty string: stored like any key, never looked up
    TicketTypes   \* ticket types of an event

ASSUME CatalogAssumption == NoKey \notin EventKey /\ TicketTypes \in Nat \ {0}

VARIABLES
    events,        \* the table events: a function on the ids present
    ticketTypes,   \* ticketTypes[e]: rows of event e in table ticket_types
    catalogAt,     \* the statement a request awaits
    catalogBody,   \* the body of the request, and its key
    catalogReply   \* the status it was answered with, and an event

catalogVars == <<events, ticketTypes, catalogAt, catalogBody, catalogReply>>

NoEvent == "no event"

(***************************************************************************)
(* valid: the schema and the checks of the dates are met.  unstorable: the *)
(* first row that is refused, the event's (0: a title, venue or key that   *)
(* its column has no room for) or that of a ticket type (a price or name   *)
(* beyond the schema of the row: 2^31 - 1, 255 characters); the schema of  *)
(* the body sets no such limits.                                           *)
(***************************************************************************)
AllStorable == TicketTypes + 1

CreateEventRequest ==
    {body \in [organizer : Organizer, key : EventKey \cup {NoKey},
               valid : BOOLEAN, unstorable : 0 .. AllStorable] :
        body.valid \/ body.unstorable = AllStorable}

NoRequestYet == [valid |-> FALSE]

CatalogTypeOK ==
    /\ DOMAIN events \subseteq Request
    /\ events \in [DOMAIN events -> [organizer : Organizer, key : EventKey \cup {NoKey}]]
    /\ ticketTypes \in [Request -> 0 .. TicketTypes]
    /\ catalogAt \in [Request -> {"idle", "findByKey", "saveEvent", "saveTicketType", "done"}]
    /\ catalogBody \in [Request -> CreateEventRequest \cup {NoRequestYet}]
    /\ catalogReply \in [Request -> [status : {0, 201, 400, 500}, event : Request \cup {NoEvent}]]

CatalogInit ==
    /\ events = [e \in {} |-> NoRequestYet]
    /\ ticketTypes = [e \in Request |-> 0]
    /\ catalogAt = [r \in Request |-> "idle"]
    /\ catalogBody = [r \in Request |-> NoRequestYet]
    /\ catalogReply = [r \in Request |-> [status |-> 0, event |-> NoEvent]]
-----------------------------------------------------------------------------
CatalogGo(r, await) ==
    /\ catalogAt' = [catalogAt EXCEPT ![r] = await]
    /\ UNCHANGED catalogReply

CatalogAnswer(r, status, event) ==
    /\ catalogAt' = [catalogAt EXCEPT ![r] = "done"]
    /\ catalogReply' = [catalogReply EXCEPT ![r] = [status |-> status, event |-> event]]

CatalogThrow(r, error) == CatalogAnswer(r, OrdersStatus(error), NoEvent)

CatalogFails(r) == Fault(r, "db") /\ CatalogThrow(r, "Other")

EventsWithKey(key) == {e \in DOMAIN events : key # NoKey /\ events[e].key = key}

CreateEvent(r, body) ==
    /\ catalogAt[r] = "idle"
    /\ catalogBody' = [catalogBody EXCEPT ![r] = body]
    /\ \/ ~body.valid /\ CatalogThrow(r, "Validation")
       \/ /\ body.valid
          /\ CatalogGo(r, IF body.key \in {NoKey, BlankKey} THEN "saveEvent" ELSE "findByKey")
    /\ UNCHANGED <<events, ticketTypes, disturbed>>

FindEventByKey(r) ==
    /\ catalogAt[r] = "findByKey"
    /\ LET found == EventsWithKey(catalogBody[r].key)
       IN  \/ /\ UNCHANGED disturbed
              /\ \/ \E e \in found : CatalogAnswer(r, 201, e)
                 \/ found = {} /\ CatalogGo(r, "saveEvent")
           \/ CatalogFails(r)
    /\ UNCHANGED <<events, ticketTypes, catalogBody>>

InsertEvent(r) ==
    events' = [e \in DOMAIN events \cup {r} |->
                  IF e = r
                  THEN [organizer |-> catalogBody[r].organizer, key |-> catalogBody[r].key]
                  ELSE events[e]]

SaveEventAnyway(r) ==   \* mutant: idempotency_key is not unique
    /\ catalogAt[r] = "saveEvent"
    /\ InsertEvent(r)
    /\ CatalogGo(r, "saveTicketType")
    /\ UNCHANGED <<ticketTypes, catalogBody, disturbed>>

\* INSERT; the database refuses a row that is too long, or a key that is there already.
SaveEvent(r) ==
    /\ catalogAt[r] = "saveEvent"
    /\ LET free == EventsWithKey(catalogBody[r].key) = {} /\ catalogBody[r].unstorable # 0
       IN  \/ /\ free
              /\ InsertEvent(r)
              /\ \/ CatalogGo(r, "saveTicketType") /\ UNCHANGED disturbed
                 \/ CatalogFails(r)
           \/ ~free /\ CatalogThrow(r, "Other") /\ UNCHANGED <<events, disturbed>>
           \/ CatalogFails(r) /\ UNCHANGED events
    /\ UNCHANGED <<ticketTypes, catalogBody>>

InsertTicketType(r) == ticketTypes' = [ticketTypes EXCEPT ![r] = @ + 1]

NextTicketType(r) ==
    IF ticketTypes[r] + 1 = TicketTypes
    THEN CatalogAnswer(r, 201, r) ELSE CatalogGo(r, "saveTicketType")

SkipUnstorable(r) ==    \* mutant: a ticket type that cannot be stored is left out
    /\ catalogAt[r] = "saveTicketType"
    /\ IF catalogBody[r].unstorable = ticketTypes[r] + 1
       THEN CatalogAnswer(r, 201, r) /\ UNCHANGED ticketTypes
       ELSE InsertTicketType(r) /\ NextTicketType(r)
    /\ UNCHANGED <<events, catalogBody, disturbed>>

\* The row is parsed, and then inserted.
SaveTicketType(r) ==
    /\ catalogAt[r] = "saveTicketType"
    /\ LET refused == catalogBody[r].unstorable = ticketTypes[r] + 1
       IN  \/ refused /\ CatalogThrow(r, "Zod") /\ UNCHANGED <<ticketTypes, disturbed>>
           \/ /\ ~refused
              /\ \/ InsertTicketType(r) /\ NextTicketType(r) /\ UNCHANGED disturbed
                 \/ CatalogFails(r) /\ (InsertTicketType(r) \/ UNCHANGED ticketTypes)
    /\ UNCHANGED <<events, catalogBody>>

CatalogStep(r) ==
    FindEventByKey(r) \/ SaveEvent(r) \/ SaveTicketType(r)

(***************************************************************************)
(* What the queries read, each in one statement.  GET /events/:id reads    *)
(* the ticket types in a second one; they are not shown to anybody here.   *)
(***************************************************************************)
FindAll == DOMAIN events

FindByOrganizerId(u) == {e \in DOMAIN events : events[e].organizer = u}

FindById(e) == {e} \cap DOMAIN events
-----------------------------------------------------------------------------
(***************************************************************************)
(* Properties                                                              *)
(***************************************************************************)
Created(r) == catalogReply[r].status = 201

(***************************************************************************)
(* Creations with one key that succeed get one event, although the lookup  *)
(* and the INSERT of several requests interleave: the slower one fails.    *)
(***************************************************************************)
SameKeySameEvent ==
    \A r, s \in Request :
        /\ Created(r) /\ Created(s)
        /\ catalogBody[r].key = catalogBody[s].key
        /\ catalogBody[r].key \notin {NoKey, BlankKey}
        => catalogReply[r].event = catalogReply[s].event

(***************************************************************************)
(* An event that lacks ticket types was never announced by the request     *)
(* that created it: that request has not finished, was refused because of  *)
(* a ticket type, or met a failure.  (A retry with its key announces it.)  *)
(***************************************************************************)
IncompleteExplained ==
    \A e \in DOMAIN events :
        ticketTypes[e] < TicketTypes =>
            \/ catalogAt[e] = "saveTicketType"
            \/ catalogReply[e].status = 400 /\ catalogBody[e].unstorable = ticketTypes[e] + 1
            \/ catalogReply[e].status = 500 /\ e \in disturbed
=============================================================================
