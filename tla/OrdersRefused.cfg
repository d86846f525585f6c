\* Refusals and lost stock when nothing fails: wrong event, unknown event, no stock,
\* total too large, key in use, blank or too long.
SPECIFICATION Spec

CONSTANTS
    r1 = r1
    r2 = r2
    r3 = r3
    r4 = r4
    p1 = p1
    p2 = p2
    t1 = t1
    t2 = t2
    e1 = e1
    e2 = e2
    e3 = e3
    k1 = k1
    blank = blank
    long = long
    NoRequest = NoRequest
    NoKey = NoKey
    Request = {r1, r2}
    Payment = {}
    TicketType = {t1}
    TicketOf <- OneTicket
    Process = {p1}
    HomeOf <- OneHome
    Event = {e1, e2, e3}
    StoredEvent = {e1, e2}
    EventOf <- EventOfTicket
    Capacity <- TwoLeft
    Price <- UnitPrice
    Int4Max = 1
    Quantity = {1, 2}
    Key = {k1, blank, long}
    BlankKey = blank
    LongKey = {long}
    Faults = {}

INVARIANTS
    RefusalLeavesNoOrder
    LeakExplained
    NothingLeftBehind

\* The system stops when every request is over and every key has expired.
CHECK_DEADLOCK FALSE
