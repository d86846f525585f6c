\* One order, two payments, nothing fails.
SPECIFICATION Spec

CONSTANTS
    r1 = r1
    r2 = r2
    r3 = r3
    r4 = r4
    p1 = p1
    p2 = p2
    t1 = t1
    t2 = t2
    e1 = e1
    e2 = e2
    e3 = e3
    k1 = k1
    blank = blank
    long = long
    NoRequest = NoRequest
    NoKey = NoKey
    Request = {r1, r2, r3}
    Payment = {r2, r3}
    TicketType = {t1}
    TicketOf <- OneTicket
    Process = {p1, p2}
    HomeOf <- Homes
    Event = {e1}
    StoredEvent = {e1}
    EventOf <- EventOfTicket
    Capacity <- TwoLeft
    Price <- UnitPrice
    Int4Max = 10
    Quantity = {1}
    Key = {}
    BlankKey = blank
    LongKey = {long}
    Faults = {}

INVARIANTS
    PaidOnce

\* The system stops when every request is over and every key has expired.
CHECK_DEADLOCK FALSE
