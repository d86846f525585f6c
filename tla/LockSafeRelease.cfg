\* Shared processes, nothing fails, keys may expire: SafeRelease does not hold.
SPECIFICATION LockSpec

CONSTANTS
    r1 = r1
    r2 = r2
    r3 = r3
    r4 = r4
    p1 = p1
    p2 = p2
    t1 = t1
    t2 = t2
    NoRequest = NoRequest
    Request = {r1, r2, r3, r4}
    TicketType = {t1, t2}
    TicketOf <- MostOnT1
    Process = {p1, p2}
    HomeOf <- SharedHome
    Faults = {}

PROPERTY
    SafeRelease

\* Every request acquires once: the run ends when all are out.
CHECK_DEADLOCK FALSE
