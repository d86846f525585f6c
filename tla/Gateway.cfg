SPECIFICATION FairSpec

CONSTANTS
    r1 = r1
    r2 = r2
    u1 = u1
    u2 = u2
    a1 = a1
    a2 = a2
    a3 = a3
    long = long
    k1 = k1
    blank = blank
    removed = removed
    o1 = o1
    o2 = o2
    Nobody = Nobody
    NoKey = NoKey
    NotCached = NotCached
    Request = {r1, r2}
    OpsOf <- Ops
    TokensOf <- Tokens
    OrganizersOf <- Organizers
    Email = {a1, a2, a3, long}
    LongEmail = long
    Registered <- TwoUsers
    Removed = removed
    Staff = {u2}
    Placed <- OnePaid
    Organizer = {u1, u2, r1, r2, removed}
    EventKey = {k1, blank}
    BlankKey = blank
    TicketTypes = 2
    Timeout = 10
    Backoff = 1
    MaxRetries = 2
    LockTtl = 60
    Faults = {"db", "network", "deadline", "redis"}

INVARIANTS
    GatewayTypeOK
    SameKeySameEvent
    IncompleteExplained
    SignupAnswerTrue
    RetriesFitLock
    StaleExplained
    

PROPERTY
    EveryRequestOver

\* The system stops when every request is over.
CHECK_DEADLOCK FALSE
