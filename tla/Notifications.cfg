\* Two consumers of a group, three messages, every fault.
SPECIFICATION NotifSpec

CONSTANTS
    c1 = c1
    c2 = c2
    m1 = m1
    m2 = m2
    k1 = k1
    k2 = k2
    broken = broken
    Nobody = Nobody
    NoOffset = NoOffset
    NoKey = NoKey
    Consumer = {c1, c2}
    Message = {m1, m2, broken}
    KeyOf <- Keys
    MaxMessages = 3
    Faults = {"db", "crash", "rebalance", "signal", "secondSignal", "late"}

INVARIANTS
    NotifTypeOK
    PassedIsMarked
    MarkedIsHandled

PROPERTY
    ImplementsAtMostOnce
