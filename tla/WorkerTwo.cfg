\* Two workers, batches of two, three rows, every fault.
SPECIFICATION WorkerSpec

CONSTANTS
    w1 = w1
    w2 = w2
    o1 = o1
    Worker = {w1, w2}
    Order = {o1}
    BatchSize = 2
    MaxRows = 3
    Faults = {"db", "kafka", "crash", "signal", "secondSignal"}

INVARIANTS
    WorkerTypeOK
    SentIsPublished
    ClaimedByOne

PROPERTIES
    ResolvedStays
    NeverSentAgain

SYMMETRY Swap
