\* One worker, restarted when it is killed.
SPECIFICATION RestartedWorkerSpec

CONSTANTS
    w1 = w1
    w2 = w2
    o1 = o1
    Worker = {w1}
    Order = {o1}
    BatchSize = 2
    MaxRows = 2
    Faults = {"crash"}

PROPERTIES
    ClaimedIsPublished
