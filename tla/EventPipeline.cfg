\* One worker that is told to stop and started again while Kafka fails, and one consumer.
SPECIFICATION PipelineSpec

CONSTANTS
    w1 = w1
    o1 = o1
    c1 = c1
    Nobody = Nobody
    NoOffset = NoOffset
    NoKey = NoKey
    Worker = {w1}
    Order = {o1}
    BatchSize = 2
    MaxRows = 3
    Faults = {"kafka", "signal"}
    Consumer = {c1}
    ConsumerFaults = {}

INVARIANTS
    DisorderBounded
    NothingStranded
    HandledInBatchOrder

PROPERTIES
    HandledOncePerRow
    PendingIsClaimed
    ClaimedIsResolved
    HangsOnlyAsleep
    SentIsHandled

\* A worker signalled while it sleeps never moves again; with every row inserted the
\* system stops.
CHECK_DEADLOCK FALSE
