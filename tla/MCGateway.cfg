SPECIFICATION Spec
CONSTANTS
    Requests = {r1, r2, r3, r4}
    MaxQueue = 2
    MaxChunks = 1
    InvalidText = FALSE
    None = None
SYMMETRY Interchangeable
INVARIANTS
    TypeOK
    OneAtATime
    QueueHoldsWaiters
    CountersAddUp
    OwnTurnOnly
    InStep
PROPERTY FirstComeFirstServed
CHECK_DEADLOCK FALSE
