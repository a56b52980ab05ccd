SPECIFICATION Spec
CONSTANTS
    Requests = {r1, r2}
    MaxQueue = 1
    MaxChunks = 2
    InvalidText = TRUE
    None = None
INVARIANT OwnTurnOnly
CHECK_DEADLOCK FALSE
