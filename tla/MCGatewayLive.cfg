SPECIFICATION FairSpec
CONSTANTS
    Requests = {r1, r2, r3}
    MaxQueue = 1
    MaxChunks = 1
    InvalidText = TRUE
    None = None
PROPERTIES
    WaiterLeaves
    EveryRequestEnds
CHECK_DEADLOCK FALSE
