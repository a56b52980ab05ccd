SPECIFICATION FairSpec
CONSTANTS
    Requests = {r1, r2, r3}
    Handles = {h1}
    Keys = {k1}
    Digests = {d1, d2}
    None = None
INVARIANTS
    TypeOK
    ServersAccountedFor
    OneGenerationPerKey
    SameKeySameRequest
    CancelFindsNothing
PROPERTIES
    DrainedTakesNoWork
    EveryFrameAnswered
CHECK_DEADLOCK FALSE
