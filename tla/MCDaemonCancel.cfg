SPECIFICATION Spec
CONSTANTS
    Requests = {r1, r2, r3}
    Handles = {h1}
    Keys = {k1}
    Digests = {d1, d2}
    None = None
SYMMETRY Interchangeable
INVARIANT UnknownWasNotGenerating
CHECK_DEADLOCK FALSE
