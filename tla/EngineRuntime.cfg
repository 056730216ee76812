SPECIFICATION Spec
CONSTANTS
    MaxPromises = 1
    MaxEntries = 1
    MaxCalls = 1
    MaxDepth = 2
    MaxStops = 1
    RealmRefs = 1
    JobsMayRaise = FALSE
    Reentrant = FALSE
    Limits = {}
INVARIANT RuntimeReleased
CHECK_DEADLOCK FALSE
