SPECIFICATION Spec
CONSTANTS
    MaxPromises = 4
    MaxEntries = 2
    MaxCalls = 2
    MaxDepth = 4
    MaxStops = 1
    RealmRefs = 1
    JobsMayRaise = TRUE
    Reentrant = TRUE
    Limits = {1}
INVARIANTS
    PromiseFollowsFuture
    QueueFIFO
    ReactionQueuedOnce
    NewPromiseFreedOnce
PROPERTY ImplementsAsyncCalls
CHECK_DEADLOCK FALSE
