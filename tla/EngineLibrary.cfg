SPECIFICATION FairSpec
CONSTANTS
    MaxPromises = 3
    MaxEntries = 2
    MaxCalls = 2
    MaxDepth = 4
    MaxStops = 1
    RealmRefs = 1
    JobsMayRaise = FALSE
    Reentrant = FALSE
    Limits <- Unlimited
INVARIANTS
    NoReactionLeftBehind
    JobsRunToCompletion
PROPERTY AsyncResultDelivered
CHECK_DEADLOCK FALSE
