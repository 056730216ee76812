SPECIFICATION MCSpec
CONSTANTS
    MaxPromises = 4
    MaxOps = 4
    MaxDepth = 1
    UserKinds = {"prim", "thenable", "getter", "promise"}
    Ops = {"new", "call", "then"}
    MaxFunctions = 2
    MaxCalls = 5
    MaxFrames = 3
    MaxLoops = 2
    MaxIters = 3
    Consumers = {"forOf", "spread", "fromEntries", "toArray", "from", "map", "typedFrom", "promise", "typedArray"}
INVARIANTS
    OneWayToSettle
    OutcomesArrive
    AwaitsOnce
    ServesInOrder
PROPERTIES
    CombinesAsLanguage
    GeneratorRunsAlone
    IteratorsClosed
CHECK_DEADLOCK FALSE
