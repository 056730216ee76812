SPECIFICATION MCSpec
CONSTANTS
    Handlers = {h1, h2, h3}
    Console = Console
    NoHandler = NoHandler
    Async = {h2}
    ReadsArgs = {h1, h2}
    Properties = {console, p}
    ConsoleProp = console
    MaxFunctions = 3
    Objects = {g, a, b}
    Global = g
    Wrappers = {w1, w2, w3}
    None = None
    Bits32 = 3
    Bits53 = 4
    Bits64 = 6
    Units = {34, 65, 92, 169, 195, 8364}
    HexUnits = {0, 9, 15, 16, 17}
    MaxLen = 4
    CounterInit = 3
    MaxDepth = 3
    MaxHandlers = 1
    MaxLine = 1
    Values = {a, b}
    Others = {o1}
    MaxRefs = 3
    MaxRoots = 1
    UIntMod = 128
    TagInt = 64
    AtomMax = 8
    HashMod = 16
    FirstSize = 6
    FirstHash = 2
    Classes = {c1}
    MaxStr = 8
    MaxHeld = 2
    ObjectIds = {1, 2, 3}
    ArrayProto = 1
    Names = {1, 3}
    Length = 1
    Flags = {1, 2}
    Contents = {1}
    Configurable = {1}
    InitialSize = 1
    InitialHash = 2
    InitialTable = 2
    CompactMin = 2
    HashMul = 5
    MaxShape = 7
    MaxProps = 3
    MaxSteps = 4
    Keys = {a, b}
    Addresses = {w1, w2, w3}
    Iters = {i1, i2}
    MaxAdds = 4
SYMMETRY Symmetry
INVARIANTS
    CallsOwnHandler
    RefCountExact
    NoDanglingReference
    ValuesCross
    TextsCross
    InterruptStops
    HeapSound
    MapWalksAsLanguage
PROPERTIES
    HandlersStay
    AtomsAgree
    ObjectsAreTheirOwn
CHECK_DEADLOCK FALSE
