SPECIFICATION MCSpec
CONSTANTS
    Names = {"m1", "m2", "m3"}
    MaxFaults = 2
    MaxImports = 2
    MaxDefs = 6
INVARIANTS
    PropertiesAsLanguage
    ProxiesKeepInvariants
    ArraysAsLanguage
    ExportsResolve
PROPERTY ModulesRunInOrder
CHECK_DEADLOCK FALSE
