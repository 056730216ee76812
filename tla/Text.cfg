SPECIFICATION MCSpec
CHECK_DEADLOCK FALSE
CONSTANTS
    MaxChunks = 5
    MaxTree = 9
    MaxBody = 4
    MaxNumber = 5
    MaxString = 3
    MaxSteps = 400
INVARIANTS
    JSONAsLanguage
    RegExpAsLanguage
