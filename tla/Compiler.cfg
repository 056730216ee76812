SPECIFICATION MCSpec
CONSTANTS
    MaxEvents = 4
    StatementEvents = 6
INVARIANT
    CompletesAsLanguage
PROPERTY
    ExpressionsAsLanguage
