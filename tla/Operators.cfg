SPECIFICATION Spec
CONSTANTS
    IntBits = 4
    Mantissa = 5
    MaxExp = 12
    FracBits = 2
    ByteBits = 2
    Objects <- MCObjects
INVARIANTS
    NumbersAsLanguage
    ComparesAsLanguage
