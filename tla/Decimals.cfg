SPECIFICATION Spec
CONSTANTS
    LIMB_BITS = 8
    LIMB_DIGITS = 2
    UDIV1NORM_THRESHOLD = 2
    DIVNORM_LARGE_THRESHOLD = 3
INVARIANT
    DecimalsExact
