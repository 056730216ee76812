SPECIFICATION Spec
CONSTANTS
    LIMB_BITS = 4
    UDIV1NORM_THRESHOLD = 2
    DIVNORM_LARGE_THRESHOLD = 3
INVARIANT
    BigFloatsExact
