\* The code's proportions at scale 6: the limit is met in the first second,
\* which starts at nonce 1, and in a later one.
CONSTANTS
    Scale = 6
    OpsPerTick = 5
    MaxClock = 4
SPECIFICATION Spec
\* The clock stops at its bound.
CHECK_DEADLOCK FALSE
PROPERTY NonceGrows
