SPECIFICATION Spec
CONSTANTS
    N = 3
    Points <- MCBorderPoints
    Outer <- MCOuter
    Splits = {6}
    Pad = 1
    Ghost = 4
INVARIANTS
    EachPairOnce
CHECK_DEADLOCK FALSE
