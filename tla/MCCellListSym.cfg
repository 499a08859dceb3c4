SPECIFICATION Spec
CONSTANTS
    N = 3
    Points <- MCPoints
    Outer <- MCOuter
    Splits <- MCSplits
    Pad = 1
    Ghost = 4
INVARIANTS
    EachPairOnce
    WalkInCells
PROPERTIES
    Terminates
CHECK_DEADLOCK FALSE
