SPECIFICATION MCSpec
CONSTANTS
    Elem = {0, 1, 2, 3, 4, 5}
    MaxOrig = 6
    MaxStart = 1
CHECK_DEADLOCK FALSE
INVARIANTS
    Compacted
    ReadsAhead
