SPECIFICATION MCSpec
CONSTANTS
    o1 = o1
    o2 = o2
    o3 = o3
    e1 = e1
    e2 = e2
    Obj <- ThreeObjects
    Policy <- Policies
    Grow <- GrowPolicy
    Val <- TwoValues
    Garbage = Garbage
    MaxSize = 3
    MaxCapacity = 4
    SmallCapacity = 1
SYMMETRY Symmetry
INVARIANTS
    Fits
PROPERTIES
    ImplementsStore
