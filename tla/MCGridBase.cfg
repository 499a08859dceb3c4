SPECIFICATION Spec
CONSTANTS
    o1 = o1
    o2 = o2
    m1 = m1
    m2 = m2
    m3 = m3
    ext = ext
    v1 = v1
    Grid <- TwoGrids
    Mem <- Memories
    Ext <- External
    NoMem = NoMem
    Sizes <- Grows
    Val <- OneVal
    Garbage = Garbage
    ResizeExternal = FALSE
SYMMETRY Symmetry
INVARIANTS
    RefCounts
    NoLeak
    Backed
    NotShared
PROPERTIES
    ImplementsStore
