SPECIFICATION Spec
CONSTANTS
    o1 = o1
    o2 = o2
    m1 = m1
    m2 = m2
    m3 = m3
    ext = ext
    v1 = v1
    Grid <- OneGrid
    Mem <- Memories
    Ext <- External
    NoMem = NoMem
    Sizes <- Squares
    Val <- OneVal
    Garbage = Garbage
    ResizeExternal = TRUE
SYMMETRY Symmetry
PROPERTIES
    ResizeRetains
