SPECIFICATION Spec
CONSTANTS
    Lists = {a, b}
    Shapes <- MCShapes
    Outer <- MCOuter
    Subs <- MCSubs
    Pad = 1
    Points <- MCPoints
    Radii = {4}
    Decs = {1}
    MaxEle = 3
    Askers = {a}
    MaxKept = 2
    Coordinates <- MCCorner
    Ghosts = {}
    a = a
    b = b
INVARIANTS
    TypeOK
    OwnInDomainCells
    NoNeighbourMissed
    PairOnce
    RadiusNeighbours
