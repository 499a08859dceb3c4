SPECIFICATION Spec
CONSTANTS
    Lists = {a}
    Shapes <- MCReshapes
    Outer <- MCOuter
    Subs = {}
    Pad = 1
    Points <- MCRadiusPoints
    Radii = {2}
    Decs = {1}
    MaxEle = 2
    Askers = {a}
    MaxKept = 1
    Coordinates = {}
    Ghosts = {}
    a = a
INVARIANTS
    EveryRadiusNeighbours
