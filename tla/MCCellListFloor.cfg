SPECIFICATION Spec
CONSTANTS
    Lists = {a}
    Shapes <- MCOneShape
    Outer <- MCOuter
    Subs = {}
    Pad = 1
    Points <- MCFloorPoints
    Radii = {}
    Decs = {1}
    MaxEle = 2
    Askers = {}
    MaxKept = 1
    Coordinates = {}
    Ghosts = {}
    a = a
INVARIANTS
    NoNeighbourMissed
