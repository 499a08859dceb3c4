SPECIFICATION Spec
CONSTANTS
    Obj = {g1}
    g1 = g1
    VProp = {p}
    p = p
    EProp = {e1}
    e1 = e1
    Unset = Unset
    Counts = {0}
    Slots = {2}
    MaxVertex = 3
    MaxDegree = 3
    MaxEdge = 4
    Careless = TRUE
PROPERTY EdgesOnlyGrow
