SPECIFICATION Spec
CONSTANTS
    Obj = {g1, g2}
    g1 = g1
    g2 = g2
    VProp = {p}
    p = p
    EProp = {e1}
    e1 = e1
    Unset = Unset
    Counts = {0, 2}
    Slots = {1, 2}
    MaxVertex = 2
    MaxDegree = 2
    MaxEdge = 3
    Careless = FALSE
INVARIANT WellFormed
INVARIANT WalkVisitsEdges
PROPERTY ImplementsGraph
SYMMETRY Symmetry
