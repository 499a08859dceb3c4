SPECIFICATION VerletSpec
CONSTANTS
    Lists = {a, b}
    Boxes <- MCBoxes
    Domain <- MCDomain
    GhostWidth = 3
    Scenes <- MCScenes
    Radii = {2, 4}
    External <- MCExternal
    OfAnother = FALSE
    a = a
    b = b
SYMMETRY ListNames
INVARIANTS
    NeighboursExact
    PairsOnce
    DomainSequence
