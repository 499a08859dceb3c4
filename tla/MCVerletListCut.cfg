SPECIFICATION VerletSpec
CONSTANTS
    Lists = {a, b}
    Boxes <- MCCutBoxes
    Domain <- MCDomain
    GhostWidth = 3
    Scenes <- MCCutScenes
    Radii = {2, 4}
    External = {}
    OfAnother = FALSE
    a = a
    b = b
INVARIANTS
    DomainSequence
