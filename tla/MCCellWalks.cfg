SPECIFICATION WalksSpec
CONSTANTS
    CellLists = {a, b}
    LowWords = 4
    HighWords = 2
    Box <- MCBox
    Div <- MCDiv
    Populations <- MCPopulations
    CutOff = 4
    Curve <- MCCurve
    AnyFirst = FALSE
    Crowded = FALSE
    a = a
    b = b
INVARIANTS
    WalksTypeOK
    NeighboursOfAllSets
    PairsOnceOverSets
    ParticlesOnce
