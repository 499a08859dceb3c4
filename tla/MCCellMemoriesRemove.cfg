SPECIFICATION MCSpec
CONSTANTS
    o1 = o1
    o2 = o2
    e1 = e1
    e2 = e2
    Obj <- TwoObjects
    Ele <- TwoElements
    Sizes = {0, 2}
    Slots = {1, 2}
    MaxSlot = 4
    MaxEle = 2
    Garbage = Garbage
PROPERTIES
    RemoveTakesEle
