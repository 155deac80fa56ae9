SPECIFICATION Spec
CONSTANTS
    SeqMod = 2
    Capacity = 2
    None = None
    MaxTime = 3
    MaxMade = 4
    MaxQueue = 1
INVARIANTS
    Accounted
PROPERTIES
    MergedInOrder
