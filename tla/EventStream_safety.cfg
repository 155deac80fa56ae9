SPECIFICATION Spec
CONSTANTS
    Conns = {c1, c2}
    Capacity = 2
    MaxSamples = 1
    Subscriptions <- MCSubscriptions
SYMMETRY Symmetry
CHECK_DEADLOCK TRUE
INVARIANTS
    CountIsExact
PROPERTIES
    FramesAreWatched
