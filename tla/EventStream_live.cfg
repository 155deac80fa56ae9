SPECIFICATION FairSpec
CONSTANTS
    Conns = {c1}
    Capacity = 2
    MaxSamples = 1
    Subscriptions <- MCSubscriptions
CHECK_DEADLOCK TRUE
PROPERTIES
    UnobservedGoesQuiet
    WatcherSeesFrames
    SpankArrives
