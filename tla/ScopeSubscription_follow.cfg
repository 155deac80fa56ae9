SPECIFICATION FairScopeSpec
CONSTANTS
    MaxAsked = 2
    MaxStream = 3
CHECK_DEADLOCK TRUE
INVARIANTS
    FramesAreWhole
    SubscriptionAgrees
PROPERTIES
    TelemetryComes
    TelemetryCeases
