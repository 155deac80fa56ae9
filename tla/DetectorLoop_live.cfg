SPECIFICATION FairSpec
CONSTANTS
    Actions = {ouch}
    Intervals = {fast}
    Requests = {r1}
    Warmup = 0
    Cooldown = 1
    None = None
    MaxTime = 1
    MaxSpanks = 1
CHECK_DEADLOCK TRUE
PROPERTIES
    ChangeTakesEffect
    StatusFollows
    SignalEnds
