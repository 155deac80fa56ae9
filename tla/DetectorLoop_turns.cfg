SPECIFICATION Spec
CONSTANTS
    Actions = {ouch}
    Intervals = {fast, slow}
    Requests = {r1}
    Warmup = 1
    Cooldown = 2
    None = None
    MaxTime = 4
    MaxSpanks = 2
CHECK_DEADLOCK TRUE
INVARIANTS
    ClockAgrees
    KeptTestsRun
PROPERTIES
    SpanksAreCurrent
