SPECIFICATION FairSpec
CONSTANTS
    Jobs = {j1, j2}
    None = None
    MaxDelay = 3
    SchedTick = 1
    IdlePoll = 2
    IdleTimeout = 4
CHECK_DEADLOCK TRUE
INVARIANTS
    RunsInTurn
    WakesInTime
    DeviceWaitsForSound
PROPERTIES
    JobsAreRun
    DeviceIsReleased
