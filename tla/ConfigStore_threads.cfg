SPECIFICATION Spec
CONSTANTS
    Conns = {c1, c2}
    WorkerThreads = 2
    IOFails = {"open", "write", "sync", "rename", "chmod"}
CONSTANTS
    Bodies <- MCBodies
    InvalidBodies <- MCInvalidBodies
    Modern <- MCModern
    BodyLen <- MCBodyLen
    DefaultBody = "plain"
    Absent = Absent
    Empty = Empty
    Torn = Torn
    Broken = Broken
    Unreadable = Unreadable
SYMMETRY Symmetry
CHECK_DEADLOCK TRUE
INVARIANTS
    LiveIsUsable
    TornOnlyAfterOverlap
    SettledSurvivesRestart
PROPERTIES
    BrokenConfigKept
