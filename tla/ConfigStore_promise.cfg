SPECIFICATION Spec
CONSTANTS
    Conns = {c1, c2}
    WorkerThreads = 2
    IOFails <- SysCalls
CONSTANTS
    Bodies <- MCBodies
    InvalidBodies <- MCInvalidBodies
    Modern <- MCModern
    BodyLen <- MCBodyLen
    DefaultBody = "plain"
    Absent = Absent
    Empty = Empty
    Torn = Torn
    Broken = Broken
    Unreadable = Unreadable
SYMMETRY Symmetry
CHECK_DEADLOCK TRUE
PROPERTIES
    ChangesAreSavedFirst
