SPECIFICATION LifeSpec
CONSTANTS
    Apps = {a1, a2}
    Agent = agent
    Daemons = {a1, agent}
    Bundled = {a1}
    None = None
    MaxCrashes = 1
CHECK_DEADLOCK TRUE
INVARIANTS
    OneOwner
    SomebodyReachable
    OneApp
    QuitStopsChild
    NothingUnderfoot
PROPERTIES
    ChildFollowsApp
    AgentTakesOver
