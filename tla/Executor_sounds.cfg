SPECIFICATION ExecSpec
CONSTANTS
    Files = {1, 2, 3}
    Folder = Folder
    Broken = {3}
    Raw <- MCRaw
    Spanks <- MCSpanks
    Unset = Unset
    MaxRotation = 6
INVARIANTS
    PicksFollowOrder
    SoundsAreLoaded
