SPECIFICATION DetectorSpec
CONSTANTS
    Settings <- MCSettings
    Scale <- MCScale
    WarmupSamples = 1
    Hold = 2
    Window = 2
    Mags = {0, 2}
    Agrees = {1, 2}
    Nil = Nil
    Res = 3
    MagRes = 3
    Labels <- MCLabels
    Expects <- MCExpects
    Metas <- MCMetas
    MaxStamp = 5
    MaxFrames = 5
INVARIANTS
    HitsAreSlaps
    RotationIsRecent
    RoundTrip
    ReplayInterleaves
