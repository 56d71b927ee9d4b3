SPECIFICATION ThreadsSpec
CONSTANTS
    h1 = h1
    h2 = h2
    Threads = {h1, h2}
    None = None
    ActivationDelay = 0
    ReleaseDelay = 1
    GapGrace = 0
    MinFrames = 1
    Times <- Ticks
    MaxPosts = 2
SYMMETRY Symmetry
INVARIANT NewTurnPerStart
CHECK_DEADLOCK FALSE
