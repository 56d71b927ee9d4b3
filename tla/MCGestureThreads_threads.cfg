SPECIFICATION ThreadsSpec
CONSTANTS
    h1 = h1
    h2 = h2
    Threads = {h1, h2}
    None = None
    ActivationDelay = 1
    ReleaseDelay = 1
    GapGrace = 0
    MinFrames = 1
    Times <- Ticks
    MaxPosts = 4
SYMMETRY Symmetry
INVARIANT AloneIsAtomic
CHECK_DEADLOCK FALSE
