SPECIFICATION Spec
CONSTANTS
    None = None
    ActivationDelay = 2
    ReleaseDelay = 1
    GapGrace = 1
    MinFrames = 2
    Times <- Ticks
    PublisherTurns = {}
    MaxFrames = 5
    MaxEdges = 1
INVARIANT HeldOpens
 
PROPERTY OpenedByGesture
PROPERTY ClosedByRelease
CHECK_DEADLOCK FALSE
