SPECIFICATION Spec
CONSTANTS
    w1 = w1
    w2 = w2
    t1 = t1
    t2 = t2
    loud = loud
    soft = soft
    None = None
    Writers = {w1, w2}
    MaxEvents = 2
    Threads = {t1, t2}
    Scenarios <- All
    Limit = 2
    Window = 1
    View = 2
    Volumes = {loud, soft}
INVARIANTS
    KeepsTheLatest
    NoEchoes
    CaughtUp
    LimitKept
    VolumeWhole
CHECK_DEADLOCK FALSE
