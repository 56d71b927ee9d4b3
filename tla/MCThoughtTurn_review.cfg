SPECIFICATION Spec
CONSTANTS
    t1 = t1
    t2 = t2
    t3 = t3
    t4 = t4
    light = light
    door = door
    fan = fan
    lock = lock
    None = None
    Turns = {t1, t2, t3}
    Actions = {light}
    ConfirmRequired = {}
    Untracked = {}
    Checkpointed = {light}
    LightState <- LightOn
    ObservationAttempts <- TwoEach
    Utterances <- ReviewTexts
    MemoryWindow = 2
    MaxInFlight = 2
    MaxRestarts = 1
    MayAbort = TRUE
    MayLoseMemory = FALSE
SYMMETRY Symmetry
INVARIANT ReviewedWasAccepted
INVARIANT BudgetKept
 
CHECK_DEADLOCK FALSE
