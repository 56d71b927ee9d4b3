SPECIFICATION Spec
CONSTANTS
    t1 = t1
    t2 = t2
    t3 = t3
    t4 = t4
    light = light
    door = door
    fan = fan
    lock = lock
    None = None
    Turns = {t1, t2, t3, t4}
    Actions = {door, fan}
    ConfirmRequired = {door}
    Untracked = {}
    Checkpointed = {fan}
    LightState <- NoLights
    ObservationAttempts <- TwoEach
    Utterances <- SerialTexts
    MemoryWindow = 3
    MaxInFlight = 1
    MaxRestarts = 0
    MayAbort = FALSE
    MayLoseMemory = TRUE
SYMMETRY Symmetry
INVARIANT TurnWithinBudget
PROPERTY ApprovalSpec
CHECK_DEADLOCK FALSE
