SPECIFICATION FairSpec
CONSTANTS
    t1 = t1
    t2 = t2
    t3 = t3
    t4 = t4
    light = light
    door = door
    fan = fan
    lock = lock
    None = None
    Turns = {t1, t2}
    Actions = {light, door, fan, lock}
    ConfirmRequired = {door, lock}
    Untracked = {fan, lock}
    Checkpointed = {light}
    LightState <- LightOn
    ObservationAttempts <- ThreeEach
    Utterances <- TurnsTexts
    MemoryWindow = 2
    MaxInFlight = 2
    MaxRestarts = 0
    MayAbort = TRUE
    MayLoseMemory = FALSE
 
 
PROPERTY EveryTurnEnds
CHECK_DEADLOCK FALSE
