SPECIFICATION Spec
CONSTANTS
    None = None
    Texts <- Sayings
    Observations <- Snapshots
    Registry <- Offered
    ConfirmRequired <- OnlyDoor
    Untracked <- OnlyAircon
    Checkpointed <- OnlyLightOff
    Model = TRUE
    MaxAttempts = 2
INVARIANTS
    NewActionClosesQuestion
    
    
PROPERTIES
    FeedbackIsAnAnswer
    
CHECK_DEADLOCK FALSE
