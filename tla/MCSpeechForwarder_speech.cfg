SPECIFICATION FairSpec
CONSTANTS
    Poison = Poison
    QueueSize = 2
    MaxTurns = 2
    MaxDeltas <- Deltas
INVARIANT InOrder
INVARIANT Accounted
 
PROPERTY TurnPasses
CHECK_DEADLOCK FALSE
