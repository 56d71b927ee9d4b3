SPECIFICATION Spec
CONSTANTS
    Leader = leader
    Kids = {k1, k2}
    Platforms <- BothPlatforms
INVARIANTS
    ReportsEmptyTree
    OnlyOwnSignalled
    HandlesReturned
PROPERTIES
    NoRunAfterUnproven
    
CHECK_DEADLOCK FALSE
