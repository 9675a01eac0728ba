SPECIFICATION FairSpec
CONSTANTS
    Kinds <- AllKinds
    CancelExempt = TRUE
    MaxCommands = 5
INVARIANTS
    ConsolesAgree
    LostOnlyAtStart

    
CHECK_DEADLOCK FALSE
