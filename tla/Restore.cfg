SPECIFICATION FairSpec
CONSTANTS
    MaxJobs = 4
    MaxTouches = 1
    MaxChanges = 2
    MaxLosses = 1
    MaxRestarts = 1
    MaxOutages = 1
    MayVanish = TRUE
INVARIANTS
    NoStrayJob
PROPERTIES
    ImplementsContract
    
    DeletionCompletes
CHECK_DEADLOCK FALSE
