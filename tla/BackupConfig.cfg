SPECIFICATION FairSpec
CONSTANTS
    Backups = {b1}
    Svc = svc0
    None = None
    MaxEdits = 2
    MaxFaults = 1
INVARIANTS
    DeletedIsUnloaded
PROPERTIES
    EntriesHaveOneWriter
    AppliedIsLoaded
    CompletedIsLoaded
    
CHECK_DEADLOCK FALSE
