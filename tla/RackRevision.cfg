SPECIFICATION FairSpec
CONSTANTS
    Revisions = {a, b}
    None = None
    MaxSize = 3
    BatchSize = 2
    MaxEdits = 2
    MaxFaults = 2
INVARIANTS
    CompletedMeansSized

    
    
CHECK_DEADLOCK FALSE
