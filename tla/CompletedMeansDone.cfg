SPECIFICATION Spec
CONSTANTS
    Revisions = {a, b}
    None = None
    MaxSize = 2
    BatchSize = 1
    MaxEdits = 2
    MaxFaults = 0
INVARIANT CompletedMeansDone
CHECK_DEADLOCK FALSE
