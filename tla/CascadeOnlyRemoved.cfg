SPECIFICATION Spec
CONSTANTS
    MaxPods = 3
    ScaleDownBatchSize = 1
    MaxEdits = 2
    MaxFaults = 0
    MaxParallelFaults = 0
PROPERTIES
    CascadeOnlyRemoved
CHECK_DEADLOCK FALSE
