SPECIFICATION Spec
CONSTANTS
    MaxPods = 3
    ScaleDownBatchSize = 1
    MaxEdits = 1
    MaxFaults = 2
    MaxParallelFaults = 0
PROPERTIES
    DeadKeepVolumes
CHECK_DEADLOCK FALSE
