SPECIFICATION FairSpec
CONSTANTS
    MaxPods = 3
    ScaleDownBatchSize = 2
    MaxEdits = 2
    MaxFaults = 2
    MaxParallelFaults = 1

    
PROPERTIES
    OnlyShiftedLosesVolumes
    RemovedWereSelected
    KeptAreInService
    Settles
CHECK_DEADLOCK FALSE
