SPECIFICATION FairSpec
CONSTANTS
    OpSeq <- MCOneOp
    MaxBatches = 2
    MaxGen = 1
    LostAnswers = FALSE
    MaxFaults = 1
PROPERTY OperationKeepsReporting
CHECK_DEADLOCK FALSE
