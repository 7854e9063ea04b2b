SPECIFICATION FairSpec
CONSTANTS
    OpSeq <- MCOpSeq
    MaxBatches = 2
    MaxGen = 2
    LostAnswers = TRUE
    MaxFaults = 2
INVARIANTS
    TypeOK
    ReadyImpliesAtRest
    
    PhaseAgreesWithReady
    FinalizerGuardsResources
PROPERTIES
    FrozenUnlessArmed
    ClaimedKeepsReporting
    
    ObservedGenerationMonotone
    Converges
    DeletionCompletes
CHECK_DEADLOCK FALSE
