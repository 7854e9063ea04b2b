SPECIFICATION FairSpec
CONSTANTS
    p1 = p1
    p2 = p2
    p3 = p3
    Pod = {p1, p2, p3}
    NumRacks = 2
    PodsOf <- MCPodsOf
    Scenarios <- MCScenarios
INVARIANTS
    OneBatchOut
    RestMeansRolledOut
PROPERTIES
    RecordedMeansRestarted
    WipeOnlyRemoved
    
    ParkedComesBack
    EvictionsServed
CHECK_DEADLOCK FALSE
