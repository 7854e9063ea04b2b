SPECIFICATION FairSpec
CONSTANTS
    NumNodes = 2
    User = {"admin", "u"}
    Role = {"r", "q"}
    Privilege = {"read", "write"}
    Limits = {0, 1}
    Secret = {"a", "b"}
    Password = {"pa", "pb"}
    Scenarios <- MCScenarios
INVARIANTS
    OperatorKeepsAccess
    RestMeansApplied
    AdminKeepsRoles
PROPERTIES
    AdminLast
    Settles
CHECK_DEADLOCK FALSE
