SPECIFICATION Spec
CONSTANTS
    Backups = {b1}
    Svc = svc0
    None = None
    MaxEdits = 1
    MaxFaults = 1
PROPERTIES
    StatusIsLoaded
CHECK_DEADLOCK FALSE
