SPECIFICATION Spec
CONSTANTS
    Contents = {a, b}
    None = None
    MaxRows = 3
    MaxRecords = 2
    MaxTime = 2
    MaxChanges = 1
    MaxRemote = 1
    MaxFaults = 0
    MaxResolves = 0
    MaxEvents = 3
PROPERTY DeletionStays
CHECK_DEADLOCK FALSE
