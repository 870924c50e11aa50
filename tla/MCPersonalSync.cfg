SPECIFICATION FairSpec
CONSTANTS
    Contents = {a, b}
    None = None
    MaxRows = 4
    MaxRecords = 3
    MaxTime = 2
    MaxChanges = 1
    MaxRemote = 1
    MaxFaults = 1
    MaxResolves = 1
    MaxEvents = 3
INVARIANTS OneRowPerRecord UnlistedChangeQueued
PROPERTIES NothingOverwritten Converges
