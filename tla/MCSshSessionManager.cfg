\* Session manager: two consumers, reconfiguration and shutdown.
SPECIFICATION FairSpec
CONSTANTS
    Task = {a, b}
    MaxFlight = 2
    MaxConfig = 1
INVARIANTS SingleFlight NewConfigReached ShutdownComplete
PROPERTIES NothingPastGate NobodyWaitsForEver
CHECK_DEADLOCK FALSE
