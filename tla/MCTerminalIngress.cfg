\* The three transports: four chunks, a budget of two bytes, a lane of one
\* chunk, every thread and the owner free to move between two steps.
SPECIFICATION FairSpec
CONSTANTS
    MaxRead = 4
    MaxBytes = 2
    MaxChunks = 1
    Bytes <- SumOfSizes
    Transports = {"ssh", "telnet", "serial"}
INVARIANTS WithinBudget ParsedInOrder DrainedMeansParsed
PROPERTIES StopReleasesAll SourceEndsParser
CHECK_DEADLOCK FALSE
