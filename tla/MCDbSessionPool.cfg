\* Database sessions: two calls of all kinds, on a file and on a server.
SPECIFICATION FairSpec
CONSTANTS
    Call = {c1, c2}
    Database = {a, b}
    NoDatabase = NoDatabase
    Kind = {"metadata", "script", "stream", "manual"}
INVARIANTS RightDatabase OneSessionPerFile
PROPERTY CallsReturn
CHECK_DEADLOCK FALSE
