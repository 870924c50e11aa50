\* A response with calls that need approval and calls that do not
SPECIFICATION TurnsSpec
CONSTANTS
    t1 = t1
    t2 = t2
    rm = rm
    ls = ls
    Task = {t1, t2}
    Call = {rm, ls}
    Risky = {rm}
    Unavailable = {}
    Parallel = {rm, ls}
    Modes = {"Manual"}
    NoTask = NoTask
    NoCall = NoCall
    MaxIterations = 1
    MaxItems = 5
    KeepLast = 1
    Says = {"Reasoned"}
    MaxCalls = 2
INVARIANT LegalCallsKept
CHECK_DEADLOCK FALSE
