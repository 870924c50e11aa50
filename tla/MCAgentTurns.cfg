\* Two tasks in two modes: interruptions, approvals and closing, over a
\* history of one item; every turn settles
SPECIFICATION TurnsFairSpec
CONSTANTS
    t1 = t1
    t2 = t2
    rm = rm
    ls = ls
    Task = {t1, t2}
    Call = {rm, ls}
    Risky = {rm}
    Unavailable = {}
    Parallel = {ls}
    Modes = {"Manual", "ReadOnly"}
    NoTask = NoTask
    NoCall = NoCall
    MaxIterations = 1
    MaxItems = 1
    KeepLast = 1
    Says = {"None"}
    MaxCalls = 1
INVARIANTS
    BusyForAReason
    OneVerdict
PROPERTIES
    StoppedStaysStopped
    ApprovedOnly
    TurnsSettle
CHECK_DEADLOCK FALSE
