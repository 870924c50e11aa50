\* What a model is sent while a second task starts, is stopped, or writes late
SPECIFICATION TurnsSpec
CONSTANTS
    t1 = t1
    t2 = t2
    cat = cat
    ls = ls
    Task = {t1, t2}
    Call = {cat, ls}
    Risky = {}
    Unavailable = {}
    Parallel = {cat, ls}
    Modes = {"Auto", "Ask"}
    NoTask = NoTask
    NoCall = NoCall
    MaxIterations = 2
    MaxItems = 5
    KeepLast = 1
    Says = {"Reasoned"}
    MaxCalls = 2
SYMMETRY TaskAndCallSymmetry
INVARIANTS LegalProtocol
PROPERTIES CompactionKeepsSuffix
CHECK_DEADLOCK FALSE
