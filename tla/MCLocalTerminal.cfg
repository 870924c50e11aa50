\* A command and a text of two agents in a terminal of either kind of shell,
\* in a posix shell with one input of the user or one interrupt, under the
\* system's scheduling
SPECIFICATION FairSpec
CONSTANTS
    o1 = o1
    o2 = o2
    Op = {o1, o2}
    NoOp = NoOp
    Request <- OneTypes
    Shells = {"posix", "windows"}
    NoCommand = NoCommand
    User = User
    MaxInputs <- PosixInput
    MaxQueued = 1
INVARIANTS RefusedNotWritten TimedOutStillFollowed
PROPERTIES CancelledStaysUnwritten EveryExecReturns
CHECK_DEADLOCK FALSE
