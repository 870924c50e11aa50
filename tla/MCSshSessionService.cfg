\* Session service: two consumers share one key while it shuts down; a manager's
\* shutdown may hang, the deadline fires.
SPECIFICATION FairServiceSpec
CONSTANTS
    Key = {k1}
    NoKey = NoKey
    Caller = {a, b}
    MaxGen = 2
    MaxIdle = 2
    Closer = {x}
    NoReport = NoReport
INVARIANTS RetainedLeasesGated ReportTruthful NoLostWakeup
PROPERTIES ShutdownConverges
CHECK_DEADLOCK FALSE
