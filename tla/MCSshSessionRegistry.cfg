\* Bare registry: two keys, retirement and drop included, under the runtime's
\* fairness (no symmetry: it is not sound for liveness).
SPECIFICATION FairRegistrySpec
CONSTANTS
    Key = {k1, k2}
    NoKey = NoKey
    Caller = {a, b}
    MaxGen = 2
    MaxIdle = 2
INVARIANTS LeaseCountExact CurrentIsNewest SnapshotTruthful
PROPERTIES ImplementsSharedSessions EveryWaiterAnswered IdleGenerationLeaves
CHECK_DEADLOCK FALSE
