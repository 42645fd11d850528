SPECIFICATION FairSpec
CONSTANTS
    Key = {k1, k2}
    Worker = {w1, w2}
    NoKey = NoKey
    MaxEvents = 2
INVARIANTS TypeOK OneWorkerPerKey NoChangeLost NoLostWakeup
PROPERTIES ImplementsKeyedWork ChangesAreHandled
CHECK_DEADLOCK FALSE
