SPECIFICATION FairSpec
CONSTANTS
    Handler = {h1, h2}
    Ticker = ticker
    PoolSize = 1
    TaintWhenNoIPs = TRUE
    DeletePodWhenNoIPs = TRUE
    Other = {o1, o2}
    NoNode = none
    MaxLag = 3
INVARIANTS TypeOK
PROPERTIES OthersChangesKept TaintConverges AddReturns
CHECK_DEADLOCK FALSE
