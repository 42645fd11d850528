CONSTANTS
    MaxRPCs = 2
    MaxSignals = 2
SPECIFICATION FairSpec
CHECK_DEADLOCK FALSE
INVARIANTS
    TypeOK
    WorkAfterSync
    CallsFinishFirst
    SendsAreReceived
PROPERTIES
    InterruptsReturn
    GroupReturns
    WorkersDrain
