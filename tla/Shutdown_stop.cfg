CONSTANTS
    MaxRPCs = 0
    MaxSignals = 1
SPECIFICATION FairSpec
CHECK_DEADLOCK FALSE
PROPERTY
    StopStops
