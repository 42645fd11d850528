SPECIFICATION FairSpec
CONSTANTS
    NumENIs = 2
    Faults <- AllFaults
    MaxFaults = 2
INVARIANTS TypeOK OfferedIsConfigured OfferedIsRouted PluginsBeforeConfig
PROPERTIES PoolNeverShrinks EventuallyReady
CHECK_DEADLOCK FALSE
