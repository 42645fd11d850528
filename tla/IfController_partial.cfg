SPECIFICATION Spec
CONSTANTS
    NumENIs = 1
    Faults = {"routes"}
    MaxFaults = 1
INVARIANTS HereFullyConfigured
CHECK_DEADLOCK FALSE
