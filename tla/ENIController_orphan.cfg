SPECIFICATION Spec
CONSTANTS
    ENI = {e1, e2, e3}
    NoENI = NoENI
    NumENIs = 2
    Faults = {"resync"}
    MaxFaults = 0
    MaxLag = 2
SYMMETRY Symmetry
INVARIANTS CreatedIsRecorded
CHECK_DEADLOCK FALSE
