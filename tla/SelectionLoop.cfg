SPECIFICATION Spec
CONSTANTS
    IP = {1, 2, 3, 4}
    NoIP = NoIP
INVARIANTS IInv SelectionAgrees RotationKeepsPool
CHECK_DEADLOCK FALSE
