SPECIFICATION Spec
CONSTANTS
    Container = {c1, c2}
    NoContainer = NoContainer
    IP = {1, 2}
    NoIP = NoIP
    Pools <- MCPools
    Faults = {"crash"}
SYMMETRY Symmetry
INVARIANTS CanRestore
CHECK_DEADLOCK FALSE
