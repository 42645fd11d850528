SPECIFICATION Spec
CONSTANTS
    Container = {c1, c2}
    NoContainer = NoContainer
    IP = {1, 2}
    NoIP = NoIP
    Pools <- MCPools
    Faults = {"crash", "write", "abandon"}
SYMMETRY Symmetry
INVARIANTS TypeOK IInv NoSharedIP GrantsHeld NoLeak
PROPERTIES ImplementsAddressPool
CHECK_DEADLOCK FALSE
