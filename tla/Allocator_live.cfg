SPECIFICATION FairSpec
CONSTANTS
    Container = {c1, c2}
    NoContainer = NoContainer
    IP = {1}
    NoIP = NoIP
    Pools <- OnePool
    Faults = {"write"}
PROPERTIES CallsReturn
CHECK_DEADLOCK FALSE
