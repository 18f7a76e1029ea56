SPECIFICATION Spec
CONSTANTS
    Catalog <- MCCatalog
    Lagging <- MCLagging
    Locks <- MCLocks
    Careful <- MCCareful
    Sels = {s1, s2}
    MaxCalls = 2
    s1 = s1
    s2 = s2
INVARIANTS NoStuckFlags SerialFresh NoDoubleSubmit NoEditLost
CHECK_DEADLOCK FALSE
