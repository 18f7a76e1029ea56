\* Three requests of any kind about a library of two files; one failing query
\* or save, one restart.
CONSTANTS
    Requests = {1, 2, 3}
    Files = {f1, f2}
    Ops = {"scan", "cancel", "delete", "bridge"}
    None = None
    MaxFaults = 1
    MaxRestarts = 1
SPECIFICATION ScanSpec
CHECK_DEADLOCK FALSE
INVARIANTS
    OneBackgroundCopy
    CancelReaches
    CountRight
PROPERTIES
    ScanEnds
