\* Requests of all kinds race each other.
CONSTANTS
    Serials <- MCSerials
    TierOf <- MCTierOf
    Requests = {"a", "b"}
    Kinds = {"activate", "first", "skip", "deactivate"}
    FaultKinds = {"net", "db", "crash"}
    MaxRequests = 4
    MaxFaults = 1
SPECIFICATION Spec
CHECK_DEADLOCK FALSE
INVARIANTS
    OneInstall
    StoredUnderInstall
