\* Two activations of one serial at the same time; nothing fails.
CONSTANTS
    Serials <- Paid
    TierOf <- PaidTierOf
    Requests = {"a", "b"}
    Kinds = {"activate", "deactivate"}
    FaultKinds = {}
    MaxRequests = 3
    MaxFaults = 0
SPECIFICATION Spec
CHECK_DEADLOCK FALSE
PROPERTIES
    StoredSeatHeld
