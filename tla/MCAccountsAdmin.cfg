\* Two administrators are demoted or deleted at the same time.
CONSTANTS
    a = a
    b = b
    c = c
    Ids <- MCIds
    Addresses <- MCAddresses
    AddressOf <- MCAddressOf
    Requests = {r, s}
    Ops = {"setup", "create", "role", "delete"}
    FaultKinds = {}
    MaxRequests = 4
    MaxFaults = 0
SPECIFICATION Spec
SYMMETRY Symmetry
CHECK_DEADLOCK FALSE
INVARIANTS
    AdminRemains
