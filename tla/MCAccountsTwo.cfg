\* Two requests at a time; a write or the process may fail once.
CONSTANTS
    a = a
    b = b
    c = c
    Ids <- MCIds
    Addresses <- MCAddresses
    AddressOf <- MCAddressOf
    Requests = {r, s}
    Ops = {"setup", "login", "create", "role", "delete", "reset", "change", "logout"}
    FaultKinds = {"db", "crash"}
    MaxRequests = 5
    MaxFaults = 1
SPECIFICATION Spec
SYMMETRY Symmetry
CHECK_DEADLOCK FALSE
INVARIANTS
    OnePerAddress
PROPERTIES
    DeletedStaysDeleted
