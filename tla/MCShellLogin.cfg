SPECIFICATION Spec
CONSTANTS
    Parts = {"session"}
    MaxLogins = 2
    MaxLogouts = 1
    MaxReloads = 1
    MaxInstalls = 1
    MaxChanges = 1
    MaxLost = 1
    MaxWire = 2
    MaxAsks = 4
    MaxFaults = 1
    MaxVisits = 2
    Callers = {c1, c2, c3}
    MAX_RETRIES = 2
    MaxSends = 4
    Episodes = 3
    Seconds = 2
    MaxMoves = 2
    MaxMissing = 1
INVARIANT LoginBringsTier
CHECK_DEADLOCK FALSE
