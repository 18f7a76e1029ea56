\* Three clients of a party that holds two; clients that left may come back.
\* Both limiters, more than two windows long.
CONSTANTS
    Parts = {"lists", "limiters"}
    Sockets = {s1, s2, s3}
    Lists = {l1, l2, l3}
    MaxConnectionsPerParty = 2
    MaxJoins = 5
    Limiters = {"party", "cellar"}
    Limit = 2
    Window = 2
    MaxTime = 6
    MaxCalls = 7
SPECIFICATION PartySpec
SYMMETRY Symmetry
CHECK_DEADLOCK FALSE
INVARIANTS
    NoGhosts
    ListCap
    WindowBound
PROPERTIES
    BroadcastIsComplete
    RoomKept
    RefusedOnlyWhenFull
