CONSTANTS
    Workers = {w1, w2}
    Clients = {c1, c2}
    Servers = {b1}
    Nobody = Nobody
    MaxRoutes = 2
    TTL = 1
    Stall = 0
    MaxRequests = 2
    MaxFaults = 0
    MaxTime = 0
SPECIFICATION Spec
SYMMETRY Symmetry
CHECK_DEADLOCK FALSE
INVARIANT
    ResponsesMatch
