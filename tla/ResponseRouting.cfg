CONSTANTS
    Workers = {w1, w2}
    Clients = {c1, c2}
    Servers = {b1}
    Nobody = Nobody
    MaxRoutes = 2
    TTL = 2
    Stall = 1
    MaxRequests = 4
    MaxFaults = 1
    MaxTime = 5
SPECIFICATION Spec
SYMMETRY Symmetry
CHECK_DEADLOCK FALSE
INVARIANTS
    NoOrphanRoute
    MatchedUnlessDisturbed
    NearlySorted
PROPERTY
    RefusedOnlyByLive
