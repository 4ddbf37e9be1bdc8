CONSTANTS
    N = 2
    Weight <- Weights
    AddressLists <- Lists
    Callers = {c1, c2}
    HashCount = 8
    IntLimit = 8
    MaxTickets = 6
    MaxFlips = 3
    MaxConns = 2
CHECK_DEADLOCK FALSE
SPECIFICATION Spec
SYMMETRY Symmetry
INVARIANTS
    PoolTypeOK
    PickMatchesReference
    RoundRobinExact
    BadReportHeeded
PROPERTY
    KeepsPromise
