CONSTANTS
    PacketRate = 1
    ByteRate = 2
    BurstPackets = 3
    BurstBytes = 0
    Callers = {c1, c2}
    Sizes = {1, 2, 3}
    Stall = 1
    MaxTime = 8
    Second = 2
    Clients = {"a1", "a2"}
    ClientRate = 1
    ClientBurst = 5
    Ttl = 3
    Addresses = {"a1", "a2"}
    SessionTtl = 3
    Ports = {"q1", "q2"}
    FrontendRate = 1
    FrontendBurst = 0
    MaxPacketSize = 2
    Watched = "a1"
    WatchedSecond = 1
    Policies <- SomePolicies
SPECIFICATION AdmissionSpec
SYMMETRY Symmetry
INVARIANTS
    AdmissionTypeOK
    RateBound
    SupplyBound
    ClientRateBound
    SecondBound
    PortsWithinLimit
PROPERTY
    RefusedPortsRecent
