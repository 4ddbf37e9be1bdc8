CONSTANTS
    Keys = {k1, k2, k3, k4}
    Procs = {w1}
    Sessions = {s1, s2, s3, s4}
    NoSession = NoSession
    NumShards = 1
    ShardFor <- OneShard
    Timeout = 0
    Readers = {r1}
    Servers = {b1}
    NoServer = NoServer
    Affinity = FALSE
    MaxSessions = 1
    QueueCap = 1
    MaxPackets = 4
    MaxFlips = 1
    MaxEvents = 5
SPECIFICATION Spec
SYMMETRY Symmetry
CHECK_DEADLOCK FALSE
INVARIANT
    CapOvershootBounded
PROPERTY
    RefusedOnlyWhenFull
