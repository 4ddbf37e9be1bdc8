CONSTANTS
    Keys = {k1}
    Procs = {w1, w2}
    Sessions = {s1, s2}
    NoSession = NoSession
    NumShards = 1
    ShardFor <- OneShard
    Timeout = 9
    Readers = {r1}
    Servers = {b1, b2}
    NoServer = NoServer
    Affinity = TRUE
    MaxSessions = 0
    QueueCap = 1
    MaxPackets = 3
    MaxFlips = 1
    MaxEvents = 4
SPECIFICATION Spec
SYMMETRY Symmetry
INVARIANT
    ConnCountReflectsSessions
