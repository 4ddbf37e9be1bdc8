CONSTANTS
    Keys = {k1}
    Procs = {w1}
    Sessions = {s1}
    NoSession = NoSession
    NumShards = 1
    ShardFor <- OneShard
    Timeout = 0
    Readers = {r1}
    Servers = {b1, b2}
    NoServer = NoServer
    Affinity = TRUE
    MaxSessions = 0
    QueueCap = 1
    MaxPackets = 1
    MaxFlips = 2
    MaxEvents = 3
SPECIFICATION Spec
CHECK_DEADLOCK FALSE
INVARIANT
    PickNeverNil
