CONSTANTS
    Keys = {k1, k2}
    Procs = {p1, p2}
    Sessions = {s1, s2}
    NoSession = NoSession
    NumShards = 2
    ShardFor <- SecondShard
    Timeout = 0
SPECIFICATION FairTableSpec
INVARIANTS
    TypeOK
    CountConservation
    OneStage
    SharedSession
PROPERTIES
    NoPrematureEviction
    ExpiredLeaves
    CallbacksRun
    StopEndsReaper
