CONSTANTS
    Readers = {r1}
    Workers = {w1}
    Backend = backend
    NumListeners = 2
    QueueCap = 2
    Buffers = {p1, p2, p3, p4, p5}
    NoBuffer = NoBuffer
    MaxPackets = 3
CHECK_DEADLOCK FALSE
SPECIFICATION FairSpec
INVARIANTS
    OneOwner
    Accounting
    FailedStartClosesAll
    StopLeavesAtMostOnePerReader
PROPERTY
    StopReturns
