CONSTANTS
    Files <- SomeFiles
    Servers = {b1}
    EnvFailures = TRUE
    MaxGen = 3
    MaxSignals = 3
CHECK_DEADLOCK FALSE
SPECIFICATION FairSpec
INVARIANTS
    NoOrphan
    RunsItsConfig
    AcceptedConfigStarts
PROPERTIES
    CancelledProbeHarmless
    AcceptedTermExits
    ReloadEnds
