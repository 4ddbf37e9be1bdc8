CONSTANTS
    Files <- OneFile
    Servers = {b1}
    EnvFailures = FALSE
    MaxGen = 2
    MaxSignals = 3
CHECK_DEADLOCK FALSE
SPECIFICATION FairSpec
PROPERTY
    TermHonoured
