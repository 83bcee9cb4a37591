\* A playing thread is killed.
SPECIFICATION FairSpec
CONSTANTS
    ThreadMode = "fork"
    Runtime = 2
    StatsTimer = TRUE
    PromptStart = TRUE
    CleanupExits = FALSE
    BadCpu <- None
    SpawnFails = FALSE
    SigintScope = "monitor"
    MaxSigint = 0
    CrashAt <- Playing
    MaxCrash = 1
PROPERTIES
    MonitorTerminates
CHECK_DEADLOCK FALSE
