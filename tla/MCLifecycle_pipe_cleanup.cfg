\* comm_cleanup of the pipe modes.
SPECIFICATION Spec
CONSTANTS
    ThreadMode = "fork"
    Runtime = 2
    StatsTimer = TRUE
    PromptStart = TRUE
    CleanupExits = TRUE
    BadCpu <- None
    SpawnFails = FALSE
    SigintScope = "monitor"
    MaxSigint = 0
    CrashAt <- None
    MaxCrash = 0
INVARIANTS
    FinalStatsPrinted
CHECK_DEADLOCK FALSE
