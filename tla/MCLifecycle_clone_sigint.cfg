\* Clone mode, one SIGINT to the monitor.
SPECIFICATION Spec
CONSTANTS
    ThreadMode = "clone"
    Runtime = 2
    StatsTimer = TRUE
    PromptStart = TRUE
    CleanupExits = FALSE
    BadCpu <- None
    SpawnFails = FALSE
    SigintScope = "monitor"
    MaxSigint = 1
    CrashAt <- None
    MaxCrash = 0
INVARIANTS
    DeadAreDead
CHECK_DEADLOCK FALSE
