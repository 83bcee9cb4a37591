\* -r 0
SPECIFICATION Spec
CONSTANTS
    ThreadMode = "fork"
    Runtime = 0
    StatsTimer = TRUE
    PromptStart = TRUE
    CleanupExits = FALSE
    BadCpu <- None
    SpawnFails = FALSE
    SigintScope = "monitor"
    MaxSigint = 0
    CrashAt <- None
    MaxCrash = 0
INVARIANTS
    RunsContinuously
CHECK_DEADLOCK FALSE
