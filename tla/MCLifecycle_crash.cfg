\* Fork mode, fork may fail, both threads may be killed at any place, one ^C.
\* The monitor may hang (see the violation runs), so deadlock is not an error.
SPECIFICATION Spec
CONSTANTS
    ThreadMode = "fork"
    Runtime = 1
    StatsTimer = TRUE
    PromptStart = FALSE
    CleanupExits = FALSE
    BadCpu <- None
    SpawnFails = TRUE
    SigintScope = "group"
    MaxSigint = 1
    CrashAt <- AnyPlace
    MaxCrash = 2
INVARIANTS
    QuietReport
    DeadAreDead
PROPERTIES
    KeepsPromise
CHECK_DEADLOCK FALSE
