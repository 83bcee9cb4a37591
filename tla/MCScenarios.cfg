\* The constants are those of "ctrlc"; MCScenarios has what the others change.
SPECIFICATION AnySpec
CONSTANTS
    ThreadMode = "fork"
    Runtime = 2
    StatsTimer = FALSE
    PromptStart = TRUE
    CleanupExits = FALSE
    BadCpu <- None
    SpawnFails = FALSE
    SigintScope = "group"
    MaxSigint = 2
    CrashAt <- None
    MaxCrash = 0
INVARIANTS
    TypeOK
    OneStopper
    StatsQuiet
    ReportComplete
    RunsFullTime
    NoStaleSignal
    
PROPERTIES
    RunEnds
