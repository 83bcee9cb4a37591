\* -t pthread, nothing fails.
SPECIFICATION Spec
CONSTANTS
    Runtime = 2
    CreateFails = FALSE
    BadCpu = {}
    MainFirst = TRUE
    CleanupUnmaps = FALSE
    MaxSigint = 0
    SigintTimer = {}
INVARIANTS
    FinalStatsPrinted
CHECK_DEADLOCK FALSE
