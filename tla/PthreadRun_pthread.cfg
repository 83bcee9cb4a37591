\* -t pthread with statistics timer or with a SIGINT; signals reach any thread, a
\* SIGINT comes at any statement, pthread_create and set_affinity may fail,
\* comm_cleanup unmaps what the others still play on.
SPECIFICATION FairSpec
CONSTANTS
    Runtime = 2
    CreateFails = TRUE
    BadCpu = {1}
    MainFirst = FALSE
    CleanupUnmaps = TRUE
    MaxSigint = 1
    SigintTimer = {FALSE}
INVARIANTS
    TypeOK
    RunsFullTime
    StopNotFatal
PROPERTIES
    ReadyRunEnds
