\* Every mode, every disturbance; the flag of signal.c is read in the loop.
SPECIFICATION Spec
CONSTANTS
    Kinds = {"pipe", "namedpipe", "socketpair", "udp", "tcp", "mq", "eventfd", "inotify"}
    Capacity = 2
    Wrap = 8
    MaxStale = 2
    Loses = TRUE
    JobControl = TRUE
    MayStop = TRUE
    Hoisted = FALSE
INVARIANTS
    TypeOK
    OneBall
    BallsKept
    NoLostWakeup
    WokenAlone
    CountVisible
    NoSignalLost
PROPERTIES
    KeepsPlaying
    NeverStuck
