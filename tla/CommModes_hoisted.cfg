\* The build the Makefile asks for.
SPECIFICATION Spec
CONSTANTS
    Kinds = {"pipe", "namedpipe", "socketpair", "udp", "tcp", "mq", "eventfd", "inotify"}
    Capacity = 2
    Wrap = 8
    MaxStale = 2
    Loses = TRUE
    JobControl = TRUE
    MayStop = TRUE
    Hoisted = TRUE
PROPERTIES
    KeepsPlaying
CHECK_DEADLOCK FALSE
