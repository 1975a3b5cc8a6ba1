\* Two invocations in one worker, a pool of one, storlets that do not hang.
CONSTANTS
    Invocations = {"first", "second"}
    HasFd = {}
    pool_size = 1
    Chunks = 2
    Capacity = 1
    MaxFd = 14
    NoFd = NoFd
    Failing = {}
    Stops = FALSE
SPECIFICATION FairSpec
PROPERTIES
    RequestsAnswered
CHECK_DEADLOCK FALSE
