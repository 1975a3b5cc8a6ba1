\* Two invocations in one worker, one with its body in a pipe and one with a
\* descriptor; storlets may hang, one may crash, and the daemon may be stopped; 12
\* numbers, which suffice for both at a time and no more.
CONSTANTS
    Invocations = {"piped", "direct"}
    HasFd = {"direct"}
    pool_size = 2
    Chunks = 2
    Capacity = 1
    MaxFd = 12
    NoFd = NoFd
    Failing = {"piped"}
    Stops = TRUE
SPECIFICATION HungSpec
INVARIANTS
    TypeOK
    DescriptorsClosed
    NoStorletStranded
    NothingLost
PROPERTIES
    InvocationsEnd
CHECK_DEADLOCK FALSE
