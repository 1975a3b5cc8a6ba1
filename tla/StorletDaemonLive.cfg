\* Two executions in a pool of one, a cancel, a command the daemon has no handler
\* for, a datagram that cannot be decoded.
CONSTANTS
    Requests = {"e1", "e2", "c1", "u1", "g1"}
    Command <- MCCommand
    Impatient = {"e1"}
    Target <- MCTarget
    NoRequest = NoRequest
    NoPid = NoPid
    Pids = {d1, d2}
    pool_size = 1
    IdleLimit = 1
SPECIFICATION FairSpec
PROPERTIES
    EveryRequestSettled
    DaemonEnds
CHECK_DEADLOCK FALSE
