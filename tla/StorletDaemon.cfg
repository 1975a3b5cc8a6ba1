\* Three executions compete for a pool of two; one of them may be cancelled, the
\* daemon pinged or halted.
CONSTANTS
    Requests = {"e1", "e2", "e3", "c1", "h1", "p1"}
    Command <- MCCommand
    Impatient = {"e1"}
    Target <- MCTarget
    NoRequest = NoRequest
    NoPid = NoPid
    Pids = {d1, d2, d3}
    pool_size = 2
    IdleLimit = 2
SYMMETRY PidSymmetry
SPECIFICATION Spec
INVARIANTS
    TypeOK
    PoolBound
    EntriesAreOwn
    NoStorletForgotten
    ExitLeavesNoStorlet
    NoClientForgotten
PROPERTIES
    KilledOnlyByItsCancel
    AnsweredOnce
    ImplementsTaskPool
CHECK_DEADLOCK FALSE
