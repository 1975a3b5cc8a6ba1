\* One storlet started twice, stopped and asked about, in every order; or two
\* daemons shut down by HALT, by STOP_DAEMONS and on the way out.
CONSTANTS
    Requests = {"startA", "startA2", "stopA", "statusA", "startB", "halt", "stopall", "ping"}
    Command <- MCCommand
    Impatient = {"startA"}
    Storlets = {"A", "B"}
    Storlet <- MCStorlet
    NoRequest = NoRequest
    NoStorlet = NoStorlet
    NoPid = NoPid
    Orphans = Orphans
    Pids = {d1, d2}
    Tries = 1
    IdleLimit = 1
    PidReuse = FALSE
    LoggerFails = FALSE
SYMMETRY PidSymmetry
CONSTRAINT OneGroup
SPECIFICATION Spec
INVARIANTS
    TypeOK
    OneDaemonPerStorlet
    DaemonsTracked
    CleanExit
PROPERTIES
    StatusTruthful
    StopStops
    StartStarts
CHECK_DEADLOCK FALSE
