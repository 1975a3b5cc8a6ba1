\* Progress of the factory when its daemons answer and storlets return; pids are
\* handed out again, and the logger may not start.
CONSTANTS
    Requests = {"startA", "startA2", "execute", "garbled"}
    Command <- MCCommand
    Impatient = {"startA"}
    Storlets = {"A"}
    Storlet <- MCStorlet
    NoRequest = NoRequest
    NoStorlet = NoStorlet
    NoPid = NoPid
    Orphans = Orphans
    Pids = {d1}
    Tries = 1
    IdleLimit = 1
    PidReuse = TRUE
    LoggerFails = TRUE
SPECIFICATION FairSpec
PROPERTIES
    EveryRequestSettled
    FactoryEnds
CHECK_DEADLOCK FALSE
