\* Requests of every kind, two replicas, and concurrent updates of the ACL.
CONSTANTS
    Clients = {"c1", "c2", "c3"}
    Workloads <- MCWorkloads
    Confs <- MCConfs
    MaxExtra = "few"
    Replicas = 2
    Grants = {"g1", "g2"}
    Nothing = Nothing
SPECIFICATION FairSpec
INVARIANTS
    TypeOK
    ProcessedOnce
    RunsWhereAsked
    RangeHonoured
    GrantsKept
PROPERTIES
    EveryRequestAnswered
CHECK_DEADLOCK FALSE
