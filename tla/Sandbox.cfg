\* Two gateways and two scopes, room for one container.
CONSTANTS
    Gateways = {"g1", "g2"}
    Scopes = {"A", "B"}
    Storlets = {"X"}
    max_containers_per_node = 1
    TenantImages = {"A"}
    EngineFails = TRUE
    Workloads <- MCWorkloads
    None = None
    Eof = Eof
SPECIFICATION FairSpec
INVARIANTS
    TypeOK
    ContainerLimit
    ActivationHolds
    RunsInItsSandbox
PROPERTIES
    ActivationsEnd
CHECK_DEADLOCK FALSE
