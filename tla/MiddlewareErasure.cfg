\* Reads of erasure coded objects.
CONSTANTS
    Clients = {"c1"}
    Workloads <- MCErasureCoded
    Confs <- MCConfs
    MaxExtra = "few"
    Replicas = 2
    Grants = {"g1", "g2"}
    Nothing = Nothing
SPECIFICATION Spec
INVARIANTS
    ErasureCodedProcessed
CHECK_DEADLOCK FALSE
