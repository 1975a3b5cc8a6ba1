\* A storlet and a dependency, one invocation at a time, uploads of changing
\* size, downloads of the storlet that break off.
CONSTANTS
    Workers = {w1}
    Rounds = 5
    Objects <- MCStorletAndDependency
    Versions <- MCVersions
    Size <- MCSizes
    Breaking = {"storlet"}
    UploadsRace = FALSE
    EngineFails = FALSE
    NoFile = NoFile
    NoDaemon = NoDaemon
SPECIFICATION Spec
INVARIANTS
    TypeOK
    CodeIsWhole
    Fresh
CHECK_DEADLOCK FALSE
