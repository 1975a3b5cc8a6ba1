\* An upload of the same size.
CONSTANTS
    Workers = {w1}
    Rounds = 3
    Objects <- MCStorlet
    Versions <- MCTwoVersions
    Size <- MCSameSize
    Breaking = {}
    UploadsRace = FALSE
    EngineFails = FALSE
    NoFile = NoFile
    NoDaemon = NoDaemon
SPECIFICATION Spec
INVARIANTS
    Fresh
CHECK_DEADLOCK FALSE
