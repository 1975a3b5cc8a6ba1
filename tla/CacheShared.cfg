\* Two workers share the files and the daemon, uploads and breaks at any moment.
CONSTANTS
    Workers = {w1, w2}
    Rounds = 2
    Objects <- MCStorlet
    Versions <- MCTwoVersions
    Size <- MCSizes
    Breaking = {"storlet"}
    UploadsRace = TRUE
    EngineFails = FALSE
    NoFile = NoFile
    NoDaemon = NoDaemon
SPECIFICATION Spec
INVARIANTS
    DaemonRunsBox
CHECK_DEADLOCK FALSE
