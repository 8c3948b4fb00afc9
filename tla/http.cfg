SPECIFICATION FairSpec
CONSTANTS
    Pages = {p1, p2}
    Files <- MCFiles
    NoFile = NoFile
    DefaultClients = 2
    Signals = {"SIGUSR1", "SIGINT"}
    Losses = TRUE
    MaxSignals = 1
    MaxLoads = 2
    MaxFds = 3
CHECK_DEADLOCK FALSE
INVARIANTS TypeOK MutualExclusion CountMatches
PROPERTIES AdmittedBelowLimit ConnectionsEnd ReconfiguredByVisit
