SPECIFICATION FairSpec
CONSTANTS
    Pages = {p1, p2}
    Files = {1}
    NoFile = NoFile
    DefaultClients = 2
    Signals = {}
    Losses = FALSE
    MaxSignals = 0
    MaxLoads = 3
    MaxFds = 8
CHECK_DEADLOCK FALSE
PROPERTIES RefusedForOthers
