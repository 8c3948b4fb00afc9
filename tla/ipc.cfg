SPECIFICATION Spec
CONSTANTS
    main = main
    c1 = c1
    Threads <- MCThreads
    Main = main
    c2 = c2
    Programs <- MCPrograms
    Types <- MCTypes
    Reads <- MCReads
    Capacity = 2
    MaxStarts = 2
    Kills = 1
    Signals = 2
INVARIANTS TypeOK ObjectsLiveWithServer LockExcludes
CHECK_DEADLOCK FALSE
SYMMETRY Same
