SPECIFICATION FairSpec
CONSTANTS
    Procs = {p1, p2}
    NoProc = NoProc
    Byte = {0, 1}
    Operations <- MCOperations
    MaxTries = 2
    Faults = {"nack", "arbitration"}
INVARIANTS TypeOK LockedInside DoneUnderLock OneTransfer FreshCompletions BufferIndexInRange
PROPERTY OperationsEnd
