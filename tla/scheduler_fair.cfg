SPECIFICATION FairSpec
CONSTANTS
    MaxTasks = 3
    MaxAdds = 0
    Tables = {"task1"}
    KernelTable = "kernel"
    Word <- MCWord
    IdleEntry = 0
    Entries = {1}
    Vector <- MCVector
    CoreStep <- MCCoreStep
    SkipStep <- MCSkipStep
    Testing = FALSE
    VectorStep <- MCVectorStep
    IrqTimers = {"TIMER0", "TIMER1"}
PROPERTIES EverySlotRuns InterruptsServed
