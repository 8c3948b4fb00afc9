SPECIFICATION Spec
CONSTANTS
    MaxTasks = 3
    MaxAdds = 4
    Tables = {"task1"}
    KernelTable = "kernel"
    Word <- MCWord
    IdleEntry = 0
    Entries = {1}
    Vector <- MCVector
    CoreStep <- MCCoreStep
    SkipStep <- MCSkipStep
    Testing = TRUE
    VectorStep <- MCVectorStep
    IrqTimers = {"TIMER0"}
INVARIANT TypeOK
PROPERTY Isolated
