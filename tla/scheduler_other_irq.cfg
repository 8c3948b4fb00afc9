SPECIFICATION Spec
CONSTANTS
    MaxTasks = 2
    MaxAdds = 2
    Tables = {"task1"}
    KernelTable = "kernel"
    Word <- MCWord
    IdleEntry = 0
    Entries = {1}
    Vector <- MCVector
    CoreStep <- MCCoreStep
    SkipStep <- MCSkipStep
    Testing = FALSE
    VectorStep <- MCVectorStep
    IrqTimers = {"TIMER0", "TIMER1"}
PROPERTY SavesOnlyTheCurrentTask
