\* The task switches go on for ever, but main alone stops after its calls
\* when no timer is running.
CHECK_DEADLOCK FALSE
SPECIFICATION FairSpec
CONSTANTS
    Lines = {0, 1}
    MaxTasks = 2
    Requests <- Both
    Modulus = 2
    MsTicks = 1
INVARIANT TypeOK
PROPERTIES
    OneAttributeAtATime
    OnlyTheRequestedMode
    InterruptsServed
